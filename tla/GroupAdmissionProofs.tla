------------------------ MODULE GroupAdmissionProofs ------------------------
(***************************************************************************)
(* Proofs about GroupAdmission, for any set of devices, any founders and    *)
(* any number of groups, events, deaths and losses: the membership lists    *)
(* are sound wherever no device came straight from another group, and the   *)
(* logs keep groups and events apart.                                       *)
(***************************************************************************)
EXTENDS GroupAdmission, SequenceTheorems, WellFoundedInduction, TLAPS

(* What a device or a message may hold, whatever the state.                 *)
Admission == Nat \X Peer \X Peer

Minded ==
  [group : Nat, members : SUBSET Peer, pin : Nat, keys : SUBSET Peer, key : Nat, typed : Nat,
   handshake : {None} \cup [id : Admission, inviter : Peer, pin : Nat],
   invited : [Peer -> {None} \cup Admission],
   admitting : [Peer -> {None} \cup (Admission \X Nat)]]

Row == [group : Nat, members : SUBSET Peer, pin : Nat, keys : SUBSET Peer]

Letter ==
  [type : {"invitation", "hello"}, id : Admission]
    \cup [type : {"response"}, id : Admission, session : Admission \X Nat, group : Nat,
          members : SUBSET Peer, keys : SUBSET Peer, key : Nat]
    \cup [type : {"confirmation"}, session : Admission \X Nat]

Events ==
  [id : Nat, sender : Peer, seq : Nat, group : Nat, members : SUBSET Peer, keys : SUBSET Peer]

(* Admissions that p offered to q, and the sessions that come of them.      *)
Ids(p, q) ==
  {id \in Admission : id[1] \in 1..issued.admissions /\ id[2] = p /\ id[3] = q /\ p # q}
Sessions(p, q) == Ids(p, q) \X Nat

(* A list of members of g, with the keys that come with it.                 *)
Lists(g, members, keys) ==
  /\ g \in Groups /\ members \subseteq keys /\ keys \subseteq Peer
  /\ founders[g] \in members

Sound(g, members) == g \in past.moved \/ \A x \in members : <<x, g>> \in past.held

(* p may invite to g: it founded it, or came into it from another group.    *)
Hosts(p, g) == g \in Groups /\ (founders[g] = p \/ g \in past.moved)

(* What p keeps of its group, in memory and in its row.                     *)
Keeps(p, m) ==
  /\ p \in m.keys /\ m.pin <= issued.pins
  /\ \/ m.group = 0 /\ m.members = {} /\ m.pin = 0
     \/ /\ Lists(m.group, m.members, m.keys) /\ Sound(m.group, m.members)
        /\ <<p, m.group>> \in past.held
  /\ m.pin # 0 => Hosts(p, m.group)

(* p's part in handshakes, as a joiner and as an inviter.                   *)
Minds(p, m) ==
  /\ m.key \in Groups \cup {0}
  /\ m.handshake # None =>
       /\ m.handshake.id \in Ids(m.handshake.inviter, p)
       /\ m.group = 0 \/ founders[m.group] = p
  /\ \A q \in Peer :
       /\ m.invited[q] # None => m.invited[q] \in Ids(p, q) /\ Hosts(p, m.group)
       /\ m.admitting[q] # None => m.admitting[q] \in Sessions(p, q) /\ Hosts(p, m.group)

Members ==
  /\ mem \in [Peer -> Minded] /\ row \in [Peer -> Row]
  /\ \A p \in Peer :
       /\ Keeps(p, mem[p]) /\ Keeps(p, row[p]) /\ Minds(p, mem[p])
       /\ row[p].group = mem[p].group

(* The admissions that p still answers for, with q.                         *)
Current(p, q, id) ==
  id = mem[p].invited[q] \/ \E pin \in Nat : mem[p].admitting[q] = Session(id, pin)

Durable(x, g) == row[x].group = g \/ <<x, g>> \in past.left

(* Messages from p to q.                                                    *)
Invitations(p, q) == [type : {"invitation"}, id : Ids(p, q)]
Hellos(p, q) == [type : {"hello"}, id : Ids(q, p)]

Credentials(p, q) ==
  [type : {"response"}, id : Ids(p, q), session : Sessions(p, q), group : Groups,
   members : SUBSET Peer, keys : SUBSET Peer, key : Groups \cup {0}]
Trusty(p, q, r) ==
  /\ r.session[1] = r.id /\ q \in r.keys
  /\ Lists(r.group, r.members, r.keys) /\ Sound(r.group, r.members \ {q})
  /\ Hosts(p, r.group)
  /\ Current(p, q, r.id) => r.group = mem[p].group \/ mem[p].group \in past.moved
Responses(p, q) == {r \in Credentials(p, q) : Trusty(p, q, r)}

Joined(p, q, id) ==
  Current(q, p, id) /\ mem[q].group \notin past.moved =>
    <<p, mem[q].group>> \in past.held /\ Durable(p, mem[q].group)
Confirmations(p, q) ==
  {c \in [type : {"confirmation"}, session : Sessions(q, p)] : Joined(p, q, c.session[1])}

Messages(p, q) ==
  Invitations(p, q) \cup Hellos(p, q) \cup Responses(p, q) \cup Confirmations(p, q)

Channel ==
  /\ met \subseteq {pair \in alive \X alive : pair[1] # pair[2]}
  /\ control \in [Peer -> [Peer -> Seq(Letter)]]
  /\ \A p, q \in Peer :
       /\ control[p][q] \in Seq(Messages(p, q))
       /\ p \notin alive \/ q \notin alive => control[p][q] = <<>>

Publication(e) ==
  /\ e.id \in 1..issued.events /\ e.group \in Groups
  /\ e.members # {} => Lists(e.group, e.members, e.keys) /\ Sound(e.group, e.members)
  /\ e.sender \in past.cleared \/ e.seq < nextSeq[e.sender]

Logs ==
  /\ log \in [Peer -> SUBSET Events] /\ nextSeq \in [Peer -> Nat \ {0}]
  /\ \A p \in Peer : nextSeq[p] <= issued.events + 1
  /\ \A p \in Peer : \A e \in log[p] : Publication(e)
  /\ LogsKeepApart

(* Where a founder is in its group, everyone listed has it on disk.         *)
Leads(f) ==
  mem[f].group \in Groups /\ mem[f].group \notin past.moved /\ founders[mem[f].group] = f
Listed(f) ==
  mem[f].members \cup row[f].members
    \cup UNION {e.members : e \in {e \in UNION {log[p] : p \in Peer} : e.group = mem[f].group}}

Founding == \A f \in Peer : Leads(f) => \A x \in Listed(f) : Durable(x, mem[f].group)

Order == {"put", "get", "delete"} \X (Groups \cup {0})

Counts ==
  /\ founders \in Seq(Founder)
  /\ issued \in [admissions : Nat, pins : Nat, events : Nat, notes : Nat]
  /\ past \in [held : SUBSET (Peer \X Nat), left : SUBSET (Peer \X Nat), cleared : SUBSET Peer,
               moved : SUBSET Nat, lost : BOOLEAN]
  /\ chain \in [Peer -> Groups \cup {0}]
  /\ orders \in [Peer -> Seq(Order)]
  /\ alive \subseteq Peer /\ faults \in 0..MaxFaults
  /\ \A p \in Peer \ alive : orders[p] = <<>>

Inv == Counts /\ Members /\ Channel /\ Logs /\ Founding

-----------------------------------------------------------------------------
(* Records: what a process keeps and forgets.                               *)
LEMMA LoadedRow ==
  ASSUME NEW r \in Row
  PROVE  Loaded(r) \in Minded
BY DEF Loaded, Row, Minded

LEMMA SavedMind ==
  ASSUME NEW m \in Minded
  PROVE  /\ Saved(m) \in Row
         /\ Saved(m).group = m.group /\ Saved(m).members = m.members
         /\ Saved(m).pin = m.pin /\ Saved(m).keys = m.keys
BY DEF Saved, Row, Minded

LEMMA LeftMind ==
  ASSUME NEW m \in Minded
  PROVE  Left(m) \in Minded
<1>1. Outside(m.keys) \in Row
  BY DEF Outside, Row, Minded
<1>2. QED
  BY <1>1, LoadedRow DEF Left

-----------------------------------------------------------------------------
(* What no step takes back: groups, memberships held, moves, and numbers    *)
(* that were given out.                                                     *)
Grows ==
  /\ \A g \in Groups : g \in Groups' /\ founders'[g] = founders[g]
  /\ past.held \subseteq past'.held /\ past.moved \subseteq past'.moved
  /\ issued.admissions <= issued'.admissions /\ issued.pins <= issued'.pins
  /\ issued.events <= issued'.events

LEMMA IdsStay ==
  ASSUME Counts, Counts', Grows
  PROVE  \A p, q : Ids(p, q) \subseteq Ids(p, q)' /\ Sessions(p, q) \subseteq Sessions(p, q)'
<1>1. issued.admissions \in Nat /\ issued'.admissions \in Nat
  BY DEF Counts
<1>2. \A p, q : Ids(p, q) \subseteq Ids(p, q)'
  BY <1>1 DEF Grows, Ids
<1>3. QED
  BY <1>2 DEF Sessions

LEMMA HostsStay ==
  ASSUME Grows, NEW p, NEW g, Hosts(p, g)
  PROVE  Hosts(p, g)'
BY DEF Grows, Hosts

LEMMA ListsStay ==
  ASSUME Grows, NEW g, NEW members, NEW keys, Lists(g, members, keys)
  PROVE  Lists(g, members, keys)'
BY DEF Grows, Lists

LEMMA SoundStays ==
  ASSUME Grows, NEW g, NEW members, Sound(g, members)
  PROVE  Sound(g, members)'
BY DEF Grows, Sound

LEMMA KeepsStays ==
  ASSUME Counts, Counts', Grows, NEW p, NEW m, m.pin \in Nat, Keeps(p, m)
  PROVE  Keeps(p, m)'
<1>1. m.pin <= issued'.pins
  BY SMTT(30) DEF Counts, Grows, Keeps
<1>2. m.pin # 0 => Hosts(p, m.group)'
  BY HostsStay DEF Keeps
<1>3. CASE m.group = 0 /\ m.members = {} /\ m.pin = 0
  BY <1>1, <1>2, <1>3 DEF Keeps
<1>4. CASE /\ Lists(m.group, m.members, m.keys) /\ Sound(m.group, m.members)
           /\ <<p, m.group>> \in past.held
  BY <1>1, <1>2, <1>4, ListsStay, SoundStays DEF Keeps, Grows
<1>5. QED
  BY <1>3, <1>4 DEF Keeps

LEMMA MindsStays ==
  ASSUME Counts, Counts', Grows, NEW p, NEW m, Minds(p, m), m.group = 0 \/ m.group \in Groups
  PROVE  Minds(p, m)'
<1>1. m.key \in (Groups \cup {0})'
  BY DEF Minds, Grows
<1>2. m.handshake # None =>
        m.handshake.id \in Ids(m.handshake.inviter, p)' /\ (m.group = 0 \/ founders'[m.group] = p)
  BY IdsStay DEF Minds, Grows
<1>3. ASSUME NEW q \in Peer
      PROVE  /\ m.invited[q] # None => m.invited[q] \in Ids(p, q)' /\ Hosts(p, m.group)'
             /\ m.admitting[q] # None => m.admitting[q] \in Sessions(p, q)' /\ Hosts(p, m.group)'
  BY IdsStay, HostsStay DEF Minds
<1>4. QED
  BY <1>1, <1>2, <1>3 DEF Minds

(* What p keeps is in the shape of a row, so that the types of its parts    *)
(* are known.                                                               *)
LEMMA GroupKnown ==
  ASSUME Counts, NEW p, NEW m, Keeps(p, m)
  PROVE  m.group = 0 \/ m.group \in Groups
BY DEF Keeps, Lists

LEMMA MindNow ==
  ASSUME NEW p, NEW m, m = mem'[p]
  PROVE  (Keeps(p, m)' <=> Keeps(p, mem[p])') /\ (Minds(p, m)' <=> Minds(p, mem[p])')
BY DEF Keeps, Minds, Lists, Sound, Hosts, Ids, Sessions

LEMMA RowNow ==
  ASSUME NEW p, NEW m, m = row'[p]
  PROVE  Keeps(p, m)' <=> Keeps(p, row[p])'
BY DEF Keeps, Lists, Sound, Hosts

(* A step of p that leaves it with m, saved or not.                         *)
LEMMA MembersAfter ==
  ASSUME Counts, Members, Counts', Grows, NEW p \in Peer, NEW m \in Minded,
         mem' = [mem EXCEPT ![p] = m], Keeps(p, m)', Minds(p, m)',
         \/ row' = [row EXCEPT ![p] = Saved(m)]
         \/ row' = row /\ m.group = mem[p].group
  PROVE  Members'
<1>1. mem' \in [Peer -> Minded] /\ mem'[p] = m /\ \A q \in Peer \ {p} : mem'[q] = mem[q]
  BY DEF Members
<1>2. row' \in [Peer -> Row] /\ \A q \in Peer \ {p} : row'[q] = row[q]
  BY SavedMind DEF Members
<1>3. ASSUME NEW q \in Peer, mem'[q] = mem[q]
      PROVE  Keeps(q, mem[q])' /\ Minds(q, mem[q])'
  <2>1. PICK n : n = mem[q]
    OBVIOUS
  <2>2. Keeps(q, n) /\ Minds(q, n) /\ n.pin \in Nat
    BY <2>1 DEF Members, Minded
  <2>3. QED
    BY <1>3, <2>1, <2>2, KeepsStays, MindsStays, GroupKnown, MindNow
<1>4. ASSUME NEW q \in Peer, row'[q] = row[q]
      PROVE  Keeps(q, row[q])'
  <2>1. PICK n : n = row[q]
    OBVIOUS
  <2>2. Keeps(q, n) /\ n.pin \in Nat
    BY <2>1 DEF Members, Row
  <2>3. QED
    BY <1>4, <2>1, <2>2, KeepsStays, RowNow
<1>5. Keeps(p, mem[p])' /\ Minds(p, mem[p])'
  BY <1>1, MindNow
<1>6. Keeps(p, row[p])' /\ row'[p].group = m.group
  <2>1. CASE row' = row /\ m.group = mem[p].group
    BY <1>4, <2>1 DEF Members
  <2>2. CASE row' = [row EXCEPT ![p] = Saved(m)]
    <3>1. PICK n : n = Saved(m)
      OBVIOUS
    <3>2. n = row'[p] /\ n.group = m.group
      BY <2>2, <3>1, SavedMind DEF Members
    <3>3. Keeps(p, n)'
      BY <3>1 DEF Keeps, Lists, Sound, Hosts, Saved
    <3>4. QED
      BY <3>2, <3>3, RowNow
  <2>3. QED
    BY <2>1, <2>2
<1>7. ASSUME NEW q \in Peer \ {p}
      PROVE  /\ Keeps(q, mem[q])' /\ Keeps(q, row[q])' /\ Minds(q, mem[q])'
             /\ row'[q].group = mem'[q].group
  <2>1. row[q].group = mem[q].group
    BY DEF Members
  <2>2. QED
    BY <1>1, <1>2, <1>3, <1>4, <2>1
<1>8. QED
  BY <1>1, <1>2, <1>5, <1>6, <1>7 DEF Members

-----------------------------------------------------------------------------
(* Messages on their way.                                                   *)
LEMMA NotNone ==
  ASSUME NEW id \in Admission
  PROVE  id # None /\ \A pin : Session(id, pin) # None
<1>1. id = <<id[1], id[2], id[3]>>
  BY DEF Admission
<1>2. Len(id) = 3 /\ Len(<<>>) = 0
  BY <1>1
<1>3. \A pin : Len(Session(id, pin)) = 2
  BY DEF Session
<1>4. QED
  BY <1>2, <1>3 DEF None

(* Who answers for an admission is in the group that it is for.             *)
LEMMA CurrentHosts ==
  ASSUME Members, NEW p \in Peer, NEW q \in Peer, NEW id \in Ids(p, q), Current(p, q, id)
  PROVE  Hosts(p, mem[p].group)
<1>1. id # None /\ \A pin : Session(id, pin) # None
  BY NotNone DEF Ids
<1>2. Minds(p, mem[p])
  BY DEF Members
<1>3. QED
  BY <1>1, <1>2 DEF Current, Minds

(* A step after which p answers for admissions of before only if it did,    *)
(* and in the same group.                                                   *)
Steady(p) ==
  \A q \in Peer : \A id \in Ids(p, q) : Current(p, q, id)' =>
    Current(p, q, id) /\ (mem'[p].group = mem[p].group \/ mem'[p].group \in past'.moved)

(* Who has a group on disk keeps it or gives it up, founders aside.         *)
Lasting ==
  \A x \in Peer : \A g \in Groups : founders[g] # x /\ Durable(x, g) => Durable(x, g)'

LEMMA ResponsesStay ==
  ASSUME Counts, Counts', Grows, NEW p \in Peer, NEW q \in Peer, Steady(p)
  PROVE  Responses(p, q) \subseteq Responses(p, q)'
<1>1. SUFFICES ASSUME NEW r \in Responses(p, q)
               PROVE  r \in Credentials(p, q)' /\ Trusty(p, q, r)'
  BY DEF Responses
<1>2. r \in Credentials(p, q) /\ Trusty(p, q, r)
  BY DEF Responses
<1>3. Ids(p, q) \subseteq Ids(p, q)' /\ Sessions(p, q) \subseteq Sessions(p, q)' /\ Groups \subseteq Groups'
  BY IdsStay DEF Grows
<1>4. r \in Credentials(p, q)'
  BY <1>2, <1>3 DEF Credentials
<1>5. Lists(r.group, r.members, r.keys)' /\ Sound(r.group, r.members \ {q})' /\ Hosts(p, r.group)'
  BY <1>2, ListsStay, SoundStays, HostsStay DEF Trusty
<1>6. r.id \in Ids(p, q)
  BY <1>2 DEF Credentials
<1>7. Current(p, q, r.id)' => r.group = mem'[p].group \/ mem'[p].group \in past'.moved
  BY <1>2, <1>6 DEF Steady, Trusty, Grows
<1>8. QED
  BY <1>2, <1>4, <1>5, <1>7 DEF Trusty

LEMMA ConfirmationsStay ==
  ASSUME Counts, Counts', Grows, Members, Lasting, NEW p \in Peer, NEW q \in Peer, Steady(q)
  PROVE  Confirmations(p, q) \subseteq Confirmations(p, q)'
<1>1. SUFFICES ASSUME NEW c \in Confirmations(p, q)
               PROVE  /\ c \in [type : {"confirmation"}, session : Sessions(q, p)']
                      /\ Joined(p, q, c.session[1])'
  BY DEF Confirmations
<1>2. c \in [type : {"confirmation"}, session : Sessions(q, p)] /\ Joined(p, q, c.session[1])
  BY DEF Confirmations
<1>3. c \in [type : {"confirmation"}, session : Sessions(q, p)']
  BY <1>2, IdsStay
<1>4. PICK id : id = c.session[1]
  OBVIOUS
<1>5. id \in Ids(q, p)
  BY <1>2, <1>4 DEF Sessions
<1>6. SUFFICES ASSUME Current(q, p, id)', mem'[q].group \notin past'.moved
               PROVE  <<p, mem'[q].group>> \in past'.held /\ Durable(p, mem[q].group)'
  BY <1>3, <1>4 DEF Joined
<1>7. Current(q, p, id) /\ mem'[q].group = mem[q].group /\ mem[q].group \notin past.moved
  BY <1>5, <1>6 DEF Steady, Grows
<1>8. <<p, mem[q].group>> \in past.held /\ Durable(p, mem[q].group)
  BY <1>2, <1>4, <1>7 DEF Joined
<1>9. mem[q].group \in Groups /\ founders[mem[q].group] = q
  BY <1>5, <1>7, CurrentHosts DEF Hosts
<1>10. q # p
  BY <1>5 DEF Ids
<1>11. PICK g : g = mem[q].group
  OBVIOUS
<1>12. Durable(p, g)'
  BY <1>8, <1>9, <1>10, <1>11 DEF Lasting
<1>13. QED
  BY <1>7, <1>8, <1>11, <1>12 DEF Grows, Durable

LEMMA MessagesStay ==
  ASSUME Counts, Counts', Grows, Members, Lasting,
         NEW p \in Peer, NEW q \in Peer, Steady(p), Steady(q)
  PROVE  Messages(p, q) \subseteq Messages(p, q)'
<1>1. Ids(p, q) \subseteq Ids(p, q)' /\ Ids(q, p) \subseteq Ids(q, p)'
  BY IdsStay
<1>2. Invitations(p, q) \subseteq Invitations(p, q)' /\ Hellos(p, q) \subseteq Hellos(p, q)'
  BY <1>1 DEF Invitations, Hellos
<1>3. QED
  BY <1>2, ResponsesStay, ConfirmationsStay DEF Messages

LEMMA MessagesAreLetters ==
  ASSUME Counts, NEW p \in Peer, NEW q \in Peer
  PROVE  Messages(p, q) \subseteq Letter
<1>1. /\ Ids(p, q) \subseteq Admission /\ Ids(q, p) \subseteq Admission
      /\ Groups \subseteq Nat /\ Groups \cup {0} \subseteq Nat
  BY DEF Ids, Groups
<1>2. Sessions(p, q) \subseteq Admission \X Nat /\ Sessions(q, p) \subseteq Admission \X Nat
  BY <1>1 DEF Sessions
<1>3. Invitations(p, q) \cup Hellos(p, q) \subseteq Letter
  BY <1>1 DEF Invitations, Hellos, Letter
<1>4. Responses(p, q) \subseteq Letter
  <2>1. Credentials(p, q) \subseteq Letter
    <3>1. SUFFICES ASSUME NEW r \in Credentials(p, q)
                   PROVE  r \in [type : {"response"}, id : Admission, session : Admission \X Nat,
                                 group : Nat, members : SUBSET Peer, keys : SUBSET Peer, key : Nat]
      BY DEF Letter
    <3>2. QED
      BY <1>1, <1>2 DEF Credentials
  <2>2. QED
    BY <2>1 DEF Responses
<1>5. Confirmations(p, q) \subseteq Letter
  BY <1>2 DEF Confirmations, Letter
<1>6. QED
  BY <1>3, <1>4, <1>5 DEF Messages

LEMMA TakenMessage ==
  ASSUME Channel, NEW p \in Peer, NEW q \in Peer, control[q][p] # <<>>
  PROVE  /\ Taken(p, q) \in [Peer -> [Peer -> Seq(Letter)]]
         /\ Taken(p, q)[q][p] = Tail(control[q][p])
         /\ \A a, b \in Peer : a # q \/ b # p => Taken(p, q)[a][b] = control[a][b]
<1>1. control \in [Peer -> [Peer -> Seq(Letter)]]
  BY DEF Channel
<1>2. Tail(control[q][p]) \in Seq(Letter)
  BY <1>1, HeadTailProperties
<1>3. QED
  BY <1>1, <1>2 DEF Taken

LEMMA ReplyMessage ==
  ASSUME Channel, NEW p \in Peer, NEW q \in Peer, p # q, control[q][p] # <<>>, NEW k \in Letter
  PROVE  /\ Reply(p, q, k) \in [Peer -> [Peer -> Seq(Letter)]]
         /\ Reply(p, q, k)[q][p] = Tail(control[q][p])
         /\ Reply(p, q, k)[p][q] = Append(control[p][q], k)
         /\ \A a, b \in Peer : (a # q \/ b # p) /\ (a # p \/ b # q) =>
              Reply(p, q, k)[a][b] = control[a][b]
<1>1. Append(control[p][q], k) \in Seq(Letter)
  BY AppendProperties DEF Channel
<1>2. PICK t \in [Peer -> [Peer -> Seq(Letter)]] :
        /\ t = Taken(p, q) /\ t[q][p] = Tail(control[q][p])
        /\ \A a, b \in Peer : a # q \/ b # p => t[a][b] = control[a][b]
  BY TakenMessage
<1>3. Reply(p, q, k) = [t EXCEPT ![p][q] = Append(control[p][q], k)]
  BY <1>2 DEF Reply
<1>4. QED
  BY <1>1, <1>2, <1>3

LEMMA WithoutMessages ==
  ASSUME Channel, NEW pairs
  PROVE  /\ Without(pairs) \in [Peer -> [Peer -> Seq(Letter)]]
         /\ \A a, b \in Peer : Without(pairs)[a][b] = IF <<a, b>> \in pairs THEN <<>> ELSE control[a][b]
<1>1. control \in [Peer -> [Peer -> Seq(Letter)]] /\ <<>> \in Seq(Letter)
  BY EmptySeq DEF Channel
<1>2. QED
  BY <1>1 DEF Without

LEMMA InvitationLetter ==
  ASSUME Counts, NEW p \in Peer, NEW q \in Peer
  PROVE  Invitation(NewAdmission(p, q)) \in Letter
BY DEF Counts, Invitation, NewAdmission, Letter, Admission

LEMMA OfferedMessages ==
  ASSUME Counts, Channel, NEW p \in Peer, NEW m, NEW whom
  PROVE  /\ Offered(p, m, whom) \in [Peer -> [Peer -> Seq(Letter)]]
         /\ \A a, b \in Peer :
              Offered(p, m, whom)[a][b] = IF a = p /\ Invites(p, m) /\ b \in whom
                                          THEN Append(control[p][b], Invitation(NewAdmission(p, b)))
                                          ELSE control[a][b]
<1>1. control \in [Peer -> [Peer -> Seq(Letter)]]
  BY DEF Channel
<1>2. \A b \in Peer : Invitation(NewAdmission(p, b)) \in Letter
  BY InvitationLetter
<1>3. ASSUME NEW b \in Peer
      PROVE  Append(control[p][b], Invitation(NewAdmission(p, b))) \in Seq(Letter)
  <2>1. PICK k \in Letter : k = Invitation(NewAdmission(p, b))
    BY <1>2
  <2>2. Append(control[p][b], k) \in Seq(Letter)
    BY <1>1, AppendProperties
  <2>3. QED
    BY <2>1, <2>2
<1>4. QED
  BY <1>1, <1>3 DEF Offered

(* What is left of a channel after a step that took a message or broke it.  *)
Rest(s) == {s, <<>>} \cup (IF s = <<>> THEN {} ELSE {Tail(s)})

LEMMA RestOf ==
  ASSUME NEW S, NEW s \in Seq(S), NEW t \in Rest(s)
  PROVE  t \in Seq(S)
<1>1. CASE t = Tail(s) /\ s # <<>>
  BY <1>1, HeadTailProperties
<1>2. QED
  BY <1>1, EmptySeq DEF Rest

(* A step that adds only proper messages to its channels.                   *)
Proper(a, b) ==
  \/ control'[a][b] \in Rest(control[a][b])
  \/ \E s \in Rest(control[a][b]) : \E k \in Letter :
       k \in Messages(a, b)' /\ control'[a][b] = Append(s, k)

LEMMA ChannelAfter ==
  ASSUME Counts, Counts', Grows, Members, Channel, Lasting, \A p \in Peer : Steady(p),
         met' \subseteq {pair \in alive' \X alive' : pair[1] # pair[2]},
         control' \in [Peer -> [Peer -> Seq(Letter)]],
         \A p, q \in Peer : Proper(p, q),
         \A p, q \in Peer : p \notin alive' \/ q \notin alive' => control'[p][q] = <<>>
  PROVE  Channel'
<1>1. SUFFICES ASSUME NEW p \in Peer, NEW q \in Peer
               PROVE  control'[p][q] \in Seq(Messages(p, q)')
  BY DEF Channel
<1>2. Messages(p, q) \subseteq Messages(p, q)'
  BY MessagesStay
<1>3. control[p][q] \in Seq(Messages(p, q)')
  BY <1>2, SeqDef DEF Channel
<1>4. \A s \in Rest(control[p][q]) : s \in Seq(Messages(p, q)')
  BY <1>3, RestOf
<1>5. CASE \E s \in Rest(control[p][q]) : \E k \in Letter :
             k \in Messages(p, q)' /\ control'[p][q] = Append(s, k)
  <2>1. PICK s \in Rest(control[p][q]), k \in Letter :
          k \in Messages(p, q)' /\ control'[p][q] = Append(s, k)
    BY <1>5
  <2>2. PICK set : set = Messages(p, q)'
    OBVIOUS
  <2>3. Append(s, k) \in Seq(set)
    BY <1>4, <2>1, <2>2, AppendProperties
  <2>4. QED
    BY <2>1, <2>2, <2>3
<1>6. QED
  BY <1>4, <1>5 DEF Proper

LEMMA SteadyAfter ==
  ASSUME Members, NEW p \in Peer, NEW m \in Minded, mem' = [mem EXCEPT ![p] = m],
         \A q \in Peer : \A id \in Ids(p, q) :
           id = m.invited[q] \/ (\E pin \in Nat : m.admitting[q] = Session(id, pin)) =>
             Current(p, q, id) /\ (m.group = mem[p].group \/ m.group \in past'.moved)
  PROVE  \A q \in Peer : Steady(q)
<1>1. mem'[p] = m /\ \A q \in Peer \ {p} : mem'[q] = mem[q]
  BY DEF Members
<1>2. Steady(p)
  BY <1>1 DEF Steady, Current
<1>3. \A q \in Peer \ {p} : Steady(q)
  BY <1>1 DEF Steady, Current
<1>4. QED
  BY <1>2, <1>3

(* Where the rows keep their groups, groups last.                           *)
LEMMA LastingAfter ==
  ASSUME \A x \in Peer : row'[x].group = row[x].group \/ <<x, row[x].group>> \in past'.left,
         past.left \subseteq past'.left
  PROVE  Lasting
BY DEF Lasting, Durable

LEMMA FoundingAfter ==
  ASSUME Counts, Members', Founding, Grows, Lasting,
         \A f \in Peer : Leads(f)' =>
           \A x \in Listed(f)' :
             \/ Durable(x, mem[f].group)'
             \/ Leads(f) /\ mem'[f].group = mem[f].group /\ x \in Listed(f) /\ x \in Peer
  PROVE  Founding'
<1>1. SUFFICES ASSUME NEW f \in Peer, Leads(f)', NEW x \in Listed(f)'
               PROVE  Durable(x, mem[f].group)'
  BY DEF Founding
<1>2. SUFFICES ASSUME Leads(f), mem'[f].group = mem[f].group, x \in Listed(f), x \in Peer
               PROVE  Durable(x, mem[f].group)'
  BY <1>1
<1>3. Durable(x, mem[f].group)
  BY <1>2 DEF Founding
<1>4. CASE x = f
  BY <1>4 DEF Members, Durable
<1>5. CASE x # f
  <2>1. PICK g : g = mem[f].group
    OBVIOUS
  <2>2. Durable(x, g)'
    BY <1>2, <1>3, <1>5, <2>1 DEF Lasting, Leads
  <2>3. QED
    BY <1>2, <2>1, <2>2 DEF Durable
<1>6. QED
  BY <1>4, <1>5

LEMMA FoundingStays ==
  ASSUME Counts, Members, Members', Logs, Founding, Grows, Lasting,
         \A f \in Peer :
           \/ mem'[f].group = 0
           \/ /\ mem'[f].group = mem[f].group
              /\ mem'[f].members \cup row'[f].members \subseteq mem[f].members \cup row[f].members,
         \A p \in Peer : log'[p] \subseteq log[p]
  PROVE  Founding'
<1>1. ASSUME NEW f \in Peer, Leads(f)', NEW x \in Listed(f)'
      PROVE  Leads(f) /\ mem'[f].group = mem[f].group /\ x \in Listed(f) /\ x \in Peer
  <2>1. mem'[f].group = mem[f].group /\ mem[f].group # 0
    BY <1>1 DEF Leads, Groups
  <2>2. mem[f].group \in Groups
    BY <2>1, GroupKnown DEF Members
  <2>3. Leads(f)
    BY <1>1, <2>1, <2>2 DEF Leads, Grows
  <2>4. x \in Listed(f)
    BY <1>1, <2>1 DEF Listed
  <2>5. Listed(f) \subseteq Peer
    <3>1. mem[f].members \cup row[f].members \subseteq Peer
      BY DEF Members, Minded, Row
    <3>2. \A p \in Peer : \A e \in log[p] : e.members \subseteq Peer
      BY DEF Logs, Events
    <3>3. QED
      BY <3>1, <3>2 DEF Listed
  <2>6. QED
    BY <2>1, <2>3, <2>4, <2>5
<1>2. QED
  BY <1>1, FoundingAfter

LEMMA LogsStay ==
  ASSUME Counts, Counts', Grows, Logs, log' \in [Peer -> SUBSET Events],
         \A p \in Peer : log'[p] \subseteq log[p], past.cleared \subseteq past'.cleared,
         nextSeq' \in [Peer -> Nat \ {0}],
         \A p \in Peer : nextSeq'[p] <= issued'.events + 1,
         \A p \in Peer : p \in past'.cleared \/ nextSeq[p] <= nextSeq'[p]
  PROVE  Logs'
<1>1. ASSUME NEW p \in Peer, NEW e \in log'[p]
      PROVE  Publication(e)'
  <2>1. Publication(e) /\ e \in Events
    BY <1>1 DEF Logs
  <2>2. e.members # {} => Lists(e.group, e.members, e.keys)' /\ Sound(e.group, e.members)'
    BY <2>1, ListsStay, SoundStays DEF Publication
  <2>3. e.sender \in past'.cleared \/ e.seq < nextSeq'[e.sender]
    BY <2>1 DEF Publication, Events, Logs
  <2>4. e.id \in 1..issued'.events /\ e.group \in Groups'
    <3>1. issued.events \in Nat /\ issued'.events \in Nat
      BY DEF Counts
    <3>2. e.id \in 1..issued.events /\ e.group \in Groups
      BY <2>1 DEF Publication
    <3>3. QED
      BY <3>1, <3>2 DEF Grows
  <2>5. QED
    BY <2>2, <2>3, <2>4 DEF Publication
<1>2. LogsKeepApart'
  BY DEF Logs, LogsKeepApart, SlotsAgree, OnlyMembersHold, Grows, Slot
<1>3. QED
  BY <1>1, <1>2 DEF Logs

LEMMA LogsUntouched ==
  ASSUME Counts, Counts', Grows, Logs, UNCHANGED <<log, nextSeq>>, past.cleared \subseteq past'.cleared
  PROVE  Logs'
<1>1. log' \in [Peer -> SUBSET Events] /\ \A p \in Peer : log'[p] \subseteq log[p]
  BY DEF Logs
<1>2. /\ nextSeq' \in [Peer -> Nat \ {0}]
      /\ \A p \in Peer : p \in past'.cleared \/ nextSeq[p] <= nextSeq'[p]
  BY DEF Logs
<1>3. \A p \in Peer : nextSeq'[p] <= issued'.events + 1
  <2>1. issued.events \in Nat /\ issued'.events \in Nat
    BY DEF Counts
  <2>2. QED
    BY <1>2, <2>1 DEF Logs, Grows
<1>4. QED
  BY <1>1, <1>2, <1>3, LogsStay

-----------------------------------------------------------------------------
(* The steps: what they send, and what they leave behind.                   *)
LEMMA OrdersLonger ==
  ASSUME Counts, Grows, NEW p \in alive, NEW ask \in Seq(Order'),
         orders' = [orders EXCEPT ![p] = @ \o ask], alive' = alive
  PROVE  orders' \in [Peer -> Seq(Order')] /\ \A q \in Peer \ alive' : orders'[q] = <<>>
<1>1. Order \subseteq Order'
  BY DEF Grows, Order
<1>2. orders \in [Peer -> Seq(Order')] /\ p \in Peer /\ \A q \in Peer \ alive : orders[q] = <<>>
  BY <1>1, SeqDef DEF Counts
<1>3. PICK set : set = Order'
  OBVIOUS
<1>4. orders[p] \o ask \in Seq(set)
  BY <1>2, <1>3, ConcatProperties
<1>5. QED
  BY <1>2, <1>3, <1>4

LEMMA OfferingMind ==
  ASSUME Counts, NEW p \in Peer, NEW m \in Minded, NEW whom
  PROVE  \E n \in Minded :
           /\ n = Offering(p, m, whom)
           /\ n.group = m.group /\ n.members = m.members /\ n.pin = m.pin /\ n.keys = m.keys
           /\ n.key = m.key /\ n.handshake = m.handshake /\ n.admitting = m.admitting
           /\ \A q \in Peer :
                n.invited[q] = IF Invites(p, m) /\ q \in whom THEN NewAdmission(p, q) ELSE m.invited[q]
<1>1. \A q \in Peer : NewAdmission(p, q) \in Admission
  BY DEF Counts, NewAdmission, Admission
<1>2. PICK f \in [Peer -> {None} \cup Admission] :
        f = [q \in Peer |-> IF Invites(p, m) /\ q \in whom THEN NewAdmission(p, q) ELSE m.invited[q]]
  BY <1>1 DEF Minded
<1>3. Offering(p, m, whom) = [m EXCEPT !.invited = f]
  BY <1>2 DEF Offering
<1>4. [m EXCEPT !.invited = f] \in Minded
  BY DEF Minded
<1>5. QED
  BY <1>2, <1>3, <1>4 DEF Minded

LEMMA CountedGrows ==
  ASSUME Counts, NEW p, NEW m, issued' = Counted(p, m), UNCHANGED <<founders, past>>
  PROVE  /\ Grows /\ issued' \in [admissions : Nat, pins : Nat, events : Nat, notes : Nat]
         /\ issued'.pins = issued.pins /\ issued'.events = issued.events
         /\ Invites(p, m) => issued'.admissions = issued.admissions + 1
<1>1. issued \in [admissions : Nat, pins : Nat, events : Nat, notes : Nat]
  BY DEF Counts
<1>2. issued' = IF Invites(p, m) THEN [issued EXCEPT !.admissions = @ + 1] ELSE issued
  BY <1>1 DEF Counted
<1>3. QED
  BY <1>1, <1>2 DEF Grows, Groups

(* p offers admissions of their own to some of those that it has met, its   *)
(* key loaded or not (send_invitation_info).                                *)
LEMMA Offers ==
  ASSUME Counts, Members, Channel, Founding, Logs, Counts', NEW p \in alive, NEW m \in Minded, NEW whom,
         m.group = mem[p].group, m.members = mem[p].members, m.pin = mem[p].pin,
         m.keys = mem[p].keys, m.handshake = mem[p].handshake,
         m.invited = mem[p].invited, m.admitting = mem[p].admitting, m.key \in Groups \cup {0},
         whom \subseteq {q \in alive : q # p},
         mem' = [mem EXCEPT ![p] = Offering(p, m, whom)],
         row' = [row EXCEPT ![p] = Saved(m)],
         control' = Offered(p, m, whom), issued' = Counted(p, m),
         met' \subseteq {pair \in alive \X alive : pair[1] # pair[2]},
         UNCHANGED <<founders, past, alive, log, nextSeq>>
  PROVE  Members' /\ Channel' /\ Founding' /\ Logs'
<1>1. /\ Grows /\ issued'.pins = issued.pins /\ issued'.events = issued.events
      /\ Invites(p, m) => issued'.admissions = issued.admissions + 1
  BY CountedGrows
<1>2. p \in Peer /\ alive \subseteq Peer
  BY DEF Counts
<1>3. PICK n \in Minded :
        /\ n = Offering(p, m, whom)
        /\ n.group = m.group /\ n.members = m.members /\ n.pin = m.pin /\ n.keys = m.keys
        /\ n.key = m.key /\ n.handshake = m.handshake /\ n.admitting = m.admitting
        /\ \A q \in Peer :
             n.invited[q] = IF Invites(p, m) /\ q \in whom THEN NewAdmission(p, q) ELSE m.invited[q]
  BY <1>2, OfferingMind
<1>4. Keeps(p, m) /\ Minds(p, m) /\ m.pin \in Nat
  <2>1. PICK o : o = mem[p]
    OBVIOUS
  <2>2. Keeps(p, o) /\ Minds(p, o)
    BY <1>2, <2>1 DEF Members
  <2>3. QED
    BY <2>1, <2>2 DEF Keeps, Minds, Minded
<1>5. Saved(n) = Saved(m)
  BY <1>3 DEF Saved
<1>6. ASSUME NEW q \in Peer, Invites(p, m), q \in whom
      PROVE  NewAdmission(p, q) \in Ids(p, q)' /\ NewAdmission(p, q) \notin Ids(p, q)
  BY <1>1, <1>2, <1>6 DEF Counts, Ids, NewAdmission, Admission
<1>7. Invites(p, m) => Hosts(p, m.group)
  BY <1>4, GroupKnown DEF Invites, Owns, Hosts
<1>8. Keeps(p, n)'
  <2>1. Keeps(p, n)
    BY <1>3, <1>4 DEF Keeps
  <2>2. QED
    BY <1>1, <1>3, <1>4, <2>1, KeepsStays
<1>9. Minds(p, n)'
  <2>1. Minds(p, m)'
    BY <1>1, <1>4, GroupKnown, MindsStays
  <2>2. Hosts(p, m.group) => Hosts(p, m.group)'
    BY <1>1, HostsStay
  <2>3. ASSUME NEW q \in Peer
        PROVE  n.invited[q] # None => n.invited[q] \in Ids(p, q)' /\ Hosts(p, m.group)'
    <3>1. m.invited[q] # None => m.invited[q] \in Ids(p, q)' /\ Hosts(p, m.group)'
      BY <2>1 DEF Minds
    <3>2. QED
      BY <1>3, <1>6, <1>7, <2>2, <3>1
  <2>4. QED
    BY <1>3, <2>1, <2>3 DEF Minds
<1>10. Members'
  BY <1>1, <1>2, <1>3, <1>5, <1>8, <1>9, MembersAfter
<1>11. \A q \in Peer : Steady(q)
  <2>1. ASSUME NEW q \in Peer, NEW id \in Ids(p, q),
               id = n.invited[q] \/ \E pin \in Nat : n.admitting[q] = Session(id, pin)
        PROVE  Current(p, q, id)
    <3>1. n.invited[q] # id \/ id = mem[p].invited[q]
      BY <1>3, <1>6
    <3>2. QED
      BY <1>3, <2>1, <3>1 DEF Current
  <2>2. mem' = [mem EXCEPT ![p] = n] /\ n.group = mem[p].group
    BY <1>3
  <2>3. QED
    BY <1>2, <2>1, <2>2, SteadyAfter
<1>12. \A x \in Peer : row'[x].group = row[x].group
  <2>1. row[p].group = mem[p].group /\ row \in [Peer -> Row] /\ Saved(m).group = m.group
    BY <1>2, SavedMind DEF Members
  <2>2. QED
    BY <1>2, <2>1
<1>13. Lasting
  BY <1>12, LastingAfter
<1>14. Founding'
  <2>1. \A f \in Peer : /\ mem'[f].group = mem[f].group
                        /\ mem'[f].members \cup row'[f].members \subseteq mem[f].members \cup row[f].members
    <3>1. /\ row \in [Peer -> Row] /\ mem \in [Peer -> Minded]
          /\ Saved(m).members = mem[p].members
      BY SavedMind DEF Members
    <3>2. QED
      BY <1>2, <1>3, <3>1
  <2>2. QED
    BY <1>1, <1>10, <1>13, <2>1, FoundingStays
<1>15. Logs'
  BY <1>1, LogsUntouched
<1>16. ASSUME NEW a \in Peer, NEW b \in Peer
       PROVE  Proper(a, b) /\ (a \notin alive' \/ b \notin alive' => control'[a][b] = <<>>)
  <2>1. CASE a = p /\ Invites(p, m) /\ b \in whom
    <3>1. PICK k \in Letter : k = Invitation(NewAdmission(p, b))
      BY <1>2, InvitationLetter
    <3>2. k \in Messages(p, b)'
      BY <1>6, <2>1, <3>1 DEF Messages, Invitations, Invitation
    <3>3. control'[a][b] = Append(control[a][b], k)
      BY <1>2, <2>1, <3>1, OfferedMessages
    <3>4. QED
      BY <2>1, <3>2, <3>3 DEF Proper, Rest
  <2>2. CASE ~(a = p /\ Invites(p, m) /\ b \in whom)
    <3>1. control'[a][b] = control[a][b]
      BY <1>2, <2>2, OfferedMessages
    <3>2. QED
      BY <3>1 DEF Proper, Rest, Channel
  <2>3. QED
    BY <2>1, <2>2
<1>17. control' \in [Peer -> [Peer -> Seq(Letter)]]
  BY <1>2, OfferedMessages
<1>18. Channel'
  BY <1>1, <1>11, <1>13, <1>16, <1>17, ChannelAfter
<1>19. QED
  BY <1>10, <1>14, <1>15, <1>18

LEMMA MembersStay ==
  ASSUME Counts, Counts', Grows, Members, UNCHANGED <<mem, row>>
  PROVE  Members'
<1>1. ASSUME NEW p \in Peer
      PROVE  Keeps(p, mem[p])' /\ Minds(p, mem[p])' /\ Keeps(p, row[p])'
  <2>1. PICK m, r : m = mem[p] /\ r = row[p]
    OBVIOUS
  <2>2. Keeps(p, m) /\ Minds(p, m) /\ m.pin \in Nat /\ Keeps(p, r) /\ r.pin \in Nat
    BY <2>1 DEF Members, Minded, Row
  <2>3. QED
    BY <2>1, <2>2, KeepsStays, MindsStays, GroupKnown, MindNow, RowNow
<1>2. QED
  BY <1>1 DEF Members

LEMMA SteadyStays ==
  ASSUME mem' = mem
  PROVE  \A p : Steady(p)
BY DEF Steady, Current

(* A memory without a handshake or admissions.                              *)
Idle(m) ==
  /\ m.key \in Groups \cup {0} /\ m.handshake = None
  /\ \A q \in Peer : m.invited[q] = None /\ m.admitting[q] = None

LEMMA IdleMinds ==
  ASSUME Members, NEW p \in Peer, NEW m \in Minded, Idle(m), mem' = [mem EXCEPT ![p] = m]
  PROVE  /\ Groups' = Groups => Minds(p, m)'
         /\ \A q \in Peer : Steady(q)
<1>1. Groups' = Groups => Minds(p, m)'
  BY DEF Idle, Minds
<1>2. \A q \in Peer : \A id \in Ids(p, q) :
        id # m.invited[q] /\ \A pin : m.admitting[q] # Session(id, pin)
  BY NotNone DEF Idle, Ids
<1>3. \A q \in Peer : \A id \in Ids(p, q) :
        id = m.invited[q] \/ (\E pin \in Nat : m.admitting[q] = Session(id, pin)) =>
          Current(p, q, id) /\ (m.group = mem[p].group \/ m.group \in past'.moved)
  BY <1>2
<1>4. \A q \in Peer : Steady(q)
  BY <1>3, SteadyAfter
<1>5. QED
  BY <1>1, <1>4

LEMMA WithoutProper ==
  ASSUME Channel, NEW pairs, control' = Without(pairs)
  PROVE  /\ control' \in [Peer -> [Peer -> Seq(Letter)]]
         /\ \A a, b \in Peer : Proper(a, b) /\ (control[a][b] = <<>> => control'[a][b] = <<>>)
<1>1. /\ Without(pairs) \in [Peer -> [Peer -> Seq(Letter)]]
      /\ \A a, b \in Peer : Without(pairs)[a][b] = IF <<a, b>> \in pairs THEN <<>> ELSE control[a][b]
  BY WithoutMessages
<1>2. ASSUME NEW x \in Peer, NEW y \in Peer
      PROVE  control'[x][y] = <<>> \/ control'[x][y] = control[x][y]
  BY <1>1
<1>3. ASSUME NEW x \in Peer, NEW y \in Peer
      PROVE  Proper(x, y) /\ (control[x][y] = <<>> => control'[x][y] = <<>>)
  <2>1. control'[x][y] \in Rest(control[x][y])
    BY <1>2 DEF Rest
  <2>2. QED
    BY <1>2, <2>1 DEF Proper
<1>4. QED
  BY <1>1, <1>3

(* The process of p dies.                                                   *)
LEMMA Death ==
  ASSUME Counts, Members, Channel, Counts', NEW p \in Peer, Dies(p), founders' = founders,
         Grows, past.left \subseteq past'.left
  PROVE  /\ Members' /\ Channel' /\ Lasting
         /\ \A f \in Peer : /\ mem'[f].group = mem[f].group
                            /\ mem'[f].members \cup row'[f].members \subseteq mem[f].members \cup row[f].members
<1>1. PICK m \in Minded : m = Loaded(row[p])
  BY LoadedRow DEF Members
<1>2. /\ mem' = [mem EXCEPT ![p] = m] /\ row' = row /\ chain' = chain
      /\ alive' = alive \ {p} /\ met' = met \ Channels(p) /\ control' = Without(Channels(p))
  BY <1>1 DEF Dies
<1>3. m.group = row[p].group /\ m.members = row[p].members /\ m.pin = row[p].pin /\ m.keys = row[p].keys
  BY <1>1 DEF Loaded
<1>4. Idle(m)
  BY <1>1 DEF Loaded, Idle
<1>5. Keeps(p, m)'
  <2>1. PICK r : r = row[p]
    OBVIOUS
  <2>2. Keeps(p, r)
    BY <2>1 DEF Members
  <2>3. Keeps(p, m)
    BY <1>3, <2>1, <2>2 DEF Keeps
  <2>4. QED
    BY <2>3, KeepsStays DEF Minded
<1>6. Minds(p, m)' /\ \A q \in Peer : Steady(q)
  BY <1>2, <1>4, IdleMinds DEF Groups
<1>7. m.group = mem[p].group
  BY <1>3 DEF Members
<1>8. Members'
  BY <1>2, <1>5, <1>6, <1>7, MembersAfter
<1>9. Lasting
  BY <1>2, LastingAfter
<1>10. /\ control' \in [Peer -> [Peer -> Seq(Letter)]] /\ \A a, b \in Peer : Proper(a, b)
  BY <1>2, WithoutProper
<1>11. ASSUME NEW a \in Peer, NEW b \in Peer, a \notin alive' \/ b \notin alive'
       PROVE  control'[a][b] = <<>>
  <2>1. CASE a = p \/ b = p
    <3>1. PICK pairs : pairs = Channels(p)
      OBVIOUS
    <3>2. <<a, b>> \in pairs
      BY <2>1, <3>1 DEF Channels
    <3>3. Without(pairs)[a][b] = <<>>
      BY <3>2, WithoutMessages
    <3>4. QED
      BY <1>2, <3>1, <3>3
  <2>2. CASE a # p /\ b # p
    <3>1. control[a][b] = <<>>
      BY <1>2, <1>11, <2>2 DEF Channel
    <3>2. QED
      BY <1>2, <3>1, WithoutProper
  <2>3. QED
    BY <2>1, <2>2
<1>12. met' \subseteq {pair \in alive' \X alive' : pair[1] # pair[2]}
  <2>1. ASSUME NEW pair \in met'
        PROVE  pair[1] \in alive' /\ pair[2] \in alive'
    <3>1. pair \in alive \X alive /\ pair \notin Channels(p) /\ alive \subseteq Peer
      BY <1>2, <2>1 DEF Channel, Counts
    <3>2. pair[1] # p /\ pair[2] # p
      BY <3>1 DEF Channels
    <3>3. QED
      BY <1>2, <3>1, <3>2
  <2>2. QED
    BY <1>2, <2>1 DEF Channel
<1>13. Channel'
  BY <1>6, <1>9, <1>10, <1>11, <1>12, ChannelAfter
<1>14. ASSUME NEW f \in Peer
       PROVE  /\ mem'[f].group = mem[f].group
              /\ mem'[f].members \cup row'[f].members \subseteq mem[f].members \cup row[f].members
  BY <1>2, <1>3, <1>7 DEF Members
<1>15. QED
  BY <1>8, <1>9, <1>13, <1>14

LEMMA DeathCounts ==
  ASSUME Counts, NEW p \in Peer, Dies(p), founders' = founders,
         issued' \in [admissions : Nat, pins : Nat, events : Nat, notes : Nat],
         past' \in [held : SUBSET (Peer \X Nat), left : SUBSET (Peer \X Nat), cleared : SUBSET Peer,
                    moved : SUBSET Nat, lost : BOOLEAN]
  PROVE  Counts'
<1>1. chain' = chain /\ alive' = alive \ {p} /\ orders' = [orders EXCEPT ![p] = <<>>]
  BY DEF Dies
<1>2. faults' \in 0..MaxFaults
  BY ConstantsAssumption DEF Dies, Fault, Counts
<1>3. Order' = Order /\ Groups' = Groups
  BY DEF Order, Groups
<1>4. orders' \in [Peer -> Seq(Order)] /\ \A q \in Peer \ alive' : orders'[q] = <<>>
  BY <1>1, EmptySeq DEF Counts
<1>5. QED
  BY <1>1, <1>2, <1>3, <1>4 DEF Counts

LEMMA CrashInv ==
  ASSUME Inv, NEW p \in Peer, Crash(p)
  PROVE  Inv'
<1>1. Dies(p) /\ past' = [past EXCEPT !.lost = TRUE] /\ UNCHANGED <<founders, issued, log, nextSeq>>
  BY DEF Crash, disks
<1>2. past' \in [held : SUBSET (Peer \X Nat), left : SUBSET (Peer \X Nat), cleared : SUBSET Peer,
                 moved : SUBSET Nat, lost : BOOLEAN]
      /\ past'.held = past.held /\ past'.left = past.left /\ past'.cleared = past.cleared
      /\ past'.moved = past.moved
  BY <1>1 DEF Inv, Counts
<1>3. Counts'
  BY <1>1, <1>2, DeathCounts DEF Inv, Counts
<1>4. Grows
  BY <1>1, <1>2 DEF Grows, Groups, Inv, Counts
<1>5. /\ Members' /\ Channel' /\ Lasting
      /\ \A f \in Peer : /\ mem'[f].group = mem[f].group
                         /\ mem'[f].members \cup row'[f].members \subseteq mem[f].members \cup row[f].members
  BY <1>1, <1>2, <1>3, <1>4, Death DEF Inv
<1>6. Founding'
  BY <1>1, <1>4, <1>5, FoundingStays DEF Inv
<1>7. Logs'
  BY <1>1, <1>2, <1>3, <1>4, LogsUntouched DEF Inv
<1>8. QED
  BY <1>3, <1>5, <1>6, <1>7 DEF Inv

(* Nothing that matters to memory changes, but for the loss of something.   *)
LEMMA SameOrLost ==
  ASSUME Counts, past' = past \/ past' = [past EXCEPT !.lost = TRUE]
  PROVE  /\ past' \in [held : SUBSET (Peer \X Nat), left : SUBSET (Peer \X Nat), cleared : SUBSET Peer,
                       moved : SUBSET Nat, lost : BOOLEAN]
         /\ past'.held = past.held /\ past'.left = past.left /\ past'.cleared = past.cleared
         /\ past'.moved = past.moved
BY DEF Counts

LEMMA QuietStep ==
  ASSUME Inv, UNCHANGED <<founders, mem, row, log, nextSeq, issued>>,
         past' = past \/ past' = [past EXCEPT !.lost = TRUE],
         chain' \in [Peer -> Groups \cup {0}], orders' \in [Peer -> Seq(Order)],
         alive' \subseteq Peer, faults' \in 0..MaxFaults, \A p \in Peer \ alive' : orders'[p] = <<>>,
         met' \subseteq {pair \in alive' \X alive' : pair[1] # pair[2]},
         control' \in [Peer -> [Peer -> Seq(Letter)]], \A p, q \in Peer : Proper(p, q),
         \A p, q \in Peer : p \notin alive' \/ q \notin alive' => control'[p][q] = <<>>
  PROVE  Inv'
<1>1. /\ past' \in [held : SUBSET (Peer \X Nat), left : SUBSET (Peer \X Nat), cleared : SUBSET Peer,
                    moved : SUBSET Nat, lost : BOOLEAN]
      /\ past'.held = past.held /\ past'.left = past.left /\ past'.cleared = past.cleared
      /\ past'.moved = past.moved
  BY SameOrLost DEF Inv
<1>2. Groups' = Groups /\ Order' = Order
  BY DEF Groups, Order
<1>3. Counts'
  BY <1>1, <1>2 DEF Inv, Counts
<1>4. Grows
  BY <1>1, <1>2 DEF Grows, Inv, Counts
<1>5. Members'
  BY <1>3, <1>4, MembersStay DEF Inv
<1>6. \A p : Steady(p)
  BY SteadyStays
<1>7. Lasting
  BY <1>1, LastingAfter
<1>8. Founding'
  BY <1>4, <1>5, <1>7, FoundingStays DEF Inv
<1>9. Logs'
  BY <1>1, <1>3, <1>4, LogsUntouched DEF Inv
<1>10. Channel'
  BY <1>3, <1>4, <1>6, <1>7, ChannelAfter DEF Inv
<1>11. QED
  BY <1>3, <1>5, <1>8, <1>9, <1>10 DEF Inv

LEMMA SameProper ==
  ASSUME Channel, control' = control
  PROVE  /\ control' \in [Peer -> [Peer -> Seq(Letter)]] /\ \A a, b \in Peer : Proper(a, b)
         /\ \A a, b \in Peer : a \notin alive \/ b \notin alive => control'[a][b] = <<>>
BY DEF Channel, Proper, Rest

LEMMA OneElement ==
  ASSUME NEW S, NEW x \in S
  PROVE  <<x>> \in Seq(S)
OBVIOUS

LEMMA RestartInv ==
  ASSUME Inv, NEW p \in Peer, Restart(p)
  PROVE  Inv'
<1>1. /\ alive' = alive \cup {p} /\ UNCHANGED <<founders, mem, row, chain, met, control, issued, faults, past, log, nextSeq>>
      /\ orders' = [orders EXCEPT ![p] = IF mem[p].group # 0 THEN <<<<"get", 0>>>> ELSE <<>>]
  BY DEF Restart, disks
<1>2. <<"get", 0>> \in Order
  BY DEF Order
<1>3. <<<<"get", 0>>>> \in Seq(Order) /\ <<>> \in Seq(Order)
  BY <1>2, OneElement, EmptySeq
<1>4. orders' \in [Peer -> Seq(Order)] /\ \A q \in Peer \ alive' : orders'[q] = <<>>
  BY <1>1, <1>3 DEF Inv, Counts
<1>5. met' \subseteq {pair \in alive' \X alive' : pair[1] # pair[2]}
  BY <1>1 DEF Inv, Channel
<1>6. /\ control' \in [Peer -> [Peer -> Seq(Letter)]] /\ \A a, b \in Peer : Proper(a, b)
      /\ \A a, b \in Peer : a \notin alive' \/ b \notin alive' => control'[a][b] = <<>>
  BY <1>1, SameProper DEF Inv
<1>7. /\ chain' \in [Peer -> Groups \cup {0}] /\ alive' \subseteq Peer /\ faults' \in 0..MaxFaults
      /\ UNCHANGED <<founders, mem, row, log, nextSeq, issued>> /\ past' = past
  BY <1>1 DEF Inv, Counts
<1>8. QED
  BY <1>4, <1>5, <1>6, <1>7, QuietStep

LEMMA FaultsBound ==
  ASSUME Counts, Fault
  PROVE  faults' \in 0..MaxFaults
BY ConstantsAssumption DEF Counts, Fault

LEMMA PartInv ==
  ASSUME Inv, NEW p \in Peer, NEW q \in Peer, Part(p, q)
  PROVE  Inv'
<1>1. PICK pairs : pairs = {<<p, q>>, <<q, p>>}
  OBVIOUS
<1>2. /\ met' = met \ pairs /\ control' = Without(pairs) /\ Fault
      /\ past' = [past EXCEPT !.lost = TRUE]
      /\ UNCHANGED <<founders, mem, row, chain, orders, alive, issued, log, nextSeq>>
  BY <1>1 DEF Part, disks
<1>3. /\ control' \in [Peer -> [Peer -> Seq(Letter)]]
      /\ \A a, b \in Peer : Proper(a, b) /\ (control[a][b] = <<>> => control'[a][b] = <<>>)
  BY <1>2, WithoutProper DEF Inv
<1>4. \A a, b \in Peer : a \notin alive' \/ b \notin alive' => control'[a][b] = <<>>
  BY <1>2, <1>3 DEF Inv, Channel
<1>5. met' \subseteq {pair \in alive' \X alive' : pair[1] # pair[2]} /\ faults' \in 0..MaxFaults
  BY <1>2, FaultsBound DEF Inv, Channel
<1>6. chain' \in [Peer -> Groups \cup {0}] /\ orders' \in [Peer -> Seq(Order)]
      /\ alive' \subseteq Peer /\ \A r \in Peer \ alive' : orders'[r] = <<>>
  BY <1>2 DEF Inv, Counts
<1>7. QED
  BY <1>2, <1>3, <1>4, <1>5, <1>6, QuietStep

LEMMA LoseInv ==
  ASSUME Inv, NEW p \in Peer, NEW q \in Peer, Lose(p, q)
  PROVE  Inv'
<1>1. /\ control[p][q] # <<>> /\ Fault
      /\ control' = [control EXCEPT ![p][q] = Tail(@)]
      /\ past' = [past EXCEPT !.lost = TRUE]
      /\ UNCHANGED <<founders, mem, row, chain, orders, alive, met, issued, log, nextSeq>>
  BY DEF Lose, disks
<1>2. control \in [Peer -> [Peer -> Seq(Letter)]]
  BY DEF Inv, Channel
<1>3. Tail(control[p][q]) \in Seq(Letter)
  BY <1>1, <1>2, HeadTailProperties
<1>4. /\ control' \in [Peer -> [Peer -> Seq(Letter)]] /\ control'[p][q] = Tail(control[p][q])
      /\ \A a, b \in Peer : a # p \/ b # q => control'[a][b] = control[a][b]
  BY <1>1, <1>2, <1>3
<1>5. ASSUME NEW a \in Peer, NEW b \in Peer
      PROVE  Proper(a, b) /\ (control[a][b] = <<>> => control'[a][b] = <<>>)
  <2>1. control'[a][b] \in Rest(control[a][b])
    BY <1>1, <1>4 DEF Rest
  <2>2. QED
    BY <1>1, <1>4, <2>1 DEF Proper
<1>6. \A a, b \in Peer : a \notin alive' \/ b \notin alive' => control'[a][b] = <<>>
  BY <1>1, <1>5, SMTT(30) DEF Inv, Channel
<1>7. met' \subseteq {pair \in alive' \X alive' : pair[1] # pair[2]} /\ faults' \in 0..MaxFaults
  BY <1>1, FaultsBound DEF Inv, Channel
<1>8. chain' \in [Peer -> Groups \cup {0}] /\ orders' \in [Peer -> Seq(Order)]
      /\ alive' \subseteq Peer /\ \A r \in Peer \ alive' : orders'[r] = <<>>
  BY <1>1 DEF Inv, Counts
<1>9. QED
  BY <1>1, <1>4, <1>5, <1>6, <1>7, <1>8, QuietStep

(* The channel to q becomes ready.                                          *)
LEMMA ConnectedInv ==
  ASSUME Inv, NEW p \in Peer, NEW q \in Peer, Connected(p, q)
  PROVE  Inv'
<1>1. /\ p # q /\ p \in alive /\ q \in alive /\ met' = met \cup {<<p, q>>}
      /\ Ends(p, Offering(p, mem[p], {q}), <<>>, Offered(p, mem[p], {q}))
      /\ issued' = Counted(p, mem[p])
      /\ UNCHANGED <<founders, chain, alive, faults, past, log, nextSeq>>
  BY DEF Connected, disks
<1>2. PICK m \in Minded : m = mem[p]
  BY DEF Inv, Members
<1>3. PICK n \in Minded :
        /\ n = Offering(p, m, {q})
        /\ n.group = m.group /\ n.members = m.members /\ n.pin = m.pin /\ n.keys = m.keys
        /\ n.key = m.key /\ n.handshake = m.handshake /\ n.admitting = m.admitting
        /\ \A r \in Peer :
             n.invited[r] = IF Invites(p, m) /\ r \in {q} THEN NewAdmission(p, r) ELSE m.invited[r]
  BY OfferingMind DEF Inv
<1>4. /\ mem' = [mem EXCEPT ![p] = Offering(p, m, {q})] /\ row' = [row EXCEPT ![p] = Saved(m)]
      /\ control' = Offered(p, m, {q}) /\ issued' = Counted(p, m)
      /\ orders' = [orders EXCEPT ![p] = @ \o <<>>]
  <2>1. Saved(n) = Saved(m)
    BY <1>3 DEF Saved
  <2>2. QED
    BY <1>1, <1>2, <1>3, <2>1 DEF Ends
<1>5. Grows /\ issued' \in [admissions : Nat, pins : Nat, events : Nat, notes : Nat]
  BY <1>1, <1>4, CountedGrows DEF Inv
<1>6. orders' \in [Peer -> Seq(Order')] /\ \A r \in Peer \ alive' : orders'[r] = <<>>
  <2>1. <<>> \in Seq(Order')
    BY EmptySeq
  <2>2. QED
    BY <1>1, <1>4, <1>5, <2>1, OrdersLonger DEF Inv
<1>7. Counts'
  <2>1. Groups' = Groups
    BY <1>1 DEF Groups
  <2>2. QED
    BY <1>1, <1>5, <1>6, <2>1 DEF Inv, Counts
<1>8. met' \subseteq {pair \in alive \X alive : pair[1] # pair[2]}
  BY <1>1 DEF Inv, Channel
<1>9. m.key \in Groups \cup {0} /\ {q} \subseteq {r \in alive : r # p}
  <2>1. Minds(p, m)
    BY <1>2 DEF Inv, Members
  <2>2. QED
    BY <1>1, <2>1 DEF Minds
<1>10. Counts /\ Members /\ Channel /\ Founding /\ Logs
  BY DEF Inv
<1>11. Members' /\ Channel' /\ Founding' /\ Logs'
  <2>1. /\ m.group = mem[p].group /\ m.members = mem[p].members /\ m.pin = mem[p].pin
        /\ m.keys = mem[p].keys /\ m.handshake = mem[p].handshake
        /\ m.invited = mem[p].invited /\ m.admitting = mem[p].admitting
    BY <1>2
  <2>2. p \in alive /\ UNCHANGED <<founders, past, alive, log, nextSeq>>
    BY <1>1
  <2>3. QED
    BY <1>4, <1>7, <1>8, <1>9, <1>10, <2>1, <2>2, Offers
<1>12. QED
  BY <1>7, <1>11 DEF Inv

LEMMA ChangedMind ==
  ASSUME NEW m \in Minded, NEW n \in Nat
  PROVE  [m EXCEPT !.key = n] \in Minded /\ [m EXCEPT !.typed = n] \in Minded
BY DEF Minded

LEMMA CarryInv ==
  ASSUME Inv, NEW p \in Peer, Carry(p)
  PROVE  Inv'
<1>1. PICK order : order = Head(orders[p])
  OBVIOUS
<1>2. /\ p \in alive /\ orders[p] # <<>> /\ orders' = [orders EXCEPT ![p] = Tail(@)]
      /\ UNCHANGED <<founders, alive, met, faults, past, log, nextSeq>>
  BY DEF Carry, disks
<1>3. /\ alive \subseteq Peer /\ orders \in [Peer -> Seq(Order)] /\ \A q \in Peer \ alive : orders[q] = <<>>
      /\ chain \in [Peer -> Groups \cup {0}]
  BY DEF Inv, Counts
<1>4. order \in Order /\ orders' \in [Peer -> Seq(Order)] /\ \A q \in Peer \ alive' : orders'[q] = <<>>
  <2>1. PICK set : set = Order
    OBVIOUS
  <2>2. Head(orders[p]) \in set /\ Tail(orders[p]) \in Seq(set)
    BY <1>2, <1>3, <2>1, HeadTailProperties
  <2>3. QED
    BY <1>1, <1>2, <1>3, <2>1, <2>2
<1>5. CASE order[1] = "get"
  <2>1. PICK m \in Minded : m = [mem[p] EXCEPT !.key = chain[p]]
    <3>1. mem[p] \in Minded /\ chain[p] \in Nat
      BY <1>3 DEF Inv, Members, Groups
    <3>2. QED
      BY <3>1, ChangedMind
  <2>2. /\ mem' = [mem EXCEPT ![p] = Offering(p, m, Met(p))] /\ row' = [row EXCEPT ![p] = Saved(m)]
        /\ control' = Offered(p, m, Met(p)) /\ issued' = Counted(p, m) /\ chain' = chain
    BY <1>1, <1>5, <2>1 DEF Carry
  <2>3. Grows /\ issued' \in [admissions : Nat, pins : Nat, events : Nat, notes : Nat]
    BY <1>2, <2>2, CountedGrows DEF Inv
  <2>4. Groups' = Groups /\ Order' = Order
    BY <1>2 DEF Groups, Order
  <2>5. Counts'
    BY <1>2, <1>4, <2>2, <2>3, <2>4 DEF Inv, Counts
  <2>6. /\ m.group = mem[p].group /\ m.members = mem[p].members /\ m.pin = mem[p].pin
        /\ m.keys = mem[p].keys /\ m.handshake = mem[p].handshake
        /\ m.invited = mem[p].invited /\ m.admitting = mem[p].admitting /\ m.key \in Groups \cup {0}
    BY <1>3, <2>1 DEF Inv, Members, Minded
  <2>7. PICK whom : whom = Met(p)
    OBVIOUS
  <2>8. whom \subseteq {q \in alive : q # p}
    BY <2>7 DEF Met, Inv, Channel
  <2>9. met' \subseteq {pair \in alive \X alive : pair[1] # pair[2]}
    BY <1>2 DEF Inv, Channel
  <2>10. p \in alive /\ UNCHANGED <<founders, past, alive, log, nextSeq>>
    BY <1>2
  <2>11. Counts /\ Members /\ Channel /\ Founding /\ Logs
    BY DEF Inv
  <2>12. Members' /\ Channel' /\ Founding' /\ Logs'
    BY <2>2, <2>5, <2>6, <2>7, <2>8, <2>9, <2>10, <2>11, Offers
  <2>13. QED
    BY <2>5, <2>12 DEF Inv
<1>6. CASE order[1] # "get"
  <2>1. chain' = [chain EXCEPT ![p] = order[2]] /\ UNCHANGED <<mem, row, control, issued>>
    BY <1>1, <1>6 DEF Carry
  <2>2. order[2] \in Groups \cup {0}
    BY <1>4 DEF Order
  <2>3. chain' \in [Peer -> Groups \cup {0}] /\ alive' \subseteq Peer /\ faults' \in 0..MaxFaults
    BY <1>2, <1>3, <2>1, <2>2 DEF Inv, Counts
  <2>4. /\ control' \in [Peer -> [Peer -> Seq(Letter)]] /\ \A a, b \in Peer : Proper(a, b)
        /\ \A a, b \in Peer : a \notin alive' \/ b \notin alive' => control'[a][b] = <<>>
    BY <1>2, <2>1, SameProper DEF Inv
  <2>5. met' \subseteq {pair \in alive' \X alive' : pair[1] # pair[2]}
    BY <1>2 DEF Inv, Channel
  <2>6. UNCHANGED <<founders, mem, row, log, nextSeq, issued>> /\ past' = past
    BY <1>2, <2>1
  <2>7. QED
    BY <1>4, <2>3, <2>4, <2>5, <2>6, QuietStep
<1>7. QED
  BY <1>5, <1>6

(* A step of p that leaves its group, its list and its PIN as they are.     *)
LEMMA MindStep ==
  ASSUME Inv, NEW p \in alive, NEW m \in Minded,
         m.group = mem[p].group, m.members = mem[p].members, m.pin = mem[p].pin, m.keys = mem[p].keys,
         Minds(p, m),
         \A q \in Peer : \A id \in Ids(p, q) :
           id = m.invited[q] \/ (\E pin \in Nat : m.admitting[q] = Session(id, pin)) => Current(p, q, id),
         mem' = [mem EXCEPT ![p] = m], row' = row \/ row' = [row EXCEPT ![p] = Saved(m)],
         UNCHANGED <<founders, chain, orders, alive, met, log, nextSeq, issued, faults, past>>,
         control' \in [Peer -> [Peer -> Seq(Letter)]],
         Members' => \A a, b \in Peer : Proper(a, b),
         \A a, b \in Peer : a \notin alive \/ b \notin alive => control'[a][b] = <<>>
  PROVE  Inv'
<1>1. Groups' = Groups /\ Order' = Order
  BY DEF Groups, Order
<1>2. Counts'
  BY <1>1 DEF Inv, Counts
<1>3. Grows
  BY <1>1 DEF Grows, Inv, Counts
<1>4. p \in Peer
  BY DEF Inv, Counts
<1>5. Keeps(p, m)'
  <2>1. PICK o : o = mem[p]
    OBVIOUS
  <2>2. Keeps(p, o)
    BY <1>4, <2>1 DEF Inv, Members
  <2>3. Keeps(p, m) /\ m.pin \in Nat
    BY <2>1, <2>2 DEF Keeps, Minded
  <2>4. QED
    BY <1>2, <1>3, <2>3, KeepsStays DEF Inv
<1>6. Minds(p, m)'
  BY <1>2, <1>3, <1>4, GroupKnown, MindsStays DEF Inv, Members
<1>7. Members'
  BY <1>2, <1>3, <1>4, <1>5, <1>6, MembersAfter DEF Inv
<1>8. \A q \in Peer : Steady(q)
  BY <1>4, SteadyAfter DEF Inv
<1>9. row \in [Peer -> Row] /\ row[p].group = mem[p].group /\ Saved(m).group = m.group
      /\ Saved(m).members = m.members /\ mem \in [Peer -> Minded]
  BY <1>4, SavedMind DEF Inv, Members
<1>10. \A x \in Peer : row'[x].group = row[x].group
  BY <1>4, <1>9
<1>11. Lasting
  BY <1>10, LastingAfter
<1>12. \A f \in Peer : /\ mem'[f].group = mem[f].group
                       /\ mem'[f].members \cup row'[f].members \subseteq mem[f].members \cup row[f].members
  BY <1>4, <1>9
<1>13. Founding'
  BY <1>3, <1>7, <1>11, <1>12, FoundingStays DEF Inv
<1>14. Logs'
  BY <1>2, <1>3, LogsUntouched DEF Inv
<1>15. met' \subseteq {pair \in alive' \X alive' : pair[1] # pair[2]}
  BY DEF Inv, Channel
<1>16. Channel'
  BY <1>2, <1>3, <1>7, <1>8, <1>11, <1>15, ChannelAfter DEF Inv
<1>17. QED
  BY <1>2, <1>7, <1>13, <1>14, <1>16 DEF Inv

LEMMA JoinWithPinInv ==
  ASSUME Inv, NEW p \in Peer, NEW pin \in 1..issued.pins, JoinWithPin(p, pin)
  PROVE  Inv'
<1>1. /\ p \in alive /\ mem' = [mem EXCEPT ![p].typed = pin]
      /\ UNCHANGED <<founders, row, chain, orders, alive, met, control, issued, faults, past, log, nextSeq>>
  BY DEF JoinWithPin, disks
<1>2. pin \in Nat
  BY DEF Inv, Counts
<1>3. PICK m \in Minded : m = [mem[p] EXCEPT !.typed = pin]
  <2>1. mem[p] \in Minded
    BY DEF Inv, Members
  <2>2. QED
    BY <1>2, <2>1, ChangedMind
<1>4. /\ m.group = mem[p].group /\ m.members = mem[p].members /\ m.pin = mem[p].pin /\ m.keys = mem[p].keys
      /\ m.key = mem[p].key /\ m.handshake = mem[p].handshake
      /\ m.invited = mem[p].invited /\ m.admitting = mem[p].admitting
  BY <1>3 DEF Inv, Members, Minded
<1>5. mem' = [mem EXCEPT ![p] = m]
  BY <1>1, <1>3 DEF Inv, Members
<1>6. Minds(p, m)
  <2>1. Minds(p, mem[p])
    BY DEF Inv, Members
  <2>2. QED
    BY <1>4, <2>1 DEF Minds
<1>7. \A q \in Peer : \A id \in Ids(p, q) :
        id = m.invited[q] \/ (\E n \in Nat : m.admitting[q] = Session(id, n)) => Current(p, q, id)
  BY <1>4 DEF Current
<1>8. /\ control' \in [Peer -> [Peer -> Seq(Letter)]] /\ \A a, b \in Peer : Proper(a, b)
      /\ \A a, b \in Peer : a \notin alive \/ b \notin alive => control'[a][b] = <<>>
  BY <1>1, SameProper DEF Inv
<1>9. QED
  BY <1>1, <1>4, <1>5, <1>6, <1>7, <1>8, MindStep

-----------------------------------------------------------------------------
(* Handlers: the message that has arrived, and what is sent in return.      *)
LEMMA ArrivedMessage ==
  ASSUME Counts, Channel, NEW p \in Peer, NEW q \in Peer, control[q][p] # <<>>,
         NEW k, k = Head(control[q][p])
  PROVE  /\ p \in alive /\ q \in alive /\ p # q /\ k \in Letter
         /\ k.type = "invitation" => k \in Invitations(q, p)
         /\ k.type = "hello" => k \in Hellos(q, p)
         /\ k.type = "response" => k \in Responses(q, p)
         /\ k.type = "confirmation" => k \in Confirmations(q, p)
<1>1. p \in alive /\ q \in alive
  BY DEF Channel
<1>2. k \in Messages(q, p)
  <2>1. PICK set : set = Messages(q, p)
    OBVIOUS
  <2>2. control[q][p] \in Seq(set)
    BY <2>1 DEF Channel
  <2>3. QED
    BY <2>1, <2>2, HeadTailProperties
<1>3. k \in Letter
  BY <1>2, MessagesAreLetters
<1>4. CASE k \in Invitations(q, p)
  BY <1>1, <1>3, <1>4 DEF Invitations, Ids
<1>5. CASE k \in Hellos(q, p)
  BY <1>1, <1>3, <1>5 DEF Hellos, Ids
<1>6. CASE k \in Responses(q, p)
  BY <1>1, <1>3, <1>6 DEF Responses, Credentials, Ids
<1>7. CASE k \in Confirmations(q, p)
  BY <1>1, <1>3, <1>7 DEF Confirmations, Sessions, Ids
<1>8. QED
  BY <1>2, <1>4, <1>5, <1>6, <1>7 DEF Messages

LEMMA TakenProper ==
  ASSUME Channel, NEW p \in Peer, NEW q \in Peer, control[q][p] # <<>>, control' = Taken(p, q)
  PROVE  /\ control' \in [Peer -> [Peer -> Seq(Letter)]]
         /\ \A a, b \in Peer : Proper(a, b)
         /\ \A a, b \in Peer : a \notin alive \/ b \notin alive => control'[a][b] = <<>>
<1>1. /\ Taken(p, q) \in [Peer -> [Peer -> Seq(Letter)]]
      /\ Taken(p, q)[q][p] = Tail(control[q][p])
      /\ \A a, b \in Peer : a # q \/ b # p => Taken(p, q)[a][b] = control[a][b]
  BY TakenMessage
<1>2. ASSUME NEW a \in Peer, NEW b \in Peer
      PROVE  Proper(a, b)
  <2>1. control'[a][b] \in Rest(control[a][b])
    BY <1>1 DEF Rest
  <2>2. QED
    BY <2>1 DEF Proper
<1>3. ASSUME NEW a \in Peer, NEW b \in Peer, a \notin alive \/ b \notin alive
      PROVE  control'[a][b] = <<>>
  <2>1. control[a][b] = <<>>
    BY <1>3 DEF Channel
  <2>2. QED
    BY <1>1, <2>1
<1>4. QED
  BY <1>1, <1>2, <1>3

LEMMA ReplyProper ==
  ASSUME Channel, NEW p \in Peer, NEW q \in Peer, p # q, control[q][p] # <<>>, NEW k \in Letter,
         control' = Reply(p, q, k)
  PROVE  /\ control' \in [Peer -> [Peer -> Seq(Letter)]]
         /\ k \in Messages(p, q)' => \A a, b \in Peer : Proper(a, b)
         /\ \A a, b \in Peer : a \notin alive \/ b \notin alive => control'[a][b] = <<>>
<1>1. /\ Reply(p, q, k) \in [Peer -> [Peer -> Seq(Letter)]]
      /\ Reply(p, q, k)[q][p] = Tail(control[q][p])
      /\ Reply(p, q, k)[p][q] = Append(control[p][q], k)
      /\ \A a, b \in Peer : (a # q \/ b # p) /\ (a # p \/ b # q) =>
           Reply(p, q, k)[a][b] = control[a][b]
  BY ReplyMessage
<1>2. ASSUME k \in Messages(p, q)', NEW a \in Peer, NEW b \in Peer
      PROVE  Proper(a, b)
  <2>1. CASE a = p /\ b = q
    <3>1. control[a][b] \in Rest(control[a][b]) /\ control'[a][b] = Append(control[a][b], k)
      BY <1>1, <2>1 DEF Rest
    <3>2. QED
      BY <1>2, <2>1, <3>1 DEF Proper
  <2>2. CASE ~(a = p /\ b = q)
    <3>1. control'[a][b] \in Rest(control[a][b])
      BY <1>1, <2>2 DEF Rest
    <3>2. QED
      BY <3>1 DEF Proper
  <2>3. QED
    BY <2>1, <2>2
<1>3. ASSUME NEW a \in Peer, NEW b \in Peer, a \notin alive \/ b \notin alive
      PROVE  control'[a][b] = <<>>
  <2>1. control[a][b] = <<>> /\ p \in alive /\ q \in alive
    BY <1>3 DEF Channel
  <2>2. QED
    BY <1>1, <1>3, <2>1
<1>4. QED
  BY <1>1, <1>2, <1>3

LEMMA NothingAsked ==
  ASSUME Counts, NEW p \in Peer, orders' = [orders EXCEPT ![p] = @ \o <<>>]
  PROVE  orders' = orders
<1>1. orders \in [Peer -> Seq(Order)]
  BY DEF Counts
<1>2. orders[p] \o <<>> = orders[p]
  BY <1>1, ConcatEmptySeq
<1>3. QED
  BY <1>1, <1>2

LEMMA OnInvitationInfoInv ==
  ASSUME Inv, NEW p \in Peer, NEW q \in Peer, OnInvitationInfo(p, q)
  PROVE  Inv'
<1>1. PICK k : k = Head(control[q][p])
  OBVIOUS
<1>2. /\ control[q][p] # <<>> /\ k.type = "invitation"
      /\ UNCHANGED <<founders, chain, alive, met, issued, faults, past, log, nextSeq>>
  BY <1>1 DEF OnInvitationInfo, Arrives, disks
<1>3. /\ p \in alive /\ q \in alive /\ p # q /\ k \in Invitations(q, p)
  BY <1>1, <1>2, ArrivedMessage DEF Inv
<1>4. mem[p] \in Minded /\ Minds(p, mem[p])
  BY DEF Inv, Members
<1>5. CASE Ends(p, mem[p], <<>>, Taken(p, q))
  <2>1. PICK m \in Minded : m = mem[p]
    BY <1>4
  <2>2. mem' = [mem EXCEPT ![p] = m] /\ row' = [row EXCEPT ![p] = Saved(m)]
        /\ orders' = orders /\ control' = Taken(p, q)
    BY <1>5, <2>1, NothingAsked DEF Ends, Inv
  <2>3. /\ control' \in [Peer -> [Peer -> Seq(Letter)]] /\ \A a, b \in Peer : Proper(a, b)
        /\ \A a, b \in Peer : a \notin alive \/ b \notin alive => control'[a][b] = <<>>
    BY <1>2, <2>2, TakenProper DEF Inv
  <2>4. \A r \in Peer : \A id \in Ids(p, r) :
          id = m.invited[r] \/ (\E pin \in Nat : m.admitting[r] = Session(id, pin)) => Current(p, r, id)
    BY <2>1 DEF Current
  <2>5. /\ m.group = mem[p].group /\ m.members = mem[p].members
        /\ m.pin = mem[p].pin /\ m.keys = mem[p].keys /\ Minds(p, m)
    BY <1>4, <2>1
  <2>6. QED
    BY <1>2, <1>3, <2>2, <2>3, <2>4, <2>5, MindStep
<1>6. CASE /\ mem[p].group = 0
           /\ Ends(p, [mem[p] EXCEPT !.handshake = [id |-> k.id, inviter |-> q, pin |-> mem[p].typed]],
                   <<>>, Reply(p, q, Hello(k.id)))
  <2>1. k.id \in Ids(q, p) /\ k.id \in Admission
    BY <1>3 DEF Invitations, Ids
  <2>2. PICK m \in Minded :
          m = [mem[p] EXCEPT !.handshake = [id |-> k.id, inviter |-> q, pin |-> mem[p].typed]]
    BY <1>4, <2>1 DEF Minded
  <2>3. PICK l \in Letter : l = Hello(k.id)
    BY <2>1 DEF Hello, Letter
  <2>4. mem' = [mem EXCEPT ![p] = m] /\ row' = [row EXCEPT ![p] = Saved(m)]
        /\ orders' = orders /\ control' = Reply(p, q, l)
    BY <1>6, <2>2, <2>3, NothingAsked DEF Ends, Inv
  <2>5. /\ m.group = mem[p].group /\ m.members = mem[p].members /\ m.pin = mem[p].pin /\ m.keys = mem[p].keys
        /\ m.key = mem[p].key /\ m.invited = mem[p].invited /\ m.admitting = mem[p].admitting
        /\ m.handshake.id = k.id /\ m.handshake.inviter = q
    BY <1>4, <2>2 DEF Minded
  <2>6. Minds(p, m)
    BY <1>4, <1>6, <2>1, <2>5 DEF Minds
  <2>7. \A r \in Peer : \A id \in Ids(p, r) :
          id = m.invited[r] \/ (\E pin \in Nat : m.admitting[r] = Session(id, pin)) => Current(p, r, id)
    BY <2>5 DEF Current
  <2>8. l \in Messages(p, q)'
    <3>1. Ids(q, p)' = Ids(q, p)
      BY <1>2 DEF Ids
    <3>2. QED
      BY <2>1, <2>3, <3>1 DEF Messages, Hellos, Hello
  <2>9. /\ control' \in [Peer -> [Peer -> Seq(Letter)]] /\ \A a, b \in Peer : Proper(a, b)
        /\ \A a, b \in Peer : a \notin alive \/ b \notin alive => control'[a][b] = <<>>
    BY <1>2, <1>3, <2>4, <2>8, ReplyProper DEF Inv
  <2>10. QED
    BY <1>2, <1>3, <2>4, <2>5, <2>6, <2>7, <2>9, MindStep
<1>7. QED
  BY <1>1, <1>5, <1>6 DEF OnInvitationInfo

(* The owner answers to an admission that it still offers.                  *)
LEMMA OnJoinHelloInv ==
  ASSUME Inv, NEW p \in Peer, NEW q \in Peer, OnJoinHello(p, q)
  PROVE  Inv'
<1>1. PICK k : k = Head(control[q][p])
  OBVIOUS
<1>2. /\ control[q][p] # <<>> /\ k.type = "hello"
      /\ UNCHANGED <<founders, chain, alive, met, issued, faults, past, log, nextSeq>>
  BY <1>1 DEF OnJoinHello, Arrives, disks
<1>3. /\ p \in alive /\ q \in alive /\ p # q /\ k \in Hellos(q, p)
  BY <1>1, <1>2, ArrivedMessage DEF Inv
<1>4. mem[p] \in Minded /\ Minds(p, mem[p]) /\ Keeps(p, mem[p])
  BY DEF Inv, Members
<1>5. CASE Fails(p, mem[p]) /\ control' = Taken(p, q)
  <2>1. PICK m \in Minded : m = mem[p]
    BY <1>4
  <2>2. mem' = [mem EXCEPT ![p] = m] /\ row' = row /\ orders' = orders /\ control' = Taken(p, q)
    BY <1>5, <2>1 DEF Fails
  <2>3. /\ control' \in [Peer -> [Peer -> Seq(Letter)]] /\ \A a, b \in Peer : Proper(a, b)
        /\ \A a, b \in Peer : a \notin alive \/ b \notin alive => control'[a][b] = <<>>
    BY <1>2, <2>2, TakenProper DEF Inv
  <2>4. \A r \in Peer : \A id \in Ids(p, r) :
          id = m.invited[r] \/ (\E pin \in Nat : m.admitting[r] = Session(id, pin)) => Current(p, r, id)
    BY <2>1 DEF Current
  <2>5. /\ m.group = mem[p].group /\ m.members = mem[p].members
        /\ m.pin = mem[p].pin /\ m.keys = mem[p].keys /\ Minds(p, m)
    BY <1>4, <2>1
  <2>6. QED
    BY <1>2, <1>3, <2>2, <2>3, <2>4, <2>5, MindStep
<1>6. CASE /\ mem[p].group # 0 /\ mem[p].invited[q] = k.id
           /\ Ends(p, [mem[p] EXCEPT !.admitting[q] = Session(k.id, mem[p].pin)], <<>>,
                   Reply(p, q, Response(k.id, Session(k.id, mem[p].pin), Listing(mem[p], q))))
  <2>1. PICK session : session = Session(k.id, mem[p].pin)
    OBVIOUS
  <2>2. k.id \in Admission
    BY <1>3 DEF Hellos, Ids
  <2>3. k.id \in Ids(p, q) /\ session \in Sessions(p, q) /\ Hosts(p, mem[p].group)
    <3>1. mem[p].invited[q] # None
      BY <1>6, <2>2, NotNone
    <3>2. k.id \in Ids(p, q) /\ Hosts(p, mem[p].group)
      BY <1>4, <1>6, <3>1 DEF Minds
    <3>3. QED
      BY <1>4, <2>1, <3>2 DEF Sessions, Session, Minded
  <2>4. session[1] = k.id /\ session \in Admission \X Nat
    BY <1>4, <2>1, <2>2 DEF Session, Minded
  <2>5. PICK m \in Minded : m = [mem[p] EXCEPT !.admitting[q] = session]
    BY <1>4, <2>4 DEF Minded
  <2>6. /\ m.group = mem[p].group /\ m.members = mem[p].members /\ m.pin = mem[p].pin /\ m.keys = mem[p].keys
        /\ m.key = mem[p].key /\ m.invited = mem[p].invited /\ m.handshake = mem[p].handshake
        /\ m.admitting[q] = session /\ \A r \in Peer \ {q} : m.admitting[r] = mem[p].admitting[r]
    BY <1>4, <2>5 DEF Minded
  <2>7. Minds(p, m)
    BY <1>4, <2>3, <2>6 DEF Minds
  <2>8. ASSUME NEW r \in Peer, NEW id \in Ids(p, r),
               id = m.invited[r] \/ \E pin \in Nat : m.admitting[r] = Session(id, pin)
        PROVE  Current(p, r, id)
    <3>1. CASE r = q /\ \E pin \in Nat : session = Session(id, pin)
      BY <1>6, <2>4, <3>1 DEF Current, Session
    <3>2. QED
      BY <2>6, <2>8, <3>1 DEF Current
  <2>9. PICK l : l = Response(k.id, session, Listing(mem[p], q))
    OBVIOUS
  <2>10. /\ l.type = "response" /\ l.id = k.id /\ l.session = session /\ l.group = mem[p].group
         /\ l.members = mem[p].members \cup {q} /\ l.keys = mem[p].keys \cup {q}
         /\ l \in [type : {"response"}, id : Ids(p, q), session : Sessions(p, q), group : Groups,
                   members : SUBSET Peer, keys : SUBSET Peer, key : Groups \cup {0}]
    <3>1. PICK n : n = Listing(mem[p], q)
      OBVIOUS
    <3>2. /\ n.group = mem[p].group /\ n.members = mem[p].members \cup {q}
          /\ n.keys = mem[p].keys \cup {q} /\ n.key = mem[p].key
      BY <1>4, <3>1 DEF Listing, Minded
    <3>3. /\ mem[p].group \in Groups /\ mem[p].members \subseteq Peer /\ mem[p].keys \subseteq Peer
          /\ mem[p].key \in Groups \cup {0}
      BY <1>4, <2>3 DEF Hosts, Minded, Minds
    <3>4. QED
      BY <2>3, <2>9, <3>1, <3>2, <3>3 DEF Response
  <2>11. l \in Letter
    <3>1. /\ Groups \subseteq Nat /\ Groups \cup {0} \subseteq Nat
          /\ Sessions(p, q) \subseteq Admission \X Nat /\ Ids(p, q) \subseteq Admission
      BY DEF Groups, Sessions, Ids
    <3>2. QED
      BY <2>10, <3>1 DEF Letter
  <2>12. mem' = [mem EXCEPT ![p] = m] /\ row' = [row EXCEPT ![p] = Saved(m)]
         /\ orders' = orders /\ control' = Reply(p, q, l)
    BY <1>6, <2>1, <2>5, <2>9, NothingAsked DEF Ends, Inv
  <2>13. ASSUME Members'
         PROVE  l \in Messages(p, q)'
    <3>1. /\ Ids(p, q)' = Ids(p, q) /\ Sessions(p, q)' = Sessions(p, q) /\ Groups' = Groups
      BY <1>2 DEF Ids, Sessions, Groups
    <3>2. l \in Credentials(p, q)'
      BY <2>10, <3>1 DEF Credentials
    <3>3. mem'[p] = m /\ q \in l.keys
      BY <2>10, <2>12 DEF Inv, Members
    <3>4. Lists(mem[p].group, mem[p].members, mem[p].keys) /\ Sound(mem[p].group, mem[p].members)
      BY <1>4, <1>6 DEF Keeps
    <3>5. Lists(l.group, l.members, l.keys)'
      BY <1>2, <2>10, <3>4 DEF Lists, Groups
    <3>6. Sound(l.group, l.members \ {q})'
      BY <1>2, <2>10, <3>4 DEF Sound
    <3>7. Hosts(p, l.group)'
      BY <1>2, <2>3, <2>10 DEF Hosts, Groups
    <3>8. Trusty(p, q, l)'
      BY <2>4, <2>6, <2>10, <3>3, <3>5, <3>6, <3>7 DEF Trusty
    <3>9. QED
      BY <3>2, <3>8 DEF Messages, Responses
  <2>14. /\ control' \in [Peer -> [Peer -> Seq(Letter)]]
         /\ Members' => \A a, b \in Peer : Proper(a, b)
         /\ \A a, b \in Peer : a \notin alive \/ b \notin alive => control'[a][b] = <<>>
    BY <1>2, <1>3, <2>11, <2>12, <2>13, ReplyProper DEF Inv
  <2>15. QED
    BY <1>2, <1>3, <2>6, <2>7, <2>8, <2>12, <2>14, MindStep
<1>7. QED
  BY <1>1, <1>5, <1>6 DEF OnJoinHello

(* The joiner: a response that is not agreed to uses up the handshake.      *)
LEMMA ResponseRefused ==
  ASSUME Inv, NEW p \in Peer, NEW q \in Peer, Arrives(p, q, "response"),
         Fails(p, [mem[p] EXCEPT !.handshake = None]), control' = Taken(p, q),
         UNCHANGED <<issued, past, log, nextSeq>>
  PROVE  Inv'
<1>1. /\ p \in alive /\ control[q][p] # <<>> /\ UNCHANGED <<founders, chain, alive, met, faults>>
  BY DEF Arrives
<1>2. mem[p] \in Minded /\ Minds(p, mem[p])
  BY DEF Inv, Members
<1>3. PICK m \in Minded : m = [mem[p] EXCEPT !.handshake = None]
  BY <1>2 DEF Minded
<1>4. /\ m.group = mem[p].group /\ m.members = mem[p].members /\ m.pin = mem[p].pin /\ m.keys = mem[p].keys
      /\ m.key = mem[p].key /\ m.invited = mem[p].invited /\ m.admitting = mem[p].admitting
      /\ m.handshake = None
  BY <1>2, <1>3 DEF Minded
<1>5. Minds(p, m)
  BY <1>2, <1>4 DEF Minds
<1>6. \A r \in Peer : \A id \in Ids(p, r) :
        id = m.invited[r] \/ (\E pin \in Nat : m.admitting[r] = Session(id, pin)) => Current(p, r, id)
  BY <1>4 DEF Current
<1>7. mem' = [mem EXCEPT ![p] = m] /\ row' = row /\ orders' = orders
  BY <1>3 DEF Fails
<1>8. /\ control' \in [Peer -> [Peer -> Seq(Letter)]] /\ \A a, b \in Peer : Proper(a, b)
      /\ \A a, b \in Peer : a \notin alive \/ b \notin alive => control'[a][b] = <<>>
  BY <1>1, TakenProper DEF Inv
<1>9. QED
  BY <1>1, <1>4, <1>5, <1>6, <1>7, <1>8, MindStep

(* What a joiner keeps once it agrees.                                      *)
Agreed(o, g, members, keys, k) ==
  [[o EXCEPT !.handshake = None] EXCEPT !.group = g, !.members = members, !.pin = 0,
                                        !.keys = keys, !.key = k, !.typed = 0]

LEMMA AgreedMind ==
  ASSUME NEW o \in Minded, NEW g \in Nat, NEW members \in SUBSET Peer, NEW keys \in SUBSET Peer,
         NEW k \in Nat
  PROVE  \E m \in Minded :
           /\ m = Agreed(o, g, members, keys, k)
           /\ m.group = g /\ m.members = members /\ m.pin = 0 /\ m.keys = keys
           /\ m.key = k /\ m.invited = o.invited /\ m.admitting = o.admitting /\ m.handshake = None
<1>1. PICK a : a = [o EXCEPT !.handshake = None, !.group = g, !.members = members]
  OBVIOUS
<1>2. /\ a \in Minded /\ a.group = g /\ a.members = members
      /\ a.invited = o.invited /\ a.admitting = o.admitting /\ a.handshake = None
  BY <1>1 DEF Minded
<1>3. PICK b : b = [a EXCEPT !.pin = 0, !.keys = keys]
  OBVIOUS
<1>4. /\ b \in Minded /\ b.group = g /\ b.members = members /\ b.pin = 0 /\ b.keys = keys
      /\ b.invited = o.invited /\ b.admitting = o.admitting /\ b.handshake = None
  BY <1>2, <1>3 DEF Minded
<1>5. PICK m : m = [b EXCEPT !.key = k, !.typed = 0]
  OBVIOUS
<1>6. m = Agreed(o, g, members, keys, k)
  BY <1>1, <1>3, <1>5 DEF Agreed
<1>7. /\ m \in Minded /\ m.group = g /\ m.members = members /\ m.pin = 0 /\ m.keys = keys
      /\ m.key = k /\ m.invited = o.invited /\ m.admitting = o.admitting /\ m.handshake = None
  BY <1>4, <1>5, ZenonT(40) DEF Minded
<1>8. QED
  BY <1>6, <1>7

(* The joiner agrees: it is in the group of the credential from then on,    *)
(* with its row saved before the confirmation leaves.                       *)
LEMMA ResponseAgreed ==
  ASSUME Inv, NEW p \in Peer, NEW q \in Peer, Arrives(p, q, "response"),
         NEW r, r = Head(control[q][p]),
         mem[p].handshake # None, mem[p].handshake.inviter = q, mem[p].handshake.id = r.id,
         Ends(p, Agreed(mem[p], r.group, r.members, r.keys, r.key),
              <<<<"put", r.key>>>>, Reply(p, q, Confirmation(r.session))),
         Joining(p, r.group),
         UNCHANGED <<issued, log, nextSeq>>
  PROVE  Inv'
<1>1. /\ control[q][p] # <<>> /\ r.type = "response"
      /\ UNCHANGED <<founders, chain, alive, met, faults>>
  BY DEF Arrives
<1>2. /\ p \in alive /\ q \in alive /\ p # q /\ r \in Responses(q, p)
  BY <1>1, ArrivedMessage DEF Inv
<1>3. r \in Credentials(q, p) /\ Trusty(q, p, r)
  BY <1>2 DEF Responses
<1>4. mem[p] \in Minded /\ Minds(p, mem[p]) /\ Keeps(p, mem[p]) /\ row[p].group = mem[p].group
  BY DEF Inv, Members
<1>5. PICK g : g = r.group
  BY SMTT(30)
<1>6. /\ g \in Groups /\ g \in Nat /\ r.members \subseteq Peer /\ r.keys \subseteq Peer /\ p \in r.keys
      /\ Lists(g, r.members, r.keys) /\ Sound(g, r.members \ {p})
      /\ founders[g] = q \/ g \in past.moved
      /\ Current(q, p, r.id) => g = mem[q].group \/ mem[q].group \in past.moved
      /\ r.session[1] = r.id /\ r.key \in Groups \cup {0} /\ r.key \in Nat
  <2>1. g \in Groups /\ r.members \subseteq Peer /\ r.keys \subseteq Peer /\ r.key \in Groups \cup {0}
    BY <1>3, <1>5 DEF Credentials
  <2>2. g \in Nat /\ r.key \in Nat
    BY <2>1 DEF Groups
  <2>3. QED
    BY <1>3, <1>5, <2>1, <2>2 DEF Trusty, Hosts
<1>7. mem[p].group = 0 \/ founders[mem[p].group] = p
  BY <1>4, SMTT(30) DEF Minds
<1>8. PICK m \in Minded :
        /\ m = Agreed(mem[p], g, r.members, r.keys, r.key)
        /\ m.group = g /\ m.members = r.members /\ m.pin = 0 /\ m.keys = r.keys
        /\ m.key = r.key /\ m.invited = mem[p].invited /\ m.admitting = mem[p].admitting
        /\ m.handshake = None
  BY <1>4, <1>6, AgreedMind, SMTT(30)
<1>9. /\ m.group = g /\ m.members = r.members /\ m.pin = 0 /\ m.keys = r.keys
      /\ m.key = r.key /\ m.invited = mem[p].invited /\ m.admitting = mem[p].admitting
      /\ m.handshake = None
  BY <1>8, ZenonT(40)
<1>10. /\ mem' = [mem EXCEPT ![p] = m] /\ row' = [row EXCEPT ![p] = Saved(m)]
       /\ orders' = [orders EXCEPT ![p] = @ \o <<<<"put", r.key>>>>]
       /\ control' = Reply(p, q, Confirmation(r.session))
  BY <1>5, <1>8, ZenonT(40) DEF Ends
<1>11. /\ past' \in [held : SUBSET (Peer \X Nat), left : SUBSET (Peer \X Nat), cleared : SUBSET Peer,
                     moved : SUBSET Nat, lost : BOOLEAN]
       /\ past'.held = past.held \cup {<<p, g>>} /\ past'.left = past.left \ {<<p, g>>}
       /\ past'.cleared = past.cleared
       /\ past'.moved = IF mem[p].group = 0 THEN past.moved ELSE past.moved \cup {g}
  <2>1. past \in [held : SUBSET (Peer \X Nat), left : SUBSET (Peer \X Nat), cleared : SUBSET Peer,
                  moved : SUBSET Nat, lost : BOOLEAN]
    BY DEF Inv, Counts
  <2>2. past' = [past EXCEPT !.held = @ \cup {<<p, g>>}, !.left = @ \ {<<p, g>>},
                             !.moved = IF mem[p].group = 0 THEN @ ELSE @ \cup {g}]
    BY <1>5, SMTT(30) DEF Joining
  <2>3. <<p, g>> \in Peer \X Nat /\ past.left \ {<<p, g>>} \subseteq Peer \X Nat
    BY <1>6, <2>1, SMTT(30)
  <2>4. (IF mem[p].group = 0 THEN past.moved ELSE past.moved \cup {g}) \subseteq Nat
    BY <1>6, <2>1
  <2>5. QED
    BY <2>1, <2>2, <2>3, <2>4
<1>12. Groups' = Groups /\ Order' = Order
  BY <1>1 DEF Groups, Order
<1>13. Grows
  BY <1>1, <1>11, <1>12 DEF Grows, Inv, Counts
<1>14. Counts'
  <2>1. <<"put", r.key>> \in Order'
    BY <1>6, <1>12 DEF Order
  <2>2. <<<<"put", r.key>>>> \in Seq(Order')
    BY <2>1, OneElement, SMTT(30)
  <2>3. orders' \in [Peer -> Seq(Order')] /\ \A x \in Peer \ alive' : orders'[x] = <<>>
    BY <1>1, <1>2, <1>10, <1>13, <2>2, OrdersLonger DEF Inv
  <2>4. QED
    BY <1>1, <1>11, <1>12, <2>3, SMTT(30) DEF Inv, Counts
<1>15. Keeps(p, m)'
  <2>1. issued'.pins \in Nat
    BY <1>14, SMTT(30) DEF Counts
  <2>2. Lists(m.group, m.members, m.keys)'
    BY <1>6, <1>9, <1>13, ListsStay, SMTT(30)
  <2>3. Sound(m.group, m.members)'
    BY <1>6, <1>9, <1>11, <1>13, SMTT(30) DEF Sound
  <2>4. p \in m.keys /\ m.pin <= issued'.pins /\ m.pin = 0 /\ <<p, m.group>> \in past'.held
    BY <1>6, <1>9, <1>11, <2>1
  <2>5. QED
    BY <2>2, <2>3, <2>4 DEF Keeps
<1>16. \A x \in Peer : mem[p].invited[x] # None \/ mem[p].admitting[x] # None =>
         mem[p].group # 0 /\ g \in past'.moved
  <2>1. 0 \notin Groups
    BY DEF Groups
  <2>2. QED
    BY <1>4, <1>11, <2>1 DEF Minds, Hosts
<1>17. Minds(p, m)'
  <2>1. \A a : Ids(p, a)' = Ids(p, a) /\ Sessions(p, a)' = Sessions(p, a)
    BY SMTT(30) DEF Ids, Sessions
  <2>2. ASSUME NEW x \in Peer
        PROVE  /\ m.invited[x] # None => m.invited[x] \in Ids(p, x)' /\ Hosts(p, m.group)'
               /\ m.admitting[x] # None => m.admitting[x] \in Sessions(p, x)' /\ Hosts(p, m.group)'
    BY <1>4, <1>6, <1>9, <1>12, <1>16, <2>1, SMTT(30) DEF Minds, Hosts
  <2>3. m.key \in (Groups \cup {0})' /\ m.handshake = None
    BY <1>6, <1>9, <1>12
  <2>4. QED
    BY <2>2, <2>3 DEF Minds
<1>18. Members'
  BY <1>10, <1>13, <1>14, <1>15, <1>17, MembersAfter DEF Inv
<1>19. \A x \in Peer : Steady(x)
  <2>1. ASSUME NEW x \in Peer, NEW id \in Ids(p, x),
               id = m.invited[x] \/ \E pin \in Nat : m.admitting[x] = Session(id, pin)
        PROVE  Current(p, x, id) /\ m.group \in past'.moved
    <3>1. Current(p, x, id)
      BY <1>9, <2>1 DEF Current
    <3>2. mem[p].invited[x] # None \/ mem[p].admitting[x] # None
      BY <1>9, <2>1, NotNone DEF Ids
    <3>3. QED
      BY <1>9, <1>16, <3>1, <3>2
  <2>2. QED
    BY <1>10, <2>1, SteadyAfter, ZenonT(40) DEF Inv
<1>20. row' \in [Peer -> Row] /\ row'[p].group = g /\ \A x \in Peer \ {p} : row'[x] = row[x]
  BY <1>9, <1>10, SavedMind DEF Inv, Members
<1>21. Lasting
  <2>1. ASSUME NEW x \in Peer, NEW h \in Groups, founders[h] # x, Durable(x, h)
        PROVE  Durable(x, h)'
    <3>1. CASE x = p
      <4>1. row[p].group # h
        BY <1>4, <1>7, <2>1, <3>1 DEF Groups
      <4>2. QED
        BY <1>11, <1>20, <2>1, <3>1, <4>1 DEF Durable
    <3>2. CASE x # p
      BY <1>11, <1>20, <2>1, <3>2 DEF Durable
    <3>3. QED
      BY <3>1, <3>2
  <2>2. QED
    BY <2>1 DEF Lasting
<1>22. ASSUME NEW f \in Peer, Leads(f)', NEW x \in Listed(f)'
       PROVE  Leads(f) /\ mem'[f].group = mem[f].group /\ x \in Listed(f) /\ x \in Peer
  <2>1. f # p
    <3>1. mem'[p].group = g
      BY <1>9, <1>10 DEF Inv, Members
    <3>2. QED
      BY <1>1, <1>2, <1>6, <1>13, <1>22, <3>1 DEF Leads, Grows
  <2>2. mem'[f] = mem[f] /\ row'[f] = row[f]
    BY <1>10, <1>20, <2>1 DEF Inv, Members
  <2>3. Leads(f)
    BY <1>1, <1>12, <1>13, <1>22, <2>2 DEF Leads, Grows
  <2>4. x \in Listed(f)
    BY <1>22, <2>2 DEF Listed
  <2>5. x \in Peer
    <3>1. mem[f].members \cup row[f].members \subseteq Peer
      BY DEF Inv, Members, Minded, Row
    <3>2. \A y \in Peer : \A e \in log[y] : e.members \subseteq Peer
      BY DEF Inv, Logs, Events
    <3>3. QED
      BY <2>4, <3>1, <3>2 DEF Listed
  <2>6. QED
    BY <2>2, <2>3, <2>4, <2>5, SMTT(30)
<1>23. Founding'
  BY <1>13, <1>18, <1>21, <1>22, FoundingAfter DEF Inv
<1>24. Logs'
  BY <1>11, <1>13, <1>14, LogsUntouched DEF Inv
<1>25. PICK c \in Letter : c = Confirmation(r.session)
  <2>1. r.session \in Admission \X Nat
    BY <1>3 DEF Credentials, Sessions, Ids
  <2>2. QED
    BY <2>1 DEF Confirmation, Letter
<1>26. c \in Messages(p, q)'
  <2>1. r.session \in Sessions(q, p)'
    BY <1>3 DEF Credentials, Sessions, Ids
  <2>2. Joined(p, q, r.session[1])'
    <3>1. SUFFICES ASSUME Current(q, p, r.id)', mem'[q].group \notin past'.moved
                   PROVE  <<p, mem'[q].group>> \in past'.held /\ Durable(p, mem[q].group)'
      BY <1>6 DEF Joined
    <3>2. mem'[q] = mem[q]
      BY <1>2, <1>10, SMTT(30) DEF Inv, Members
    <3>3. mem[q].group = g
      BY <1>6, <1>13, <3>1, <3>2 DEF Current, Grows
    <3>4. QED
      BY <1>11, <1>20, <3>2, <3>3, SMTT(30) DEF Durable
  <2>3. QED
    BY <1>25, <2>1, <2>2, SMTT(30) DEF Messages, Confirmations, Confirmation
<1>27. /\ control' \in [Peer -> [Peer -> Seq(Letter)]] /\ \A a, b \in Peer : Proper(a, b)
       /\ \A a, b \in Peer : a \notin alive \/ b \notin alive => control'[a][b] = <<>>
  BY <1>1, <1>2, <1>10, <1>25, <1>26, ReplyProper, Zenon DEF Inv
<1>28. met' \subseteq {pair \in alive' \X alive' : pair[1] # pair[2]}
  BY <1>1 DEF Inv, Channel
<1>29. Channel'
  BY <1>1, <1>13, <1>14, <1>19, <1>21, <1>27, <1>28, ChannelAfter DEF Inv
<1>30. QED
  BY <1>14, <1>18, <1>23, <1>24, <1>29 DEF Inv

LEMMA OnJoinResponseInv ==
  ASSUME Inv, NEW p \in Peer, NEW q \in Peer, OnJoinResponse(p, q)
  PROVE  Inv'
<1>1. PICK r : r = Head(control[q][p])
  OBVIOUS
<1>2. Arrives(p, q, "response") /\ UNCHANGED <<issued, log, nextSeq>>
  BY DEF OnJoinResponse, disks
<1>3. \/ /\ Fails(p, [mem[p] EXCEPT !.handshake = None]) /\ control' = Taken(p, q) /\ UNCHANGED past
      \/ /\ mem[p].handshake # None /\ mem[p].handshake.inviter = q /\ mem[p].handshake.id = r.id
         /\ Ends(p, Agreed(mem[p], r.group, r.members, r.keys, r.key),
                 <<<<"put", r.key>>>>, Reply(p, q, Confirmation(r.session)))
         /\ Joining(p, r.group)
  BY <1>1 DEF OnJoinResponse, Agreed
<1>4. CASE /\ Fails(p, [mem[p] EXCEPT !.handshake = None]) /\ control' = Taken(p, q) /\ UNCHANGED past
  BY <1>2, <1>4, ResponseRefused
<1>5. CASE /\ mem[p].handshake # None /\ mem[p].handshake.inviter = q /\ mem[p].handshake.id = r.id
           /\ Ends(p, Agreed(mem[p], r.group, r.members, r.keys, r.key),
                   <<<<"put", r.key>>>>, Reply(p, q, Confirmation(r.session)))
           /\ Joining(p, r.group)
  BY <1>1, <1>2, <1>5, ResponseAgreed
<1>6. QED
  BY <1>3, <1>4, <1>5

-----------------------------------------------------------------------------
(* Out of a group, by a command of the user.                                *)
LEMMA LeftStep ==
  ASSUME Inv, NEW p \in alive, Ends(p, Left(mem[p]), <<<<"delete", 0>>>>, control'), Fault,
         UNCHANGED <<founders, chain, alive, issued>>,
         past' \in [held : SUBSET (Peer \X Nat), left : SUBSET (Peer \X Nat), cleared : SUBSET Peer,
                    moved : SUBSET Nat, lost : BOOLEAN],
         past'.held = past.held, past'.moved = past.moved,
         past'.left = past.left \cup {<<p, mem[p].group>>}, past.cleared \subseteq past'.cleared,
         met' \subseteq met, control' \in [Peer -> [Peer -> Seq(Letter)]],
         \A a, b \in Peer : Proper(a, b),
         \A a, b \in Peer : a \notin alive \/ b \notin alive => control'[a][b] = <<>>,
         log' \in [Peer -> SUBSET Events], \A q \in Peer : log'[q] \subseteq log[q],
         nextSeq' \in [Peer -> Nat \ {0}], \A q \in Peer : nextSeq'[q] <= issued.events + 1,
         \A q \in Peer : q \in past'.cleared \/ nextSeq[q] <= nextSeq'[q]
  PROVE  Inv'
<1>1. p \in Peer /\ mem[p] \in Minded /\ row[p].group = mem[p].group /\ mem \in [Peer -> Minded]
      /\ row \in [Peer -> Row] /\ Keeps(p, mem[p])
  BY DEF Inv, Counts, Members
<1>2. PICK m \in Minded : m = Left(mem[p])
  BY <1>1, LeftMind
<1>3. /\ m.group = 0 /\ m.members = {} /\ m.pin = 0 /\ m.keys = mem[p].keys /\ Idle(m)
  BY <1>2 DEF Left, Loaded, Outside, Idle
<1>4. /\ mem' = [mem EXCEPT ![p] = m] /\ row' = [row EXCEPT ![p] = Saved(m)]
      /\ orders' = [orders EXCEPT ![p] = @ \o <<<<"delete", 0>>>>]
  BY <1>2 DEF Ends
<1>5. Groups' = Groups /\ Order' = Order
  BY DEF Groups, Order
<1>6. Grows
  BY <1>5 DEF Grows, Inv, Counts
<1>7. Counts'
  <2>1. <<"delete", 0>> \in Order'
    BY <1>5 DEF Order
  <2>2. <<<<"delete", 0>>>> \in Seq(Order')
    BY <2>1, OneElement
  <2>3. orders' \in [Peer -> Seq(Order')] /\ \A q \in Peer \ alive' : orders'[q] = <<>>
    BY <1>4, <1>6, <2>2, OrdersLonger DEF Inv
  <2>4. faults' \in 0..MaxFaults
    BY FaultsBound DEF Inv
  <2>5. QED
    BY <1>5, <2>3, <2>4 DEF Inv, Counts
<1>8. Keeps(p, m)'
  <2>1. p \in m.keys /\ 0 <= issued'.pins
    BY <1>1, <1>3 DEF Keeps, Inv, Counts
  <2>2. QED
    BY <1>3, <2>1 DEF Keeps
<1>9. Minds(p, m)' /\ \A q \in Peer : Steady(q)
  BY <1>1, <1>3, <1>4, <1>5, IdleMinds DEF Inv
<1>10. Members'
  BY <1>1, <1>4, <1>6, <1>7, <1>8, <1>9, MembersAfter DEF Inv
<1>11. Saved(m) \in Row /\ Saved(m).group = 0 /\ Saved(m).members = {}
  BY <1>3, SavedMind
<1>12. Lasting
  <2>1. \A x \in Peer : row'[x].group = row[x].group \/ <<x, row[x].group>> \in past'.left
    BY <1>1, <1>4, <1>11
  <2>2. QED
    BY <2>1, LastingAfter
<1>13. \A f \in Peer :
         \/ mem'[f].group = 0
         \/ /\ mem'[f].group = mem[f].group
            /\ mem'[f].members \cup row'[f].members \subseteq mem[f].members \cup row[f].members
  BY <1>1, <1>3, <1>4
<1>14. Founding'
  BY <1>6, <1>10, <1>12, <1>13, FoundingStays DEF Inv
<1>15. Logs'
  BY <1>6, <1>7, LogsStay DEF Inv
<1>16. met' \subseteq {pair \in alive' \X alive' : pair[1] # pair[2]}
  BY DEF Inv, Channel
<1>17. Channel'
  BY <1>6, <1>7, <1>9, <1>12, <1>16, ChannelAfter DEF Inv
<1>18. QED
  BY <1>7, <1>10, <1>14, <1>15, <1>17 DEF Inv

LEMMA LeaveGroupInv ==
  ASSUME Inv, NEW p \in Peer, LeaveGroup(p)
  PROVE  Inv'
<1>1. /\ p \in alive /\ mem[p].group # 0 /\ Fault
      /\ Ends(p, Left(mem[p]), <<<<"delete", 0>>>>, control)
      /\ past' = [past EXCEPT !.left = @ \cup {<<p, mem[p].group>>}]
      /\ UNCHANGED <<founders, chain, alive, met, issued, log, nextSeq>>
  BY DEF LeaveGroup, Leaving, disks
<1>2. control' = control
  BY <1>1 DEF Ends
<1>3. Ends(p, Left(mem[p]), <<<<"delete", 0>>>>, control')
  BY <1>1, <1>2
<1>4. /\ past' \in [held : SUBSET (Peer \X Nat), left : SUBSET (Peer \X Nat), cleared : SUBSET Peer,
                    moved : SUBSET Nat, lost : BOOLEAN]
      /\ past'.held = past.held /\ past'.moved = past.moved
      /\ past'.left = past.left \cup {<<p, mem[p].group>>} /\ past'.cleared = past.cleared
  <2>1. <<p, mem[p].group>> \in Peer \X Nat
    BY DEF Inv, Members, Minded
  <2>2. QED
    BY <1>1, <2>1 DEF Inv, Counts
<1>5. /\ control' \in [Peer -> [Peer -> Seq(Letter)]] /\ \A a, b \in Peer : Proper(a, b)
      /\ \A a, b \in Peer : a \notin alive \/ b \notin alive => control'[a][b] = <<>>
  BY <1>2, SameProper DEF Inv
<1>6. /\ log' \in [Peer -> SUBSET Events] /\ \A q \in Peer : log'[q] \subseteq log[q]
      /\ nextSeq' \in [Peer -> Nat \ {0}]
      /\ \A q \in Peer : nextSeq'[q] <= issued.events + 1
      /\ \A q \in Peer : q \in past'.cleared \/ nextSeq[q] <= nextSeq'[q]
  BY <1>1 DEF Inv, Logs
<1>7. met' \subseteq met /\ past.cleared \subseteq past'.cleared
  BY <1>1, <1>4
<1>8. QED
  BY <1>1, <1>3, <1>4, <1>5, <1>6, <1>7, LeftStep

(* The log goes before the row; a death in between leaves the group.        *)
LEMMA ClearTripDataInv ==
  ASSUME Inv, NEW p \in Peer, ClearTripData(p)
  PROVE  Inv'
<1>1. /\ p \in alive /\ log' = [log EXCEPT ![p] = {}] /\ nextSeq' = [nextSeq EXCEPT ![p] = 1]
      /\ past' = [past EXCEPT !.left = @ \cup {<<p, mem[p].group>>}, !.cleared = @ \cup {p}, !.lost = TRUE]
      /\ UNCHANGED <<founders, issued>>
  BY DEF ClearTripData
<1>2. /\ past' \in [held : SUBSET (Peer \X Nat), left : SUBSET (Peer \X Nat), cleared : SUBSET Peer,
                    moved : SUBSET Nat, lost : BOOLEAN]
      /\ past'.held = past.held /\ past'.moved = past.moved
      /\ past'.left = past.left \cup {<<p, mem[p].group>>} /\ past'.cleared = past.cleared \cup {p}
  <2>1. <<p, mem[p].group>> \in Peer \X Nat
    BY DEF Inv, Members, Minded
  <2>2. QED
    BY <1>1, <2>1 DEF Inv, Counts
<1>3. /\ log' \in [Peer -> SUBSET Events] /\ \A q \in Peer : log'[q] \subseteq log[q]
      /\ nextSeq' \in [Peer -> Nat \ {0}]
      /\ \A q \in Peer : nextSeq'[q] <= issued.events + 1
      /\ \A q \in Peer : q \in past'.cleared \/ nextSeq[q] <= nextSeq'[q]
  <2>1. issued.events \in Nat
    BY DEF Inv, Counts
  <2>2. QED
    BY <1>1, <1>2, <2>1 DEF Inv, Logs
<1>4. CASE /\ Fault
           /\ Ends(p, Left(mem[p]), <<<<"delete", 0>>>>, Without(Channels(p)))
           /\ met' = met \ Channels(p)
           /\ UNCHANGED <<chain, alive>>
  <2>1. PICK pairs : pairs = Channels(p)
    OBVIOUS
  <2>2. control' = Without(pairs) /\ Ends(p, Left(mem[p]), <<<<"delete", 0>>>>, control')
    BY <1>4, <2>1 DEF Ends
  <2>3. /\ control' \in [Peer -> [Peer -> Seq(Letter)]]
        /\ \A a, b \in Peer : Proper(a, b) /\ (control[a][b] = <<>> => control'[a][b] = <<>>)
    BY <2>2, WithoutProper DEF Inv
  <2>4. \A a, b \in Peer : a \notin alive \/ b \notin alive => control'[a][b] = <<>>
    BY <2>3 DEF Inv, Channel
  <2>5. met' \subseteq met /\ past.cleared \subseteq past'.cleared
    BY <1>2, <1>4
  <2>6. QED
    BY <1>1, <1>2, <1>3, <1>4, <2>2, <2>3, <2>4, <2>5, LeftStep
<1>5. CASE Dies(p)
  <2>1. Grows
    BY <1>1, <1>2 DEF Grows, Groups, Inv, Counts
  <2>2. Counts'
    BY <1>1, <1>2, <1>5, DeathCounts DEF Inv, Counts
  <2>3. past.left \subseteq past'.left /\ past.cleared \subseteq past'.cleared
    BY <1>2
  <2>4. /\ Members' /\ Channel' /\ Lasting
        /\ \A f \in Peer : /\ mem'[f].group = mem[f].group
                           /\ mem'[f].members \cup row'[f].members \subseteq mem[f].members \cup row[f].members
    BY <1>1, <1>5, <2>1, <2>2, <2>3, Death DEF Inv
  <2>5. Founding'
    BY <1>3, <2>1, <2>4, FoundingStays DEF Inv
  <2>6. \A q \in Peer : nextSeq'[q] <= issued'.events + 1
    BY <1>1, <1>3
  <2>7. Logs'
    BY <1>3, <2>1, <2>2, <2>3, <2>6, LogsStay DEF Inv
  <2>8. QED
    BY <2>2, <2>4, <2>5, <2>7 DEF Inv
<1>6. QED
  BY <1>4, <1>5 DEF ClearTripData

-----------------------------------------------------------------------------
(* A new group, of which p is the only member; it invites whom it has met.  *)
NewMind(p) ==
  [[mem[p] EXCEPT !.group = Len(founders) + 1, !.members = {p}, !.pin = issued.pins + 1,
                  !.key = Len(founders) + 1]
     EXCEPT !.invited = [q \in Peer |-> IF q \in Met(p) THEN NewAdmission(p, q) ELSE @[q]]]

NewOffers(p) ==
  [control EXCEPT ![p] = [q \in Peer |->
     IF q \in Met(p) THEN Append(@[q], Invitation(NewAdmission(p, q))) ELSE @[q]]]

LEMMA NewMindParts ==
  ASSUME Counts, NEW p \in Peer, mem[p] \in Minded
  PROVE  \E n \in Minded :
           /\ n = NewMind(p) /\ n.group = Len(founders) + 1 /\ n.members = {p}
           /\ n.pin = issued.pins + 1 /\ n.keys = mem[p].keys /\ n.key = Len(founders) + 1
           /\ n.handshake = mem[p].handshake /\ n.admitting = mem[p].admitting
           /\ \A q \in Peer :
                n.invited[q] = IF q \in Met(p) THEN NewAdmission(p, q) ELSE mem[p].invited[q]
<1>1. \A q \in Peer : NewAdmission(p, q) \in Admission
  BY DEF Counts, NewAdmission, Admission
<1>2. Len(founders) + 1 \in Nat /\ issued.pins + 1 \in Nat
  BY LenProperties DEF Counts
<1>3. PICK o : o = mem[p]
  OBVIOUS
<1>4. PICK a : a = [o EXCEPT !.group = Len(founders) + 1, !.members = {p}, !.pin = issued.pins + 1,
                             !.key = Len(founders) + 1]
  OBVIOUS
<1>5. /\ a \in Minded /\ a.group = Len(founders) + 1 /\ a.members = {p} /\ a.pin = issued.pins + 1
      /\ a.keys = o.keys /\ a.key = Len(founders) + 1 /\ a.handshake = o.handshake
      /\ a.invited = o.invited /\ a.admitting = o.admitting
  BY <1>2, <1>3, <1>4 DEF Minded
<1>6. PICK f \in [Peer -> {None} \cup Admission] :
        f = [q \in Peer |-> IF q \in Met(p) THEN NewAdmission(p, q) ELSE o.invited[q]]
  BY <1>1, <1>3 DEF Minded
<1>7. PICK n : n = [a EXCEPT !.invited = f]
  OBVIOUS
<1>8. n = NewMind(p)
  BY <1>3, <1>4, <1>5, <1>6, <1>7 DEF NewMind
<1>9. /\ n \in Minded /\ n.group = a.group /\ n.members = a.members /\ n.pin = a.pin
      /\ n.keys = a.keys /\ n.key = a.key /\ n.handshake = a.handshake
      /\ n.admitting = a.admitting /\ n.invited = f
  BY <1>5, <1>6, <1>7 DEF Minded
<1>10. QED
  BY <1>3, <1>5, <1>6, <1>8, <1>9

LEMMA NewOffersParts ==
  ASSUME Counts, Channel, NEW p \in Peer
  PROVE  /\ NewOffers(p) \in [Peer -> [Peer -> Seq(Letter)]]
         /\ \A a, b \in Peer :
              NewOffers(p)[a][b] = IF a = p /\ b \in Met(p)
                                   THEN Append(control[p][b], Invitation(NewAdmission(p, b)))
                                   ELSE control[a][b]
<1>1. control \in [Peer -> [Peer -> Seq(Letter)]]
  BY DEF Channel
<1>2. \A b \in Peer : Invitation(NewAdmission(p, b)) \in Letter
  BY InvitationLetter
<1>3. ASSUME NEW b \in Peer
      PROVE  Append(control[p][b], Invitation(NewAdmission(p, b))) \in Seq(Letter)
  <2>1. PICK k \in Letter : k = Invitation(NewAdmission(p, b))
    BY <1>2
  <2>2. Append(control[p][b], k) \in Seq(Letter)
    BY <1>1, AppendProperties
  <2>3. QED
    BY <2>1, <2>2
<1>4. QED
  BY <1>1, <1>3 DEF NewOffers

LEMMA CreateGroupInv ==
  ASSUME Inv, NEW p \in Peer, CreateGroup(p)
  PROVE  Inv'
<1>1. PICK g : g = Len(founders) + 1
  OBVIOUS
<1>2. /\ p \in alive /\ p \in Founder /\ mem[p].group = 0 /\ founders' = Append(founders, p)
      /\ Ends(p, NewMind(p), <<<<"put", g>>>>, NewOffers(p))
      /\ past' = [past EXCEPT !.held = @ \cup {<<p, g>>}]
      /\ issued' = [issued EXCEPT !.admissions = @ + 1, !.pins = @ + 1]
      /\ UNCHANGED <<chain, alive, met, faults, log, nextSeq>>
  <2>1. PICK h \in {Len(founders) + 1} :
          \E m \in {[mem[p] EXCEPT !.group = h, !.members = {p}, !.pin = issued.pins + 1, !.key = h]} :
            /\ Ends(p, [m EXCEPT !.invited = [q \in Peer |->
                          IF q \in Met(p) THEN NewAdmission(p, q) ELSE @[q]]],
                    <<<<"put", h>>>>, NewOffers(p))
            /\ past' = [past EXCEPT !.held = @ \cup {<<p, h>>}]
    BY Zenon DEF CreateGroup, NewOffers
  <2>2. h = g
    BY <1>1, <2>1
  <2>3. PICK m :
          /\ m = [mem[p] EXCEPT !.group = g, !.members = {p}, !.pin = issued.pins + 1, !.key = g]
          /\ Ends(p, [m EXCEPT !.invited = [q \in Peer |->
                        IF q \in Met(p) THEN NewAdmission(p, q) ELSE @[q]]],
                  <<<<"put", g>>>>, NewOffers(p))
          /\ past' = [past EXCEPT !.held = @ \cup {<<p, g>>}]
    BY <2>1, <2>2
  <2>4. [m EXCEPT !.invited = [q \in Peer |-> IF q \in Met(p) THEN NewAdmission(p, q) ELSE @[q]]]
          = NewMind(p)
    BY <1>1, <2>3, Zenon DEF NewMind
  <2>5. Ends(p, NewMind(p), <<<<"put", g>>>>, NewOffers(p))
    BY <2>3, <2>4
  <2>6. /\ p \in alive /\ p \in Founder /\ mem[p].group = 0 /\ founders' = Append(founders, p)
        /\ issued' = [issued EXCEPT !.admissions = @ + 1, !.pins = @ + 1]
        /\ UNCHANGED <<chain, alive, met, faults, log, nextSeq>>
    BY DEF CreateGroup, disks
  <2>7. QED
    BY <2>3, <2>5, <2>6
<1>3. /\ mem \in [Peer -> Minded] /\ Minds(p, mem[p]) /\ Keeps(p, mem[p]) /\ row \in [Peer -> Row]
      /\ row[p].group = 0
  BY <1>2 DEF Inv, Members
<1>4. /\ g \in Nat /\ g # 0 /\ g \notin Groups /\ Groups' = Groups \cup {g} /\ 0 \notin Groups
      /\ founders' \in Seq(Founder) /\ founders'[g] = p /\ \A h \in Groups : founders'[h] = founders[h]
  <2>1. founders \in Seq(Founder)
    BY DEF Inv, Counts
  <2>2. /\ founders' \in Seq(Founder) /\ Len(founders') = Len(founders) + 1
        /\ founders'[Len(founders) + 1] = p
        /\ \A h \in 1..Len(founders) : founders'[h] = founders[h]
    BY <1>2, <2>1, AppendProperties
  <2>3. Len(founders) \in Nat
    BY <2>1, LenProperties
  <2>4. QED
    BY <1>1, <2>2, <2>3 DEF Groups
<1>5. PICK m \in Minded :
        /\ m = NewMind(p) /\ m.group = g /\ m.members = {p}
        /\ m.pin = issued.pins + 1 /\ m.keys = mem[p].keys /\ m.key = g
        /\ m.handshake = mem[p].handshake /\ m.admitting = mem[p].admitting
        /\ \A q \in Peer :
             m.invited[q] = IF q \in Met(p) THEN NewAdmission(p, q) ELSE mem[p].invited[q]
  BY <1>1, <1>3, NewMindParts DEF Inv
<1>6. /\ mem' = [mem EXCEPT ![p] = m] /\ row' = [row EXCEPT ![p] = Saved(m)]
      /\ orders' = [orders EXCEPT ![p] = @ \o <<<<"put", g>>>>] /\ control' = NewOffers(p)
  BY <1>2, <1>5 DEF Ends
<1>7. /\ past' \in [held : SUBSET (Peer \X Nat), left : SUBSET (Peer \X Nat), cleared : SUBSET Peer,
                    moved : SUBSET Nat, lost : BOOLEAN]
      /\ past'.held = past.held \cup {<<p, g>>} /\ past'.left = past.left
      /\ past'.cleared = past.cleared /\ past'.moved = past.moved
  <2>1. <<p, g>> \in Peer \X Nat
    BY <1>4
  <2>2. QED
    BY <1>2, <2>1 DEF Inv, Counts
<1>8. /\ issued' \in [admissions : Nat, pins : Nat, events : Nat, notes : Nat]
      /\ issued'.admissions = issued.admissions + 1 /\ issued'.pins = issued.pins + 1
      /\ issued'.events = issued.events
      /\ issued.admissions \in Nat /\ issued.pins \in Nat /\ issued.events \in Nat
  <2>1. issued \in [admissions : Nat, pins : Nat, events : Nat, notes : Nat]
    BY DEF Inv, Counts
  <2>2. PICK i : i = [issued EXCEPT !.admissions = @ + 1]
    OBVIOUS
  <2>3. /\ i \in [admissions : Nat, pins : Nat, events : Nat, notes : Nat]
        /\ i.admissions = issued.admissions + 1 /\ i.pins = issued.pins /\ i.events = issued.events
    BY <2>1, <2>2
  <2>4. issued' = [i EXCEPT !.pins = issued.pins + 1]
    BY <1>2, <2>2
  <2>5. QED
    BY <2>1, <2>3, <2>4
<1>9. Grows
  BY <1>4, <1>7, <1>8 DEF Grows
<1>10. Counts'
  <2>1. <<"put", g>> \in Order'
    BY <1>4 DEF Order
  <2>2. <<<<"put", g>>>> \in Seq(Order')
    BY <2>1, OneElement
  <2>3. orders' \in [Peer -> Seq(Order')] /\ \A q \in Peer \ alive' : orders'[q] = <<>>
    BY <1>2, <1>6, <1>9, <2>2, OrdersLonger DEF Inv
  <2>4. chain' \in [Peer -> (Groups \cup {0})']
    BY <1>2, <1>4 DEF Inv, Counts
  <2>5. QED
    BY <1>2, <1>4, <1>7, <1>8, <2>3, <2>4 DEF Inv, Counts
<1>11. Met(p) \subseteq {q \in alive : q # p}
  BY DEF Met, Inv, Channel
<1>12. ASSUME NEW q \in Met(p)
       PROVE  NewAdmission(p, q) \in Ids(p, q)' /\ NewAdmission(p, q) \notin Ids(p, q)
  <2>1. q \in Peer /\ p # q
    BY <1>11 DEF Met
  <2>2. QED
    BY <1>8, <2>1 DEF Ids, NewAdmission, Admission
<1>13. \A q \in Peer : mem[p].invited[q] = None /\ mem[p].admitting[q] = None
  BY <1>2, <1>3, <1>4 DEF Minds, Hosts
<1>14. Keeps(p, m)'
  <2>1. p \in m.keys /\ m.keys \subseteq Peer
    BY <1>3, <1>5 DEF Keeps, Minded
  <2>2. Lists(m.group, m.members, m.keys)'
    BY <1>4, <1>5, <2>1 DEF Lists
  <2>3. Sound(m.group, m.members)' /\ <<p, m.group>> \in past'.held
    BY <1>5, <1>7 DEF Sound
  <2>4. m.pin <= issued'.pins /\ Hosts(p, m.group)'
    BY <1>4, <1>5, <1>8 DEF Hosts
  <2>5. QED
    BY <2>1, <2>2, <2>3, <2>4 DEF Keeps
<1>15. Minds(p, m)'
  <2>1. m.handshake # None =>
          m.handshake.id \in Ids(m.handshake.inviter, p)' /\ founders'[m.group] = p
    <3>1. \A a : Ids(a, p) \subseteq Ids(a, p)'
      BY <1>9, <1>10, IdsStay DEF Inv
    <3>2. QED
      BY <1>3, <1>4, <1>5, <3>1 DEF Minds
  <2>2. ASSUME NEW q \in Peer
        PROVE  /\ m.invited[q] # None => m.invited[q] \in Ids(p, q)' /\ Hosts(p, m.group)'
               /\ m.admitting[q] # None => m.admitting[q] \in Sessions(p, q)' /\ Hosts(p, m.group)'
    <3>1. Hosts(p, m.group)'
      BY <1>4, <1>5 DEF Hosts
    <3>2. QED
      BY <1>5, <1>12, <1>13, <3>1
  <2>3. m.key \in Groups'
    BY <1>4, <1>5
  <2>4. QED
    BY <2>1, <2>2, <2>3 DEF Minds
<1>16. Members'
  BY <1>6, <1>9, <1>10, <1>14, <1>15, MembersAfter DEF Inv
<1>17. \A q \in Peer : Steady(q)
  <2>1. ASSUME NEW q \in Peer, NEW id \in Ids(p, q)
        PROVE  id # m.invited[q] /\ \A pin : m.admitting[q] # Session(id, pin)
    <3>1. id # None /\ \A pin : Session(id, pin) # None
      BY NotNone DEF Ids
    <3>2. QED
      BY <1>5, <1>12, <1>13, <3>1
  <2>2. \A q \in Peer : \A id \in Ids(p, q) :
          id = m.invited[q] \/ (\E pin \in Nat : m.admitting[q] = Session(id, pin)) =>
            Current(p, q, id) /\ (m.group = mem[p].group \/ m.group \in past'.moved)
    BY <2>1
  <2>3. QED
    BY <1>6, <2>2, SteadyAfter DEF Inv
<1>18. row' \in [Peer -> Row] /\ row'[p].group = g /\ row'[p].members = {p}
       /\ \A q \in Peer \ {p} : row'[q] = row[q]
  BY <1>3, <1>5, <1>6, SavedMind
<1>19. Lasting
  BY <1>3, <1>4, <1>7, <1>18 DEF Lasting, Durable
<1>20. Logs'
  BY <1>2, <1>7, <1>9, <1>10, LogsUntouched DEF Inv
<1>21. ASSUME NEW f \in Peer, Leads(f)', NEW x \in Listed(f)'
       PROVE  \/ Durable(x, mem[f].group)'
              \/ Leads(f) /\ mem'[f].group = mem[f].group /\ x \in Listed(f) /\ x \in Peer
  <2>1. CASE f = p
    <3>1. mem'[f] = m
      BY <1>3, <1>6, <2>1
    <3>2. \A q \in Peer : \A e \in log[q] : e.group # g
      BY <1>4 DEF Inv, Logs, Publication
    <3>3. x = p
      BY <1>2, <1>5, <1>18, <1>21, <2>1, <3>1, <3>2 DEF Listed
    <3>4. QED
      BY <1>5, <1>18, <2>1, <3>1, <3>3 DEF Durable
  <2>2. CASE f # p
    <3>1. mem'[f] = mem[f] /\ row'[f] = row[f]
      BY <1>3, <1>6, <1>18, <2>2
    <3>2. mem[f].group \in Groups
      <4>1. mem[f].group = 0 \/ mem[f].group \in Groups
        BY GroupKnown DEF Inv, Members
      <4>2. QED
        BY <1>4, <1>21, <3>1, <4>1 DEF Leads
    <3>3. Leads(f)
      BY <1>4, <1>7, <1>21, <3>1, <3>2 DEF Leads
    <3>4. x \in Listed(f)
      BY <1>2, <1>21, <3>1 DEF Listed
    <3>5. x \in Peer
      <4>1. mem[f].members \cup row[f].members \subseteq Peer
        BY <1>3 DEF Minded, Row
      <4>2. \A y \in Peer : \A e \in log[y] : e.members \subseteq Peer
        BY DEF Inv, Logs, Events
      <4>3. QED
        BY <3>4, <4>1, <4>2 DEF Listed
    <3>6. QED
      BY <3>1, <3>3, <3>4, <3>5
  <2>3. QED
    BY <2>1, <2>2
<1>22. Founding'
  BY <1>9, <1>16, <1>19, <1>21, FoundingAfter DEF Inv
<1>23. ASSUME NEW a \in Peer, NEW b \in Peer
       PROVE  Proper(a, b) /\ (a \notin alive' \/ b \notin alive' => control'[a][b] = <<>>)
  <2>1. CASE a = p /\ b \in Met(p)
    <3>1. PICK k \in Letter : k = Invitation(NewAdmission(p, b))
      BY InvitationLetter DEF Inv
    <3>2. k \in Messages(p, b)'
      BY <1>12, <2>1, <3>1 DEF Messages, Invitations, Invitation
    <3>3. control'[a][b] = Append(control[a][b], k)
      BY <1>6, <2>1, <3>1, NewOffersParts DEF Inv
    <3>4. QED
      BY <1>2, <1>11, <2>1, <3>2, <3>3 DEF Proper, Rest
  <2>2. CASE ~(a = p /\ b \in Met(p))
    <3>1. control'[a][b] = control[a][b]
      BY <1>6, <2>2, NewOffersParts DEF Inv
    <3>2. QED
      BY <1>2, <3>1 DEF Proper, Rest, Inv, Channel
  <2>3. QED
    BY <2>1, <2>2
<1>24. control' \in [Peer -> [Peer -> Seq(Letter)]]
  BY <1>6, NewOffersParts DEF Inv
<1>25. met' \subseteq {pair \in alive' \X alive' : pair[1] # pair[2]}
  BY <1>2 DEF Inv, Channel
<1>26. Channel'
  BY <1>9, <1>10, <1>17, <1>19, <1>23, <1>24, <1>25, ChannelAfter DEF Inv
<1>27. QED
  BY <1>10, <1>16, <1>20, <1>22, <1>26 DEF Inv

-----------------------------------------------------------------------------
(* New names on the lists of g: what they need for Founding to hold on.     *)
Widened(g, new) ==
  \A f \in Peer :
    /\ mem'[f].group = mem[f].group
    /\ \A x \in mem'[f].members \cup row'[f].members :
         x \in Listed(f) \/ (mem[f].group = g /\ x \in new)

LEMMA FoundingGrows ==
  ASSUME Counts, Members, Members', Logs, Founding, Grows, Lasting, NEW g, NEW new \in SUBSET Peer,
         Widened(g, new),
         \A p \in Peer : \A e \in log'[p] :
           (\E q \in Peer : e \in log[q]) \/ (e.group = g /\ e.members \subseteq new),
         \A f \in Peer : Leads(f) /\ mem[f].group = g => \A x \in new : x \in Listed(f) \/ Durable(x, g)'
  PROVE  Founding'
<1>1. ASSUME NEW f \in Peer, Leads(f)', NEW x \in Listed(f)'
      PROVE  \/ Durable(x, mem[f].group)'
             \/ Leads(f) /\ mem'[f].group = mem[f].group /\ x \in Listed(f) /\ x \in Peer
  <2>1. mem'[f].group = mem[f].group /\ mem[f].group # 0
    BY <1>1 DEF Leads, Groups, Widened
  <2>2. mem[f].group \in Groups
    BY <2>1, GroupKnown DEF Members
  <2>3. Leads(f)
    BY <1>1, <2>1, <2>2 DEF Leads, Grows
  <2>4. x \in Listed(f) \/ (mem[f].group = g /\ x \in new)
    <3>1. CASE x \in mem'[f].members \cup row'[f].members
      BY <3>1 DEF Widened
    <3>2. CASE \E p \in Peer : \E e \in log'[p] : e.group = mem'[f].group /\ x \in e.members
      <4>1. PICK p \in Peer : \E e \in log'[p] : e.group = mem'[f].group /\ x \in e.members
        BY <3>2
      <4>2. PICK e \in log'[p] : e.group = mem'[f].group /\ x \in e.members
        BY <4>1
      <4>3. CASE \E q \in Peer : e \in log[q]
        BY <2>1, <4>2, <4>3 DEF Listed
      <4>4. CASE e.group = g /\ e.members \subseteq new
        BY <2>1, <4>2, <4>4
      <4>5. QED
        BY <4>3, <4>4
    <3>3. QED
      BY <1>1, <3>1, <3>2 DEF Listed
  <2>5. Listed(f) \subseteq Peer
    <3>1. mem[f].members \cup row[f].members \subseteq Peer
      BY DEF Members, Minded, Row
    <3>2. \A p \in Peer : \A e \in log[p] : e.members \subseteq Peer
      BY DEF Logs, Events
    <3>3. QED
      BY <3>1, <3>2 DEF Listed
  <2>6. CASE x \in Listed(f)
    BY <2>1, <2>3, <2>5, <2>6
  <2>7. CASE mem[f].group = g /\ x \in new /\ x \notin Listed(f)
    <3>1. Durable(x, g)'
      BY <2>3, <2>7
    <3>2. QED
      BY <2>1, <2>7, <3>1 DEF Durable
  <2>8. QED
    BY <2>4, <2>6, <2>7
<1>2. QED
  BY <1>1, FoundingAfter

(* A new event on the log of p, for its own group.                          *)
LEMMA LogsPublished ==
  ASSUME Counts, Counts', Grows, Members, Logs, NEW p \in Peer,
         NEW g, g = mem[p].group, g # 0, NEW members \in SUBSET Peer, NEW keys \in SUBSET Peer,
         Published(p, g, members, keys), issued'.events = issued.events + 1,
         members # {} => Lists(g, members, keys)' /\ Sound(g, members)',
         past.cleared \subseteq past'.cleared
  PROVE  Logs'
<1>1. PICK new : new = Event(p, g, members, keys)
  OBVIOUS
<1>2. /\ log \in [Peer -> SUBSET Events] /\ nextSeq \in [Peer -> Nat \ {0}] /\ issued.events \in Nat
      /\ \A a \in Peer : nextSeq[a] <= issued.events + 1
  BY DEF Logs, Counts
<1>3. g \in Groups /\ g \in Nat /\ <<p, g>> \in past.held
  <2>1. Keeps(p, mem[p])
    BY DEF Members
  <2>2. QED
    BY <2>1 DEF Keeps, Lists, Groups
<1>4. /\ new.id = issued.events + 1 /\ new.sender = p /\ new.seq = nextSeq[p] /\ new.group = g
      /\ new.members = members /\ new.keys = keys /\ new \in Events
  BY <1>1, <1>2, <1>3 DEF Event, Events
<1>5. /\ log' = [log EXCEPT ![p] = @ \cup {new}] /\ nextSeq' = [nextSeq EXCEPT ![p] = @ + 1]
  BY <1>1 DEF Published
<1>6. /\ log' \in [Peer -> SUBSET Events] /\ nextSeq' \in [Peer -> Nat \ {0}]
      /\ \A a \in Peer : nextSeq[a] <= nextSeq'[a] /\ nextSeq'[a] <= issued'.events + 1
      /\ nextSeq'[p] = nextSeq[p] + 1
      /\ \A a \in Peer : log'[a] \subseteq log[a] \cup {new} /\ (a # p => log'[a] = log[a])
  BY <1>2, <1>4, <1>5
<1>7. ASSUME NEW a \in Peer, NEW e \in log'[a]
      PROVE  Publication(e)'
  <2>1. CASE e = new
    <3>1. e.id \in 1..issued'.events /\ e.group \in Groups'
      BY <1>2, <1>3, <1>4, <2>1 DEF Grows
    <3>2. e.members # {} => Lists(e.group, e.members, e.keys)' /\ Sound(e.group, e.members)'
      BY <1>4, <2>1
    <3>3. e.seq < nextSeq'[e.sender]
      BY <1>2, <1>4, <1>6, <2>1
    <3>4. QED
      BY <3>1, <3>2, <3>3 DEF Publication
  <2>2. CASE e \in log[a]
    <3>1. Publication(e) /\ e \in Events
      BY <2>2 DEF Logs
    <3>2. e.members # {} => Lists(e.group, e.members, e.keys)' /\ Sound(e.group, e.members)'
      BY <3>1, ListsStay, SoundStays DEF Publication
    <3>3. e.sender \in past'.cleared \/ e.seq < nextSeq'[e.sender]
      <4>1. e.sender \in Peer /\ e.seq \in Nat
        BY <3>1 DEF Events
      <4>2. nextSeq[e.sender] <= nextSeq'[e.sender] /\ nextSeq[e.sender] \in Nat /\ nextSeq'[e.sender] \in Nat
        BY <1>2, <1>6, <4>1
      <4>3. QED
        BY <3>1, <4>1, <4>2 DEF Publication
    <3>4. e.id \in 1..issued'.events /\ e.group \in Groups'
      BY <1>2, <3>1 DEF Publication, Grows
    <3>5. QED
      BY <3>2, <3>3, <3>4 DEF Publication
  <2>3. QED
    BY <1>6, <1>7, <2>1, <2>2
<1>8. \A a \in Peer : \A e \in log[a] : Slot(e) = Slot(new) => p \in past.cleared
  <2>1. SUFFICES ASSUME NEW a \in Peer, NEW e \in log[a], Slot(e) = Slot(new),
                        p \notin past.cleared
                 PROVE  FALSE
    OBVIOUS
  <2>2. e.sender = p /\ e.seq = nextSeq[p]
    BY <1>4, <2>1 DEF Slot
  <2>3. Publication(e)
    BY DEF Logs
  <2>4. QED
    BY <1>2, <2>1, <2>2, <2>3 DEF Publication
<1>9. SlotsAgree'
  <2>1. SUFFICES ASSUME NEW a \in Peer, NEW b \in Peer, NEW e \in log'[a], NEW f \in log'[b],
                        Slot(e) = Slot(f), e # f
                 PROVE  e.sender \in past'.cleared
    BY DEF SlotsAgree, Slot
  <2>2. e.sender = f.sender
    BY <2>1 DEF Slot
  <2>3. CASE e = new
    BY <1>4, <1>6, <1>8, <2>1, <2>3
  <2>4. CASE f = new
    BY <1>4, <1>6, <1>8, <2>1, <2>2, <2>4
  <2>5. CASE e # new /\ f # new
    BY <1>6, <2>1, <2>5 DEF Logs, LogsKeepApart, SlotsAgree
  <2>6. QED
    BY <2>3, <2>4, <2>5
<1>10. OnlyMembersHold'
  <2>1. SUFFICES ASSUME NEW a \in Peer, NEW e \in log'[a]
                 PROVE  <<a, e.group>> \in past'.held
    BY DEF OnlyMembersHold
  <2>2. CASE e \in log[a]
    BY <2>2 DEF Logs, LogsKeepApart, OnlyMembersHold, Grows
  <2>3. CASE e = new /\ a = p
    BY <1>3, <1>4, <2>3 DEF Grows
  <2>4. QED
    BY <1>6, <2>1, <2>2, <2>3
<1>11. QED
  BY <1>6, <1>7, <1>9, <1>10 DEF Logs, LogsKeepApart

LEMMA PublishNoteInv ==
  ASSUME Inv, NEW p \in Peer, PublishNote(p)
  PROVE  Inv'
<1>1. /\ p \in alive /\ mem[p].group # 0 /\ Published(p, mem[p].group, {}, {})
      /\ issued' = [issued EXCEPT !.notes = @ + 1, !.events = @ + 1]
      /\ UNCHANGED <<founders, mem, row, chain, orders, alive, met, control, faults, past>>
  BY DEF PublishNote
<1>2. issued \in [admissions : Nat, pins : Nat, events : Nat, notes : Nat]
  BY DEF Inv, Counts
<1>3. /\ issued' \in [admissions : Nat, pins : Nat, events : Nat, notes : Nat]
      /\ issued'.admissions = issued.admissions /\ issued'.pins = issued.pins
      /\ issued'.events = issued.events + 1
  <2>1. PICK i : i = [issued EXCEPT !.notes = @ + 1]
    OBVIOUS
  <2>2. /\ i \in [admissions : Nat, pins : Nat, events : Nat, notes : Nat]
        /\ i.admissions = issued.admissions /\ i.pins = issued.pins /\ i.events = issued.events
    BY <1>2, <2>1
  <2>3. issued' = [i EXCEPT !.events = issued.events + 1]
    BY <1>1, <2>1
  <2>4. QED
    BY <1>2, <2>2, <2>3
<1>4. Groups' = Groups /\ Order' = Order
  BY <1>1 DEF Groups, Order
<1>5. Counts'
  BY <1>1, <1>3, <1>4 DEF Inv, Counts
<1>6. Grows
  BY <1>1, <1>2, <1>3, <1>4 DEF Grows
<1>7. Members'
  BY <1>1, <1>5, <1>6, MembersStay DEF Inv
<1>8. \A x \in Peer : Steady(x)
  BY <1>1, SteadyStays
<1>9. Lasting
  BY <1>1, LastingAfter
<1>10. PICK g : g = mem[p].group
  OBVIOUS
<1>11. Logs'
  BY <1>1, <1>3, <1>5, <1>6, <1>10, LogsPublished DEF Inv
<1>12. PICK new : new = Event(p, g, {}, {})
  OBVIOUS
<1>13. new.group = g /\ new.members = {} /\ log' = [log EXCEPT ![p] = @ \cup {new}]
  BY <1>1, <1>10, <1>12 DEF Event, Published
<1>14. PICK none \in SUBSET Peer : none = {}
  OBVIOUS
<1>15. \A a \in Peer : \A e \in log'[a] :
         (\E q \in Peer : e \in log[q]) \/ (e.group = g /\ e.members \subseteq none)
  BY <1>13, <1>14 DEF Inv, Logs
<1>16. Widened(g, none)
  BY <1>1 DEF Listed, Widened
<1>17. \A f \in Peer : Leads(f) /\ mem[f].group = g => \A x \in none : x \in Listed(f) \/ Durable(x, g)'
  BY <1>14
<1>18. Counts /\ Members /\ Logs /\ Founding
  BY DEF Inv
<1>19. Founding'
  BY <1>5, <1>6, <1>7, <1>9, <1>15, <1>16, <1>17, <1>18, FoundingGrows
<1>20. /\ control' \in [Peer -> [Peer -> Seq(Letter)]] /\ \A a, b \in Peer : Proper(a, b)
       /\ \A a, b \in Peer : a \notin alive' \/ b \notin alive' => control'[a][b] = <<>>
  BY <1>1, SameProper DEF Inv
<1>21. met' \subseteq {pair \in alive' \X alive' : pair[1] # pair[2]}
  BY <1>1 DEF Inv, Channel
<1>22. Channel'
  BY <1>5, <1>6, <1>8, <1>9, <1>20, <1>21, ChannelAfter DEF Inv
<1>23. QED
  BY <1>5, <1>7, <1>11, <1>19, <1>22 DEF Inv

-----------------------------------------------------------------------------
(* The owner lists a joiner that has confirmed.                             *)
Unasked(p, q) == [mem[p] EXCEPT !.invited[q] = None, !.admitting[q] = None]
Confirmed(p, q) == [Listing(Unasked(p, q), q) EXCEPT !.pin = issued.pins + 1]

LEMMA UnaskedParts ==
  ASSUME NEW p \in Peer, NEW q \in Peer, mem[p] \in Minded
  PROVE  \E m \in Minded :
           /\ m = Unasked(p, q)
           /\ m.group = mem[p].group /\ m.members = mem[p].members /\ m.pin = mem[p].pin
           /\ m.keys = mem[p].keys /\ m.key = mem[p].key /\ m.handshake = mem[p].handshake
           /\ m.invited[q] = None /\ m.admitting[q] = None
           /\ \A r \in Peer \ {q} : m.invited[r] = mem[p].invited[r] /\ m.admitting[r] = mem[p].admitting[r]
<1>1. PICK o \in Minded : o = mem[p]
  OBVIOUS
<1>2. PICK a : a = [o EXCEPT !.invited[q] = None]
  OBVIOUS
<1>3. /\ a \in Minded /\ a.group = o.group /\ a.members = o.members /\ a.pin = o.pin
      /\ a.keys = o.keys /\ a.key = o.key /\ a.handshake = o.handshake /\ a.admitting = o.admitting
      /\ a.invited[q] = None /\ \A r \in Peer \ {q} : a.invited[r] = o.invited[r]
  BY <1>2 DEF Minded
<1>4. PICK m : m = [a EXCEPT !.admitting[q] = None]
  OBVIOUS
<1>5. /\ m \in Minded /\ m.group = a.group /\ m.members = a.members /\ m.pin = a.pin
      /\ m.keys = a.keys /\ m.key = a.key /\ m.handshake = a.handshake /\ m.invited = a.invited
      /\ m.admitting[q] = None /\ \A r \in Peer \ {q} : m.admitting[r] = a.admitting[r]
  BY <1>3, <1>4 DEF Minded
<1>6. m = Unasked(p, q)
  BY <1>1, <1>2, <1>4 DEF Unasked
<1>7. QED
  BY <1>1, <1>3, <1>5, <1>6

Admits(p, q, m) ==
  /\ m.group = mem[p].group /\ m.members = mem[p].members \cup {q} /\ m.pin = issued.pins + 1
  /\ m.keys = mem[p].keys \cup {q} /\ m.key = mem[p].key /\ m.handshake = mem[p].handshake
  /\ m.invited[q] = None /\ m.admitting[q] = None
  /\ \A r \in Peer \ {q} : m.invited[r] = mem[p].invited[r] /\ m.admitting[r] = mem[p].admitting[r]

LEMMA ConfirmedParts ==
  ASSUME Counts, NEW p \in Peer, NEW q \in Peer, mem[p] \in Minded
  PROVE  \E m \in Minded :
           m = Confirmed(p, q) /\ Admits(p, q, m)
<1>1. PICK o \in Minded :
        /\ o = Unasked(p, q)
        /\ o.group = mem[p].group /\ o.members = mem[p].members /\ o.pin = mem[p].pin
        /\ o.keys = mem[p].keys /\ o.key = mem[p].key /\ o.handshake = mem[p].handshake
        /\ o.invited[q] = None /\ o.admitting[q] = None
        /\ \A r \in Peer \ {q} : o.invited[r] = mem[p].invited[r] /\ o.admitting[r] = mem[p].admitting[r]
  BY UnaskedParts
<1>2. PICK a : a = Listing(o, q)
  OBVIOUS
<1>3. /\ a \in Minded /\ a.group = o.group /\ a.members = o.members \cup {q} /\ a.pin = o.pin
      /\ a.keys = o.keys \cup {q} /\ a.key = o.key /\ a.handshake = o.handshake
      /\ a.admitting = o.admitting /\ a.invited = o.invited
  <2>1. PICK b : b = [o EXCEPT !.members = @ \cup {q}]
    OBVIOUS
  <2>2. /\ b \in Minded /\ b.group = o.group /\ b.members = o.members \cup {q} /\ b.pin = o.pin
        /\ b.keys = o.keys /\ b.key = o.key /\ b.handshake = o.handshake
        /\ b.admitting = o.admitting /\ b.invited = o.invited
    BY <2>1 DEF Minded
  <2>3. a = [b EXCEPT !.keys = b.keys \cup {q}]
    BY <1>2, <2>1, <2>2 DEF Listing
  <2>4. QED
    BY <2>2, <2>3 DEF Minded
<1>4. PICK m : m = [a EXCEPT !.pin = issued.pins + 1]
  OBVIOUS
<1>5. /\ m \in Minded /\ m.group = a.group /\ m.members = a.members /\ m.pin = issued.pins + 1
      /\ m.keys = a.keys /\ m.key = a.key /\ m.handshake = a.handshake /\ m.invited = a.invited
      /\ m.admitting = a.admitting
  <2>1. issued.pins + 1 \in Nat
    BY DEF Counts
  <2>2. QED
    BY <1>3, <1>4, <2>1 DEF Minded
<1>6. m = Confirmed(p, q)
  BY <1>1, <1>2, <1>4 DEF Confirmed
<1>7. Admits(p, q, m)
  BY <1>1, <1>3, <1>5 DEF Admits
<1>8. QED
  BY <1>5, <1>6, <1>7

(* The one who confirmed holds the group, on disk if p founded it.          *)
LEMMA ConfirmedHolds ==
  ASSUME Inv, NEW p \in Peer, NEW q \in Peer, control[q][p] # <<>>,
         NEW k, k = Head(control[q][p]), k.type = "confirmation",
         mem[p].admitting[q] = k.session
  PROVE  /\ p \in alive /\ p # q /\ Hosts(p, mem[p].group)
         /\ mem[p].group \notin past.moved =>
              <<q, mem[p].group>> \in past.held /\ Durable(q, mem[p].group)
<1>1. p \in alive /\ p # q /\ k \in Confirmations(q, p)
  BY ArrivedMessage DEF Inv
<1>2. k.session \in Sessions(p, q) /\ Joined(q, p, k.session[1])
  BY <1>1 DEF Confirmations
<1>3. PICK id \in Ids(p, q), pin \in Nat : k.session = <<id, pin>>
  BY <1>2 DEF Sessions
<1>4. k.session[1] = id /\ Current(p, q, id)
  BY <1>3 DEF Current, Session
<1>5. Hosts(p, mem[p].group)
  BY <1>4, CurrentHosts DEF Inv
<1>6. QED
  BY <1>1, <1>2, <1>4, <1>5 DEF Joined

(* Memory with the new member, saved or not.                                *)
LEMMA ListedMind ==
  ASSUME Inv, Counts', Grows, NEW p \in Peer, NEW q \in Peer, Hosts(p, mem[p].group),
         mem[p].group \notin past.moved => <<q, mem[p].group>> \in past.held,
         issued'.pins = issued.pins + 1, UNCHANGED <<founders, past>>,
         NEW m \in Minded, Admits(p, q, m),
         mem' = [mem EXCEPT ![p] = m], row' = row \/ row' = [row EXCEPT ![p] = Saved(m)]
  PROVE  /\ Members' /\ (\A x \in Peer : Steady(x)) /\ Lasting
         /\ Widened(m.group, m.members)
<1>1. /\ m.group = mem[p].group /\ m.members = mem[p].members \cup {q} /\ m.pin = issued.pins + 1
      /\ m.keys = mem[p].keys \cup {q} /\ m.key = mem[p].key /\ m.handshake = mem[p].handshake
      /\ m.invited[q] = None /\ m.admitting[q] = None
      /\ \A r \in Peer \ {q} : m.invited[r] = mem[p].invited[r] /\ m.admitting[r] = mem[p].admitting[r]
  BY DEF Admits
<1>2. /\ mem \in [Peer -> Minded] /\ row \in [Peer -> Row] /\ Keeps(p, mem[p]) /\ Minds(p, mem[p])
      /\ row[p].group = mem[p].group
  BY <1>1 DEF Inv, Members
<1>3. mem[p].group \in Groups /\ mem[p].group # 0
  BY <1>1 DEF Hosts, Groups
<1>4. Keeps(p, m)'
  <2>1. Lists(m.group, m.members, m.keys) /\ Sound(m.group, m.members)
    BY <1>1, <1>2, <1>3 DEF Keeps, Lists, Sound
  <2>2. Lists(m.group, m.members, m.keys)' /\ Sound(m.group, m.members)' /\ Hosts(p, m.group)'
    BY <1>1, <2>1, ListsStay, SoundStays, HostsStay
  <2>3. p \in m.keys /\ <<p, m.group>> \in past'.held
    BY <1>1, <1>2, <1>3 DEF Keeps
  <2>4. m.pin <= issued'.pins
    BY <1>1 DEF Inv, Counts
  <2>5. QED
    BY <1>1, <2>2, <2>3, <2>4 DEF Keeps
<1>5. Minds(p, m)'
  <2>1. Minds(p, m)
    <3>1. \A r \in Peer :
            /\ m.invited[r] # None => m.invited[r] \in Ids(p, r) /\ Hosts(p, m.group)
            /\ m.admitting[r] # None => m.admitting[r] \in Sessions(p, r) /\ Hosts(p, m.group)
      BY <1>1, <1>2 DEF Minds
    <3>2. QED
      BY <1>1, <1>2, <3>1 DEF Minds
  <2>2. QED
    BY <1>1, <1>3, <2>1, MindsStays DEF Inv
<1>6. Members'
  BY <1>1, <1>4, <1>5, MembersAfter DEF Inv
<1>7. \A x \in Peer : Steady(x)
  <2>1. ASSUME NEW r \in Peer, NEW id \in Ids(p, r),
               id = m.invited[r] \/ \E pin \in Nat : m.admitting[r] = Session(id, pin)
        PROVE  Current(p, r, id)
    <3>1. id # None /\ \A pin : Session(id, pin) # None
      BY <1>1, NotNone DEF Ids
    <3>2. QED
      BY <1>1, <2>1, <3>1 DEF Current
  <2>2. QED
    BY <1>1, <2>1, SteadyAfter DEF Inv
<1>8. \A x \in Peer : row'[x].group = row[x].group
  BY <1>1, <1>2, SavedMind
<1>9. Lasting
  BY <1>1, <1>8, LastingAfter
<1>10. ASSUME NEW f \in Peer
      PROVE  /\ mem'[f].group = mem[f].group
             /\ \A x \in mem'[f].members \cup row'[f].members :
                  x \in Listed(f) \/ (mem[f].group = m.group /\ x \in m.members)
  <2>1. CASE f = p
    <3>1. mem'[f] = m /\ (row'[f] = row[f] \/ row'[f].members = m.members)
      BY <1>1, <1>2, <2>1, SavedMind
    <3>2. QED
      BY <1>1, <2>1, <3>1 DEF Listed
  <2>2. CASE f # p
    BY <1>1, <1>2, <2>2 DEF Listed
  <2>3. QED
    BY <1>1, <2>1, <2>2
<1>11. QED
  BY <1>1, <1>6, <1>7, <1>9, <1>10 DEF Widened

LEMMA NewNames ==
  ASSUME Lasting, NEW p \in Peer, NEW q \in Peer, p # q, NEW g, g = mem[p].group, Hosts(p, g),
         g \notin past.moved => Durable(q, g), NEW new, new = mem[p].members \cup {q}
  PROVE  \A f \in Peer : Leads(f) /\ mem[f].group = g => \A x \in new : x \in Listed(f) \/ Durable(x, g)'
<1>1. SUFFICES ASSUME NEW f \in Peer, Leads(f), mem[f].group = g, NEW x \in new
               PROVE  x \in Listed(f) \/ Durable(x, g)'
  OBVIOUS
<1>2. f = p /\ g \in Groups /\ g \notin past.moved /\ founders[g] = p
  BY <1>1 DEF Leads, Hosts
<1>3. CASE x = q
  BY <1>2, <1>3 DEF Lasting
<1>4. CASE x \in mem[p].members
  BY <1>2, <1>4 DEF Listed
<1>5. QED
  BY <1>3, <1>4

LEMMA PinIssued ==
  ASSUME Counts,
         \/ issued' = [issued EXCEPT !.pins = @ + 1]
         \/ issued' = [issued EXCEPT !.pins = @ + 1, !.events = @ + 1]
  PROVE  /\ issued' \in [admissions : Nat, pins : Nat, events : Nat, notes : Nat]
         /\ issued'.admissions = issued.admissions /\ issued'.pins = issued.pins + 1
         /\ issued'.events \in {issued.events, issued.events + 1}
         /\ issued' = [issued EXCEPT !.pins = @ + 1, !.events = @ + 1] => issued'.events = issued.events + 1
<1>1. issued \in [admissions : Nat, pins : Nat, events : Nat, notes : Nat]
  BY DEF Counts
<1>2. PICK i : i = [issued EXCEPT !.pins = @ + 1]
  OBVIOUS
<1>3. /\ i \in [admissions : Nat, pins : Nat, events : Nat, notes : Nat]
      /\ i.admissions = issued.admissions /\ i.pins = issued.pins + 1 /\ i.events = issued.events
  BY <1>1, <1>2
<1>4. PICK j : j = [i EXCEPT !.events = issued.events + 1]
  OBVIOUS
<1>5. /\ j \in [admissions : Nat, pins : Nat, events : Nat, notes : Nat]
      /\ j.admissions = i.admissions /\ j.pins = i.pins /\ j.events = issued.events + 1
  BY <1>1, <1>3, <1>4
<1>6. j = [issued EXCEPT !.pins = @ + 1, !.events = @ + 1]
  BY <1>1, <1>2, <1>4
<1>7. QED
  BY <1>2, <1>3, <1>5, <1>6

LEMMA PinsGrow ==
  ASSUME Counts, UNCHANGED <<founders, chain, orders, alive, faults, past>>,
         \/ issued' = [issued EXCEPT !.pins = @ + 1]
         \/ issued' = [issued EXCEPT !.pins = @ + 1, !.events = @ + 1]
  PROVE  Counts' /\ Grows /\ issued'.pins = issued.pins + 1
<1>1. /\ issued' \in [admissions : Nat, pins : Nat, events : Nat, notes : Nat]
      /\ issued'.admissions = issued.admissions /\ issued'.pins = issued.pins + 1
      /\ issued'.events \in {issued.events, issued.events + 1}
      /\ issued \in [admissions : Nat, pins : Nat, events : Nat, notes : Nat]
  BY PinIssued DEF Counts
<1>2. Groups' = Groups /\ Order' = Order
  BY DEF Groups, Order
<1>3. Counts'
  BY <1>1, <1>2 DEF Counts
<1>4. Grows
  BY <1>1, <1>2 DEF Grows
<1>5. QED
  BY <1>1, <1>3, <1>4

(* A confirmation of a session that p does not wait for.                    *)
LEMMA ConfirmationStale ==
  ASSUME Inv, NEW p \in Peer, NEW q \in Peer, p \in alive, control[q][p] # <<>>,
         Fails(p, Unasked(p, q)), control' = Taken(p, q),
         UNCHANGED <<founders, chain, alive, met, issued, faults, past, log, nextSeq>>
  PROVE  Inv'
<1>1. mem[p] \in Minded /\ Minds(p, mem[p])
  BY DEF Inv, Members
<1>2. PICK m \in Minded :
        /\ m = Unasked(p, q)
        /\ m.group = mem[p].group /\ m.members = mem[p].members /\ m.pin = mem[p].pin
        /\ m.keys = mem[p].keys /\ m.key = mem[p].key /\ m.handshake = mem[p].handshake
        /\ m.invited[q] = None /\ m.admitting[q] = None
        /\ \A r \in Peer \ {q} : m.invited[r] = mem[p].invited[r] /\ m.admitting[r] = mem[p].admitting[r]
  BY <1>1, UnaskedParts
<1>3. Minds(p, m)
  <2>1. \A r \in Peer :
          /\ m.invited[r] # None => m.invited[r] \in Ids(p, r) /\ Hosts(p, m.group)
          /\ m.admitting[r] # None => m.admitting[r] \in Sessions(p, r) /\ Hosts(p, m.group)
    BY <1>1, <1>2 DEF Minds
  <2>2. QED
    BY <1>1, <1>2, <2>1 DEF Minds
<1>4. ASSUME NEW r \in Peer, NEW id \in Ids(p, r),
             id = m.invited[r] \/ \E pin \in Nat : m.admitting[r] = Session(id, pin)
      PROVE  Current(p, r, id)
  <2>1. id # None /\ \A pin : Session(id, pin) # None
    BY NotNone DEF Ids
  <2>2. QED
    BY <1>2, <1>4, <2>1 DEF Current
<1>5. mem' = [mem EXCEPT ![p] = m] /\ row' = row /\ orders' = orders
  BY <1>2 DEF Fails
<1>6. /\ control' \in [Peer -> [Peer -> Seq(Letter)]] /\ \A a, b \in Peer : Proper(a, b)
      /\ \A a, b \in Peer : a \notin alive \/ b \notin alive => control'[a][b] = <<>>
  BY TakenProper DEF Inv
<1>7. QED
  BY <1>2, <1>3, <1>4, <1>5, <1>6, MindStep

(* The new member is listed, and told of by an event unless the sequence    *)
(* of the event is in use.                                                  *)
LEMMA ConfirmationListed ==
  ASSUME Inv, NEW p \in Peer, NEW q \in Peer, control[q][p] # <<>>,
         Head(control[q][p]).type = "confirmation",
         mem[p].admitting[q] = Head(control[q][p]).session,
         mem' = [mem EXCEPT ![p] = Confirmed(p, q)],
         row' = row \/ row' = [row EXCEPT ![p] = Saved(Confirmed(p, q))],
         orders' = orders, control' = Taken(p, q),
         UNCHANGED <<founders, chain, alive, met, faults, past>>,
         \/ issued' = [issued EXCEPT !.pins = @ + 1] /\ UNCHANGED <<log, nextSeq>>
         \/ /\ issued' = [issued EXCEPT !.pins = @ + 1, !.events = @ + 1]
            /\ Published(p, Confirmed(p, q).group, Confirmed(p, q).members, Confirmed(p, q).keys)
  PROVE  Inv'
<1>1. mem[p] \in Minded
  BY DEF Inv, Members
<1>2. PICK g : g = mem[p].group
  OBVIOUS
<1>3. /\ p \in alive /\ p # q /\ Hosts(p, g) /\ g \in Groups /\ g # 0
      /\ g \notin past.moved => <<q, g>> \in past.held /\ Durable(q, g)
  BY <1>2, ConfirmedHolds DEF Hosts, Groups
<1>4. PICK m \in Minded :
        /\ m = Confirmed(p, q) /\ Admits(p, q, m)
        /\ m.group = mem[p].group /\ m.members = mem[p].members \cup {q}
        /\ m.keys = mem[p].keys \cup {q}
  BY <1>1, ConfirmedParts DEF Inv, Admits
<1>5. mem' = [mem EXCEPT ![p] = m] /\ (row' = row \/ row' = [row EXCEPT ![p] = Saved(m)])
  BY <1>4
<1>6. Counts' /\ Grows /\ issued'.pins = issued.pins + 1
  BY PinsGrow DEF Inv
<1>7. /\ Members' /\ (\A x \in Peer : Steady(x)) /\ Lasting
      /\ Widened(m.group, m.members)
  <2>1. /\ Hosts(p, mem[p].group) /\ UNCHANGED <<founders, past>>
        /\ mem[p].group \notin past.moved => <<q, mem[p].group>> \in past.held
    BY <1>2, <1>3
  <2>2. QED
    BY <1>4, <1>5, <1>6, <2>1, ListedMind
<1>8. PICK new \in SUBSET Peer : new = m.members /\ new = mem[p].members \cup {q}
  BY <1>4 DEF Minded
<1>9. \A f \in Peer : Leads(f) /\ mem[f].group = g => \A x \in new : x \in Listed(f) \/ Durable(x, g)'
  BY <1>2, <1>3, <1>7, <1>8, NewNames
<1>10. Logs' /\ \A a \in Peer : \A e \in log'[a] :
                 (\E b \in Peer : e \in log[b]) \/ (e.group = g /\ e.members \subseteq new)
  <2>1. CASE UNCHANGED <<log, nextSeq>>
    BY <1>6, <2>1, LogsUntouched DEF Inv
  <2>2. CASE /\ Published(p, m.group, m.members, m.keys)
             /\ issued'.events = issued.events + 1
    <3>1. Keeps(p, mem[p])
      BY DEF Inv, Members
    <3>2. Lists(m.group, m.members, m.keys) /\ Sound(m.group, m.members)
      BY <1>2, <1>3, <1>4, <3>1 DEF Keeps, Lists, Sound
    <3>3. Lists(m.group, m.members, m.keys)' /\ Sound(m.group, m.members)'
      BY <1>6, <3>2, ListsStay, SoundStays
    <3>4. m.members \in SUBSET Peer /\ m.keys \in SUBSET Peer
      BY DEF Minded
    <3>5. Logs'
      BY <1>2, <1>3, <1>4, <1>6, <2>2, <3>3, <3>4, LogsPublished DEF Inv
    <3>6. PICK made : made = Event(p, m.group, m.members, m.keys)
      OBVIOUS
    <3>7. made.group = m.group /\ made.members = m.members /\ log' = [log EXCEPT ![p] = @ \cup {made}]
      BY <2>2, <3>6 DEF Event, Published
    <3>8. QED
      BY <1>2, <1>4, <1>8, <3>5, <3>7 DEF Inv, Logs
  <2>3. QED
    BY <1>4, <2>1, <2>2, PinIssued DEF Inv
<1>11. Founding'
  <2>1. Widened(g, new)
    BY <1>2, <1>4, <1>7, <1>8
  <2>2. Counts /\ Members /\ Logs /\ Founding
    BY DEF Inv
  <2>3. QED
    BY <1>6, <1>7, <1>8, <1>9, <1>10, <2>1, <2>2, FoundingGrows
<1>12. /\ control' \in [Peer -> [Peer -> Seq(Letter)]] /\ \A a, b \in Peer : Proper(a, b)
       /\ \A a, b \in Peer : a \notin alive \/ b \notin alive => control'[a][b] = <<>>
  BY TakenProper DEF Inv
<1>13. met' \subseteq {pair \in alive' \X alive' : pair[1] # pair[2]}
  BY DEF Inv, Channel
<1>14. Channel'
  BY <1>6, <1>7, <1>12, <1>13, ChannelAfter DEF Inv
<1>15. QED
  BY <1>6, <1>7, <1>10, <1>11, <1>14 DEF Inv

(* The event is on disk and the list is not: the process dies in between.   *)
LEMMA ConfirmationDied ==
  ASSUME Inv, NEW p \in Peer, NEW q \in Peer, control[q][p] # <<>>,
         Head(control[q][p]).type = "confirmation",
         mem[p].admitting[q] = Head(control[q][p]).session,
         Dies(p), past' = [past EXCEPT !.lost = TRUE], founders' = founders,
         issued' = [issued EXCEPT !.pins = @ + 1, !.events = @ + 1],
         Published(p, Confirmed(p, q).group, Confirmed(p, q).members, Confirmed(p, q).keys)
  PROVE  Inv'
<1>1. mem[p] \in Minded /\ Keeps(p, mem[p])
  BY DEF Inv, Members
<1>2. PICK g : g = mem[p].group
  OBVIOUS
<1>3. /\ p # q /\ Hosts(p, g) /\ g \in Groups /\ g # 0
      /\ g \notin past.moved => <<q, g>> \in past.held /\ Durable(q, g)
  BY <1>2, ConfirmedHolds DEF Hosts, Groups
<1>4. PICK m \in Minded :
        /\ m = Confirmed(p, q)
        /\ m.group = mem[p].group /\ m.members = mem[p].members \cup {q}
        /\ m.keys = mem[p].keys \cup {q}
  BY <1>1, ConfirmedParts DEF Inv, Admits
<1>5. /\ issued' \in [admissions : Nat, pins : Nat, events : Nat, notes : Nat]
      /\ issued'.admissions = issued.admissions /\ issued'.pins = issued.pins + 1
      /\ issued'.events = issued.events + 1
      /\ issued \in [admissions : Nat, pins : Nat, events : Nat, notes : Nat]
  BY PinIssued DEF Inv, Counts
<1>6. /\ past' \in [held : SUBSET (Peer \X Nat), left : SUBSET (Peer \X Nat), cleared : SUBSET Peer,
                    moved : SUBSET Nat, lost : BOOLEAN]
      /\ past'.held = past.held /\ past'.left = past.left /\ past'.cleared = past.cleared
      /\ past'.moved = past.moved
  BY SameOrLost DEF Inv
<1>7. Counts'
  BY <1>5, <1>6, DeathCounts DEF Inv
<1>8. Grows
  BY <1>5, <1>6 DEF Grows, Groups
<1>9. /\ Members' /\ Channel' /\ Lasting
      /\ \A f \in Peer : /\ mem'[f].group = mem[f].group
                         /\ mem'[f].members \cup row'[f].members \subseteq mem[f].members \cup row[f].members
  <2>1. Counts /\ Members /\ Channel /\ past.left \subseteq past'.left
    BY <1>6 DEF Inv
  <2>2. QED
    BY <1>7, <1>8, <2>1, Death
<1>10. PICK new \in SUBSET Peer : new = m.members /\ new = mem[p].members \cup {q}
  BY <1>4 DEF Minded
<1>11. \A f \in Peer : Leads(f) /\ mem[f].group = g => \A x \in new : x \in Listed(f) \/ Durable(x, g)'
  <2>1. Lasting /\ p # q /\ Hosts(p, g) /\ (g \notin past.moved => Durable(q, g))
    BY <1>3, <1>9
  <2>2. new = mem[p].members \cup {q}
    BY <1>10
  <2>3. QED
    BY <1>2, <2>1, <2>2, NewNames
<1>12. Lists(g, m.members, m.keys)' /\ Sound(g, m.members)'
  <2>1. Lists(g, m.members, m.keys) /\ Sound(g, m.members)
    BY <1>1, <1>2, <1>3, <1>4 DEF Keeps, Lists, Sound
  <2>2. QED
    BY <1>8, <2>1, ListsStay, SoundStays
<1>13. Published(p, g, m.members, m.keys)
  BY <1>2, <1>4
<1>14. Logs'
  <2>1. m.members \in SUBSET Peer /\ m.keys \in SUBSET Peer
    BY DEF Minded
  <2>2. QED
    BY <1>2, <1>3, <1>5, <1>6, <1>7, <1>8, <1>12, <1>13, <2>1, LogsPublished DEF Inv
<1>15. \A a \in Peer : \A e \in log'[a] :
         (\E b \in Peer : e \in log[b]) \/ (e.group = g /\ e.members \subseteq new)
  <2>1. PICK e : e = Event(p, g, m.members, m.keys)
    OBVIOUS
  <2>2. e.group = g /\ e.members = m.members /\ log' = [log EXCEPT ![p] = @ \cup {e}]
    BY <1>13, <2>1 DEF Event, Published
  <2>3. QED
    BY <1>10, <2>2 DEF Inv, Logs
<1>16. Widened(g, new)
  BY <1>9 DEF Widened, Listed
<1>17. Founding'
  <2>1. Counts /\ Members /\ Logs /\ Founding
    BY DEF Inv
  <2>2. QED
    BY <1>7, <1>8, <1>9, <1>11, <1>15, <1>16, <2>1, FoundingGrows
<1>18. QED
  BY <1>7, <1>9, <1>14, <1>17 DEF Inv

LEMMA OnJoinConfirmationInv ==
  ASSUME Inv, NEW p \in Peer, NEW q \in Peer, OnJoinConfirmation(p, q)
  PROVE  Inv'
<1>1. /\ p \in alive /\ control[q][p] # <<>> /\ Head(control[q][p]).type = "confirmation"
      /\ founders' = founders
  BY DEF OnJoinConfirmation
<1>2. PICK used \in {Unasked(p, q)} :
        \E listed \in {[Listing(used, q) EXCEPT !.pin = issued.pins + 1]} :
          \/ /\ Fails(p, used) /\ control' = Taken(p, q)
             /\ UNCHANGED <<chain, alive, met, issued, faults, past, log, nextSeq>>
          \/ /\ mem[p].admitting[q] = Head(control[q][p]).session
             /\ Fails(p, listed) /\ control' = Taken(p, q)
             /\ issued' = [issued EXCEPT !.pins = @ + 1]
             /\ UNCHANGED <<chain, alive, met, faults, past, log, nextSeq>>
          \/ /\ mem[p].admitting[q] = Head(control[q][p]).session
             /\ Published(p, listed.group, listed.members, listed.keys)
             /\ issued' = [issued EXCEPT !.pins = @ + 1, !.events = @ + 1]
             /\ \/ /\ Ends(p, listed, <<>>, Taken(p, q))
                   /\ UNCHANGED <<chain, alive, met, faults, past>>
                \/ /\ Dies(p)
                   /\ past' = [past EXCEPT !.lost = TRUE]
  BY Zenon DEF OnJoinConfirmation, Unasked, disks
<1>3. PICK listed : listed = Confirmed(p, q)
  OBVIOUS
<1>4. \/ /\ Fails(p, Unasked(p, q)) /\ control' = Taken(p, q)
         /\ UNCHANGED <<chain, alive, met, issued, faults, past, log, nextSeq>>
      \/ /\ mem[p].admitting[q] = Head(control[q][p]).session
         /\ Fails(p, listed) /\ control' = Taken(p, q)
         /\ issued' = [issued EXCEPT !.pins = @ + 1]
         /\ UNCHANGED <<chain, alive, met, faults, past, log, nextSeq>>
      \/ /\ mem[p].admitting[q] = Head(control[q][p]).session
         /\ Published(p, listed.group, listed.members, listed.keys)
         /\ issued' = [issued EXCEPT !.pins = @ + 1, !.events = @ + 1]
         /\ \/ /\ Ends(p, listed, <<>>, Taken(p, q))
               /\ UNCHANGED <<chain, alive, met, faults, past>>
            \/ /\ Dies(p)
               /\ past' = [past EXCEPT !.lost = TRUE]
  BY <1>2, <1>3 DEF Confirmed
<1>5. CASE /\ Fails(p, Unasked(p, q)) /\ control' = Taken(p, q)
           /\ UNCHANGED <<chain, alive, met, issued, faults, past, log, nextSeq>>
  BY <1>1, <1>5, ConfirmationStale
<1>6. CASE /\ mem[p].admitting[q] = Head(control[q][p]).session
           /\ Fails(p, listed) /\ control' = Taken(p, q)
           /\ issued' = [issued EXCEPT !.pins = @ + 1]
           /\ UNCHANGED <<chain, alive, met, faults, past, log, nextSeq>>
  <2>1. mem' = [mem EXCEPT ![p] = Confirmed(p, q)] /\ row' = row /\ orders' = orders
    BY <1>3, <1>6 DEF Fails
  <2>2. QED
    BY <1>1, <1>6, <2>1, ConfirmationListed
<1>7. CASE /\ mem[p].admitting[q] = Head(control[q][p]).session
           /\ Published(p, listed.group, listed.members, listed.keys)
           /\ issued' = [issued EXCEPT !.pins = @ + 1, !.events = @ + 1]
           /\ Ends(p, listed, <<>>, Taken(p, q))
           /\ UNCHANGED <<chain, alive, met, faults, past>>
  <2>1. /\ mem' = [mem EXCEPT ![p] = Confirmed(p, q)]
        /\ row' = [row EXCEPT ![p] = Saved(Confirmed(p, q))]
        /\ orders' = orders /\ control' = Taken(p, q)
    BY <1>3, <1>7, NothingAsked DEF Ends, Inv
  <2>2. Published(p, Confirmed(p, q).group, Confirmed(p, q).members, Confirmed(p, q).keys)
    BY <1>3, <1>7
  <2>3. QED
    BY <1>1, <1>7, <2>1, <2>2, ConfirmationListed
<1>8. CASE /\ mem[p].admitting[q] = Head(control[q][p]).session
           /\ Published(p, listed.group, listed.members, listed.keys)
           /\ issued' = [issued EXCEPT !.pins = @ + 1, !.events = @ + 1]
           /\ Dies(p) /\ past' = [past EXCEPT !.lost = TRUE]
  <2>1. Published(p, Confirmed(p, q).group, Confirmed(p, q).members, Confirmed(p, q).keys)
    BY <1>3, <1>8
  <2>2. QED
    BY <1>1, <1>8, <2>1, ConfirmationDied
<1>9. QED
  BY <1>4, <1>5, <1>6, <1>7, <1>8

-----------------------------------------------------------------------------
(* Events that come from another log. Of a set of stored events one is the  *)
(* latest, as no more were issued than issued.events.                       *)
LEMMA LatestExists ==
  ASSUME NEW bound \in Nat, NEW events, events # {}, \A e \in events : e.id \in 1..bound
  PROVE  Latest(events) \in events
<1>1. PICK S \in SUBSET Nat : S = {bound - e.id : e \in events} /\ S # {}
  <2>1. \A e \in events : bound - e.id \in Nat
    OBVIOUS
  <2>2. {bound - e.id : e \in events} \in SUBSET Nat
    BY <2>1
  <2>3. {bound - e.id : e \in events} # {}
    OBVIOUS
  <2>4. QED
    BY <2>2, <2>3, Zenon
<1>2. PICK least \in S : \A n \in S : ~(<<n, least>> \in OpToRel(<, Nat))
  BY <1>1, NatLessThanWellFounded, WFMin, Zenon
<1>3. \A n \in S : least <= n
  <2>1. TAKE n \in S
  <2>2. <<n, least>> \in Nat \X Nat
    OBVIOUS
  <2>3. ~(n < least)
    BY <1>2, <2>2 DEF OpToRel
  <2>4. QED
    BY <2>3
<1>4. PICK e \in events : least = bound - e.id
  BY <1>1
<1>5. \A f \in events : f.id <= e.id
  BY <1>1, <1>3, <1>4
<1>6. QED
  BY <1>5 DEF Latest

(* What the lists among new events make of a memory.                        *)
Updated(m, events, n) ==
  /\ n.group = m.group /\ n.pin = m.pin /\ n.key = m.key /\ n.handshake = m.handshake
  /\ n.invited = m.invited /\ n.admitting = m.admitting /\ m.keys \subseteq n.keys
  /\ \/ n.members = m.members
     \/ \E e \in events : e.members # {} /\ n.members = e.members /\ e.keys \subseteq n.keys

LEMMA MaterializedGroup ==
  ASSUME NEW m \in Minded, NEW events
  PROVE  Materialized(m, events).group = m.group
BY DEF Materialized, Minded

LEMMA MaterializedParts ==
  ASSUME NEW m \in Minded, NEW events \in SUBSET Events, NEW bound \in Nat,
         \A e \in events : e.id \in 1..bound
  PROVE  Materialized(m, events) \in Minded /\ Updated(m, events, Materialized(m, events))
<1>1. PICK lists \in SUBSET Events : lists = {e \in events : e.members # {}}
  OBVIOUS
<1>2. PICK n : n = Materialized(m, events)
  OBVIOUS
<1>3. CASE lists = {}
  BY <1>1, <1>2, <1>3 DEF Materialized, Updated
<1>4. CASE lists # {}
  <2>1. PICK last \in lists : last = Latest(lists)
    <3>1. \A e \in lists : e.id \in 1..bound
      BY <1>1
    <3>2. Latest(lists) \in lists
      BY <1>4, <3>1, LatestExists
    <3>3. QED
      BY <3>2
  <2>2. PICK keys : keys = m.keys \cup UNION {e.keys : e \in lists}
    OBVIOUS
  <2>3. last.members \subseteq Peer /\ last.members # {} /\ last \in events
        /\ keys \subseteq Peer /\ last.keys \subseteq keys /\ m.keys \subseteq keys
    <3>1. \A e \in lists : e.members \subseteq Peer /\ e.keys \subseteq Peer
      BY DEF Events
    <3>2. m.keys \subseteq Peer
      BY DEF Minded
    <3>3. last \in events /\ last.members # {}
      BY <1>1
    <3>4. keys \subseteq Peer /\ last.keys \subseteq keys /\ m.keys \subseteq keys
      BY <2>2, <3>1, <3>2
    <3>5. QED
      BY <3>1, <3>3, <3>4
  <2>4. n = [m EXCEPT !.members = last.members, !.keys = keys]
    <3>1. PICK a : a = [m EXCEPT !.members = last.members]
      OBVIOUS
    <3>2. a.keys = m.keys
      BY <3>1 DEF Minded
    <3>3. n = [a EXCEPT !.keys = a.keys \cup UNION {e.keys : e \in lists}]
      BY <1>1, <1>2, <1>4, <2>1, <3>1 DEF Materialized
    <3>4. QED
      BY <2>2, <3>1, <3>2, <3>3
  <2>5. /\ n \in Minded /\ n.group = m.group /\ n.pin = m.pin /\ n.key = m.key
        /\ n.handshake = m.handshake /\ n.invited = m.invited /\ n.admitting = m.admitting
        /\ n.members = last.members /\ n.keys = keys
    BY <2>3, <2>4 DEF Minded
  <2>6. QED
    BY <1>2, <2>3, <2>5 DEF Updated
<1>5. QED
  BY <1>3, <1>4

(* Only events of the receiver's group are taken (receive_remote).          *)
LEMMA AcceptedOwn ==
  ASSUME NEW p, mem[p] \in Minded, NEW batch
  PROVE  Accepted(p, batch) \subseteq batch /\ \A e \in Accepted(p, batch) : e.group = mem[p].group
<1>1. ASSUME NEW e \in Accepted(p, batch)
      PROVE  e \in batch /\ e.group = mem[p].group
  <2>1. e \in batch /\ ~Refused(Materialized(mem[p], Earlier(batch, e) \ log[p]),
                                log[p] \cup Earlier(batch, e), e)
    BY DEF Accepted
  <2>2. e.group = Materialized(mem[p], Earlier(batch, e) \ log[p]).group
    BY <2>1 DEF Refused
  <2>3. QED
    BY <2>1, <2>2, MaterializedGroup
<1>2. QED
  BY <1>1

(* Events of p's group from other logs are added to that of p.              *)
LEMMA LogsShared ==
  ASSUME Counts, Counts', Grows, Members, Logs, NEW p \in Peer, NEW more,
         \A e \in more : e.group = mem[p].group /\ \E q \in Peer : e \in log[q],
         mem[p].group # 0,
         log' = [log EXCEPT ![p] = @ \cup more], nextSeq' = nextSeq, issued' = issued,
         past'.cleared = past.cleared
  PROVE  Logs'
<1>1. /\ log \in [Peer -> SUBSET Events] /\ \A a \in Peer : \A e \in log[a] : Publication(e)
      /\ SlotsAgree /\ OnlyMembersHold
  BY DEF Logs, LogsKeepApart
<1>2. more \subseteq Events
  BY <1>1
<1>3. /\ log' \in [Peer -> SUBSET Events]
      /\ \A a \in Peer : \A e \in log'[a] : \E b \in Peer : e \in log[b]
      /\ \A a \in Peer : \A e \in log'[a] : e \in log[a] \/ (a = p /\ e \in more)
  BY <1>1, <1>2
<1>4. ASSUME NEW a \in Peer, NEW e \in log'[a]
      PROVE  Publication(e)'
  <2>1. Publication(e)
    BY <1>1, <1>3
  <2>2. e.members # {} => Lists(e.group, e.members, e.keys)' /\ Sound(e.group, e.members)'
    BY <2>1, ListsStay, SoundStays DEF Publication
  <2>3. e.group \in Groups'
    BY <2>1 DEF Publication, Grows
  <2>4. QED
    BY <2>1, <2>2, <2>3 DEF Publication
<1>5. SlotsAgree'
  <2>1. SUFFICES ASSUME NEW a \in Peer, NEW b \in Peer, NEW e \in log'[a], NEW f \in log'[b],
                        Slot(e) = Slot(f)
                 PROVE  e = f \/ e.sender \in past'.cleared
    BY DEF SlotsAgree, Slot
  <2>2. QED
    BY <1>1, <1>3, <2>1 DEF SlotsAgree
<1>6. OnlyMembersHold'
  <2>1. Keeps(p, mem[p])
    BY DEF Members
  <2>2. <<p, mem[p].group>> \in past.held
    BY <2>1 DEF Keeps
  <2>3. QED
    BY <1>1, <1>3, <2>2 DEF OnlyMembersHold, Grows
<1>7. QED
  BY <1>3, <1>4, <1>5, <1>6 DEF Logs, LogsKeepApart

(* A batch arrives at p, and what it accepts is applied.                    *)
LEMMA ReceivedMind ==
  ASSUME Inv, NEW p \in Peer, mem[p].group # 0, UNCHANGED <<founders, issued, past>>,
         NEW more \in SUBSET Events, \A e \in more : e.group = mem[p].group /\ \E q \in Peer : e \in log[q],
         NEW m \in Minded, Updated(mem[p], more, m),
         mem' = [mem EXCEPT ![p] = m], row' = row \/ row' = [row EXCEPT ![p] = Saved(m)]
  PROVE  /\ Grows
         /\ Counts' => Members' /\ (\A x \in Peer : Steady(x)) /\ Lasting
         /\ Widened(0, {})
<1>1. /\ mem \in [Peer -> Minded] /\ row \in [Peer -> Row] /\ Keeps(p, mem[p]) /\ Minds(p, mem[p])
      /\ row[p].group = mem[p].group
  BY DEF Inv, Members
<1>2. /\ m.group = mem[p].group /\ m.pin = mem[p].pin /\ m.key = mem[p].key
      /\ m.handshake = mem[p].handshake /\ m.invited = mem[p].invited
      /\ m.admitting = mem[p].admitting /\ mem[p].keys \subseteq m.keys
      /\ \/ m.members = mem[p].members
         \/ \E e \in more : e.members # {} /\ m.members = e.members /\ e.keys \subseteq m.keys
  BY DEF Updated
<1>3. Grows
  BY DEF Grows, Groups, Inv, Counts
<1>4. ASSUME NEW e \in more
      PROVE  /\ e.members # {} => Lists(e.group, e.members, e.keys) /\ Sound(e.group, e.members)
             /\ e.group = m.group
  <2>1. PICK q \in Peer : e \in log[q]
    OBVIOUS
  <2>2. Publication(e)
    BY <2>1 DEF Inv, Logs
  <2>3. QED
    BY <1>2, <2>2 DEF Publication
<1>5. Lists(m.group, m.members, m.keys) /\ Sound(m.group, m.members)
  <2>1. m.keys \subseteq Peer
    BY DEF Minded
  <2>2. CASE m.members = mem[p].members
    BY <1>1, <1>2, <2>1, <2>2 DEF Keeps, Lists, Sound
  <2>3. CASE \E e \in more : e.members # {} /\ m.members = e.members /\ e.keys \subseteq m.keys
    <3>1. PICK e \in more : e.members # {} /\ m.members = e.members /\ e.keys \subseteq m.keys
      BY <2>3
    <3>2. Lists(m.group, e.members, e.keys) /\ Sound(m.group, e.members)
      BY <1>4, <3>1
    <3>3. QED
      BY <2>1, <3>1, <3>2 DEF Lists
  <2>4. QED
    BY <1>2, <2>2, <2>3
<1>6. Keeps(p, m)
  BY <1>1, <1>2, <1>5 DEF Keeps
<1>7. Minds(p, m)
  BY <1>1, <1>2 DEF Minds
<1>8. ASSUME Counts'
      PROVE  Members' /\ (\A x \in Peer : Steady(x)) /\ Lasting
  <2>1. Counts /\ Members
    BY DEF Inv
  <2>2. m.pin \in Nat /\ (m.group = 0 \/ m.group \in Groups)
    BY <1>5 DEF Minded, Lists
  <2>3. Keeps(p, m)'
    BY <1>3, <1>6, <1>8, <2>1, <2>2, KeepsStays
  <2>4. Minds(p, m)'
    BY <1>3, <1>7, <1>8, <2>1, <2>2, MindsStays
  <2>5. \/ row' = [row EXCEPT ![p] = Saved(m)]
        \/ row' = row /\ m.group = mem[p].group
    BY <1>2
  <2>6. Members'
    BY <1>3, <1>8, <2>1, <2>3, <2>4, <2>5, MembersAfter
  <2>7. \A x \in Peer : Steady(x)
    <3>1. \A q \in Peer : \A id \in Ids(p, q) :
            id = m.invited[q] \/ (\E pin \in Nat : m.admitting[q] = Session(id, pin)) =>
              Current(p, q, id) /\ (m.group = mem[p].group \/ m.group \in past'.moved)
      BY <1>2 DEF Current
    <3>2. QED
      BY <2>1, <3>1, SteadyAfter
  <2>8. Lasting
    <3>1. \A x \in Peer : row'[x].group = row[x].group
      BY <1>1, <1>2, SavedMind
    <3>2. QED
      BY <3>1, LastingAfter
  <2>9. QED
    BY <2>6, <2>7, <2>8
<1>9. Widened(0, {})
  <2>1. ASSUME NEW f \in Peer
        PROVE  /\ mem'[f].group = mem[f].group
               /\ \A x \in mem'[f].members \cup row'[f].members : x \in Listed(f)
    <3>1. CASE f # p
      BY <1>1, <3>1 DEF Listed
    <3>2. CASE f = p
      <4>1. mem'[p] = m /\ (row'[p] = row[p] \/ row'[p].members = m.members)
        BY <1>1, SavedMind
      <4>2. m.members \subseteq Listed(p)
        <5>1. CASE m.members = mem[p].members
          BY <5>1 DEF Listed
        <5>2. CASE \E e \in more : m.members = e.members
          BY <1>4, <1>2, <5>2 DEF Listed
        <5>3. QED
          BY <1>2, <5>1, <5>2
      <4>3. row[p].members \subseteq Listed(p)
        BY DEF Listed
      <4>4. QED
        BY <1>2, <3>2, <4>1, <4>2, <4>3
    <3>3. QED
      BY <3>1, <3>2
  <2>2. QED
    BY <2>1 DEF Widened
<1>10. QED
  BY <1>3, <1>8, <1>9

(* A batch that comes from another log, whether p survives it or not.       *)
LEMMA ReceiveInv ==
  ASSUME Inv, NEW p \in Peer, mem[p].group # 0, NEW batch,
         \A e \in batch : \E q \in Peer : e \in log[q], Receive(p, batch)
  PROVE  Inv'
<1>1. PICK more : more = Accepted(p, batch)
  OBVIOUS
<1>2. PICK m : m = Materialized(mem[p], more \ log[p])
  OBVIOUS
<1>3. /\ log' = [log EXCEPT ![p] = @ \cup more] /\ UNCHANGED <<founders, nextSeq, issued>>
      /\ \/ /\ mem' = [mem EXCEPT ![p] = m]
            /\ row' = row \/ row' = [row EXCEPT ![p] = Saved(m)]
            /\ UNCHANGED <<orders, chain, alive, met, control, faults, past>>
         \/ Dies(p) /\ past' = [past EXCEPT !.lost = TRUE]
  <2>1. PICK accepted \in {Accepted(p, batch)} :
          \E n \in {Materialized(mem[p], accepted \ log[p])} :
            /\ log' = [log EXCEPT ![p] = @ \cup accepted]
            /\ \/ /\ mem' = [mem EXCEPT ![p] = n]
                  /\ row' = IF accepted = batch THEN [row EXCEPT ![p] = Saved(n)] ELSE row
                  /\ UNCHANGED <<orders, chain, alive, met, control, faults, past>>
               \/ Dies(p) /\ past' = [past EXCEPT !.lost = TRUE]
    BY Zenon DEF Receive
  <2>2. accepted = more
    BY <1>1
  <2>3. PICK n \in {Materialized(mem[p], more \ log[p])} :
            /\ log' = [log EXCEPT ![p] = @ \cup more]
            /\ \/ /\ mem' = [mem EXCEPT ![p] = n]
                  /\ row' = row \/ row' = [row EXCEPT ![p] = Saved(n)]
                  /\ UNCHANGED <<orders, chain, alive, met, control, faults, past>>
               \/ Dies(p) /\ past' = [past EXCEPT !.lost = TRUE]
    BY <2>1, <2>2
  <2>4. n = m
    BY <1>2
  <2>5. UNCHANGED <<founders, nextSeq, issued>>
    BY Zenon DEF Receive
  <2>6. QED
    BY <2>3, <2>4, <2>5
<1>4. mem[p] \in Minded /\ Counts /\ Members /\ Channel /\ Logs /\ Founding
  BY DEF Inv, Members
<1>5. /\ more \subseteq batch
      /\ \A e \in more : e.group = mem[p].group /\ \E q \in Peer : e \in log[q]
  BY <1>1, <1>4, AcceptedOwn
<1>6. more \subseteq Events /\ \A e \in more : e.id \in 1..issued.events
  <2>1. ASSUME NEW e \in more
        PROVE  e \in Events /\ e.id \in 1..issued.events
    <3>1. PICK q \in Peer : e \in log[q]
      BY <1>5
    <3>2. log[q] \subseteq Events /\ Publication(e)
      BY <1>4, <3>1 DEF Logs
    <3>3. QED
      BY <3>1, <3>2 DEF Publication
  <2>2. QED
    BY <2>1
<1>7. PICK news : news = more \ log[p]
  OBVIOUS
<1>8. m \in Minded /\ Updated(mem[p], news, m)
  <2>1. news \in SUBSET Events /\ (\A e \in news : e.id \in 1..issued.events) /\ issued.events \in Nat
    BY <1>4, <1>6, <1>7 DEF Counts
  <2>2. QED
    BY <1>2, <1>4, <1>7, <2>1, MaterializedParts
<1>9. PICK none \in SUBSET Peer : none = {}
  OBVIOUS
<1>10. \A a \in Peer : \A e \in log'[a] :
         (\E q \in Peer : e \in log[q]) \/ (e.group = 0 /\ e.members \subseteq none)
  BY <1>3, <1>4, <1>5 DEF Logs
<1>11. \A f \in Peer : Leads(f) /\ mem[f].group = 0 => \A x \in none : x \in Listed(f) \/ Durable(x, 0)'
  BY <1>9
<1>12. CASE /\ mem' = [mem EXCEPT ![p] = m]
            /\ row' = row \/ row' = [row EXCEPT ![p] = Saved(m)]
            /\ UNCHANGED <<orders, chain, alive, met, control, faults, past>>
  <2>1. Groups' = Groups /\ Order' = Order
    BY <1>3 DEF Groups, Order
  <2>2. Counts'
    BY <1>3, <1>4, <1>12, <2>1 DEF Counts
  <2>3. news \in SUBSET Events /\ \A e \in news : e.group = mem[p].group /\ \E q \in Peer : e \in log[q]
    BY <1>5, <1>6, <1>7
  <2>4. Grows /\ Members' /\ (\A x \in Peer : Steady(x)) /\ Lasting /\ Widened(0, {})
    <3>1. UNCHANGED <<founders, issued, past>>
      BY <1>3, <1>12
    <3>2. mem' = [mem EXCEPT ![p] = m]
      BY <1>12
    <3>3. row' = row \/ row' = [row EXCEPT ![p] = Saved(m)]
      BY <1>12
    <3>4. QED
      BY <1>8, <2>2, <2>3, <3>1, <3>2, <3>3, ReceivedMind
  <2>5. Widened(0, none)
    BY <1>9, <2>4
  <2>6. Founding'
    BY <1>4, <1>10, <1>11, <2>4, <2>5, FoundingGrows
  <2>7. Logs'
    <3>1. nextSeq' = nextSeq /\ issued' = issued /\ past'.cleared = past.cleared
      BY <1>3, <1>12
    <3>2. QED
      BY <1>3, <1>4, <1>5, <2>2, <2>4, <3>1, LogsShared
  <2>8. /\ control' \in [Peer -> [Peer -> Seq(Letter)]] /\ \A a, b \in Peer : Proper(a, b)
        /\ \A a, b \in Peer : a \notin alive' \/ b \notin alive' => control'[a][b] = <<>>
    BY <1>4, <1>12, SameProper
  <2>9. met' \subseteq {pair \in alive' \X alive' : pair[1] # pair[2]}
    BY <1>4, <1>12 DEF Channel
  <2>10. Channel'
    BY <1>4, <2>2, <2>4, <2>8, <2>9, ChannelAfter
  <2>11. QED
    BY <2>2, <2>4, <2>6, <2>7, <2>10 DEF Inv
<1>13. CASE Dies(p) /\ past' = [past EXCEPT !.lost = TRUE]
  <2>1. /\ past' \in [held : SUBSET (Peer \X Nat), left : SUBSET (Peer \X Nat), cleared : SUBSET Peer,
                      moved : SUBSET Nat, lost : BOOLEAN]
        /\ past'.held = past.held /\ past'.left = past.left /\ past'.cleared = past.cleared
        /\ past'.moved = past.moved
    BY <1>4, <1>13, SameOrLost
  <2>2. issued' \in [admissions : Nat, pins : Nat, events : Nat, notes : Nat]
    BY <1>3, <1>4 DEF Counts
  <2>3. Counts'
    BY <1>3, <1>4, <1>13, <2>1, <2>2, DeathCounts
  <2>4. Grows
    BY <1>3, <1>4, <2>1 DEF Grows, Groups, Counts
  <2>5. /\ Members' /\ Channel' /\ Lasting
        /\ \A f \in Peer : /\ mem'[f].group = mem[f].group
                           /\ mem'[f].members \cup row'[f].members \subseteq mem[f].members \cup row[f].members
    BY <1>3, <1>4, <1>13, <2>1, <2>3, <2>4, Death
  <2>6. Widened(0, none)
    BY <2>5 DEF Widened, Listed
  <2>7. Founding'
    BY <1>4, <1>10, <1>11, <2>3, <2>4, <2>5, <2>6, FoundingGrows
  <2>8. Logs'
    <3>1. nextSeq' = nextSeq /\ issued' = issued /\ past'.cleared = past.cleared
      BY <1>3, <2>1
    <3>2. QED
      BY <1>3, <1>4, <1>5, <2>3, <2>4, <3>1, LogsShared
  <2>9. QED
    BY <2>3, <2>5, <2>7, <2>8 DEF Inv
<1>14. QED
  BY <1>3, <1>12, <1>13

LEMMA PushInv ==
  ASSUME Inv, NEW p \in Peer, NEW q \in Peer, Push(p, q)
  PROVE  Inv'
<1>1. mem[q].group # 0
  BY DEF Push, Linked
<1>2. PICK e \in log[p] : Receive(q, {e})
  BY DEF Push
<1>3. \A f \in {e} : \E x \in Peer : f \in log[x]
  BY <1>2
<1>4. QED
  BY <1>1, <1>2, <1>3, ReceiveInv

LEMMA SyncInv ==
  ASSUME Inv, NEW p \in Peer, NEW q \in Peer, Sync(p, q)
  PROVE  Inv'
<1>1. mem[q].group # 0
  BY DEF Sync, Linked
<1>2. PICK missing \in {Missing(p, q)} : Receive(q, missing)
  BY Zenon DEF Sync
<1>3. \A f \in missing : \E x \in Peer : f \in log[x]
  BY DEF Missing
<1>4. QED
  BY <1>1, <1>2, <1>3, ReceiveInv

-----------------------------------------------------------------------------
(* The invariant holds in every state.                                      *)
LEMMA InitInv ==
  ASSUME Init
  PROVE  Inv
<1>1. Len(founders) = 0 /\ Groups = {} /\ founders \in Seq(Founder)
  <2>1. founders = <<>>
    BY DEF Init
  <2>2. QED
    BY <2>1 DEF Groups
<1>2. issued = [admissions |-> 0, pins |-> 0, events |-> 0, notes |-> 0]
  BY DEF Init
<1>3. past = [held |-> {}, left |-> {}, cleared |-> {}, moved |-> {}, lost |-> FALSE]
  BY DEF Init
<1>4. Counts
  <2>1. /\ chain \in [Peer -> Groups \cup {0}]
        /\ orders \in [Peer -> Seq(Order)]
        /\ alive = Peer /\ faults \in 0..MaxFaults
    BY ConstantsAssumption DEF Init
  <2>2. QED
    BY <1>1, <1>2, <1>3, <2>1 DEF Counts
<1>5. ASSUME NEW p \in Peer
      PROVE  \E r \in Row :
               /\ r = Outside({p}) /\ row[p] = r /\ mem[p] = Loaded(r) /\ mem[p] \in Minded
               /\ r.group = 0 /\ r.members = {} /\ r.pin = 0 /\ r.keys = {p}
  <2>1. PICK r : r = Outside({p})
    OBVIOUS
  <2>2. r \in Row /\ r.group = 0 /\ r.members = {} /\ r.pin = 0 /\ r.keys = {p}
    BY <2>1 DEF Outside, Row
  <2>3. row[p] = r /\ mem[p] = Loaded(r)
    BY <2>1 DEF Init
  <2>4. QED
    BY <2>1, <2>2, <2>3, LoadedRow
<1>6. Members
  <2>1. DOMAIN mem = Peer /\ DOMAIN row = Peer
        /\ mem = [p \in Peer |-> mem[p]] /\ row = [p \in Peer |-> row[p]]
    BY DEF Init
  <2>2. mem \in [Peer -> Minded] /\ row \in [Peer -> Row]
    BY <1>5, <2>1
  <2>3. ASSUME NEW p \in Peer
        PROVE  /\ Keeps(p, mem[p]) /\ Keeps(p, row[p]) /\ Minds(p, mem[p])
               /\ row[p].group = mem[p].group
    <3>1. PICK r \in Row :
            /\ row[p] = r /\ mem[p] = Loaded(r)
            /\ r.group = 0 /\ r.members = {} /\ r.pin = 0 /\ r.keys = {p}
      BY <1>5
    <3>2. Keeps(p, row[p])
      BY <1>2, <3>1 DEF Keeps
    <3>3. /\ mem[p].group = 0 /\ mem[p].members = {} /\ mem[p].pin = 0 /\ mem[p].keys = {p}
          /\ mem[p].key = 0 /\ mem[p].handshake = None
          /\ \A q \in Peer : mem[p].invited[q] = None /\ mem[p].admitting[q] = None
      BY <3>1 DEF Loaded
    <3>4. Keeps(p, mem[p])
      BY <1>2, <3>3 DEF Keeps
    <3>5. Minds(p, mem[p])
      BY <3>3 DEF Minds
    <3>6. QED
      BY <3>1, <3>2, <3>3, <3>4, <3>5
  <2>4. QED
    BY <2>2, <2>3 DEF Members
<1>7. Channel
  BY DEF Init, Channel
<1>8. Logs
  <2>1. log = [p \in Peer |-> {}] /\ nextSeq = [p \in Peer |-> 1]
    BY DEF Init
  <2>2. SlotsAgree /\ OnlyMembersHold
    BY <2>1 DEF SlotsAgree, OnlyMembersHold
  <2>3. log \in [Peer -> SUBSET Events] /\ nextSeq \in [Peer -> Nat \ {0}]
    BY <2>1
  <2>4. \A p \in Peer : nextSeq[p] <= issued.events + 1
    <3>1. issued.events = 0
      BY <1>2
    <3>2. ASSUME NEW p \in Peer
          PROVE  nextSeq[p] <= 0 + 1
      <4>1. nextSeq[p] = 1
        BY <2>1
      <4>2. QED
        BY <4>1
    <3>3. QED
      BY <3>1, <3>2, Zenon
  <2>5. \A p \in Peer : \A e \in log[p] : Publication(e)
    BY <2>1
  <2>6. QED
    BY <2>2, <2>3, <2>4, <2>5 DEF Logs, LogsKeepApart
<1>9. Founding
  <2>1. \A f \in Peer : ~Leads(f)
    BY <1>1 DEF Leads
  <2>2. QED
    BY <2>1 DEF Founding
<1>10. QED
  BY <1>4, <1>6, <1>7, <1>8, <1>9 DEF Inv

LEMMA StutterInv ==
  ASSUME Inv, UNCHANGED vars
  PROVE  Inv'
<1>1. /\ UNCHANGED <<founders, mem, row, log, nextSeq, issued, past, chain, orders, alive, met,
                     control, faults>>
  BY DEF vars, disks
<1>2. /\ Counts /\ Channel
  BY DEF Inv
<1>3. /\ control' \in [Peer -> [Peer -> Seq(Letter)]] /\ \A p, q \in Peer : Proper(p, q)
      /\ \A p, q \in Peer : p \notin alive' \/ q \notin alive' => control'[p][q] = <<>>
  BY <1>1, <1>2, SameProper
<1>4. /\ chain' \in [Peer -> Groups \cup {0}] /\ orders' \in [Peer -> Seq(Order)]
      /\ alive' \subseteq Peer /\ faults' \in 0..MaxFaults
      /\ \A p \in Peer \ alive' : orders'[p] = <<>>
  BY <1>1, <1>2 DEF Counts
<1>5. met' \subseteq {pair \in alive' \X alive' : pair[1] # pair[2]}
  BY <1>1, <1>2 DEF Channel
<1>6. past' = past \/ past' = [past EXCEPT !.lost = TRUE]
  BY <1>1
<1>7. UNCHANGED <<founders, mem, row, log, nextSeq, issued>>
  BY <1>1
<1>8. QED
  BY <1>3, <1>4, <1>5, <1>6, <1>7, QuietStep

LEMMA NextInv ==
  ASSUME Inv, [Next]_vars
  PROVE  Inv'
<1>1. CASE UNCHANGED vars
  BY <1>1, StutterInv
<1>2. ASSUME NEW p \in Peer, Restart(p) \/ Carry(p)
      PROVE  Inv'
  BY <1>2, RestartInv, CarryInv
<1>3. ASSUME NEW p \in Peer, NEW q \in Peer, Connected(p, q) \/ Handshake(p, q) \/ Sync(p, q)
      PROVE  Inv'
  <2>1. CASE Connected(p, q) \/ Sync(p, q)
    BY <2>1, ConnectedInv, SyncInv
  <2>2. CASE OnInvitationInfo(p, q) \/ OnJoinHello(p, q)
    BY <2>2, OnInvitationInfoInv, OnJoinHelloInv
  <2>3. CASE OnJoinResponse(p, q) \/ OnJoinConfirmation(p, q)
    BY <2>3, OnJoinResponseInv, OnJoinConfirmationInv
  <2>4. QED
    BY <1>3, <2>1, <2>2, <2>3 DEF Handshake
<1>4. ASSUME NEW p \in Peer,
             CreateGroup(p) \/ LeaveGroup(p) \/ ClearTripData(p) \/ PublishNote(p) \/ Crash(p)
      PROVE  Inv'
  BY <1>4, CreateGroupInv, LeaveGroupInv, ClearTripDataInv, PublishNoteInv, CrashInv
<1>5. ASSUME NEW p \in Peer, NEW pin \in 1..issued.pins, JoinWithPin(p, pin)
      PROVE  Inv'
  BY <1>5, JoinWithPinInv
<1>6. ASSUME NEW p \in Peer, NEW q \in Peer, Push(p, q) \/ Part(p, q) \/ Lose(p, q)
      PROVE  Inv'
  BY <1>6, PushInv, PartInv, LoseInv
<1>7. QED
  BY <1>1, <1>2, <1>3, <1>4, <1>5, <1>6, Zenon DEF Next, Progress

(* Whatever the devices do, die and lose, what the handlers rely on holds:  *)
(* the groups of memory, rows, messages and events belong together.         *)
THEOREM Invariant == Spec => []Inv
<1>1. Init => Inv
  BY InitInv
<1>2. Inv /\ [Next]_vars => Inv'
  BY NextInv
<1>3. QED
  BY <1>1, <1>2, PTL DEF Spec

LEMMA InvTypeOK ==
  ASSUME Inv
  PROVE  TypeOK
<1>1. Counts /\ Members /\ Channel /\ Logs
  BY DEF Inv
<1>2. founders \in Seq(Founder) /\ alive \subseteq Peer /\ faults \in 0..MaxFaults
  BY <1>1 DEF Counts
<1>3. met \subseteq Peer \X Peer
  BY <1>1, <1>2 DEF Channel
<1>4. ASSUME NEW p \in Peer, NEW m, m.group \in Nat, m.members \subseteq Peer, m.keys \subseteq Peer,
             m.pin \in Nat, Keeps(p, m)
      PROVE  /\ m.group \in Groups \cup {0} /\ m.members \subseteq Peer
             /\ m.keys \subseteq Peer /\ m.pin \in 0..issued.pins
             /\ m.group # 0 <=> m.members # {}
             /\ m.pin # 0 => Owns(p, m) \/ m.group \in past.moved
  <2>1. issued.pins \in Nat
    BY <1>1 DEF Counts
  <2>2. CASE m.group = 0 /\ m.members = {} /\ m.pin = 0
    BY <1>4, <2>1, <2>2
  <2>3. CASE Lists(m.group, m.members, m.keys) /\ m.pin <= issued.pins /\ (m.pin # 0 => Hosts(p, m.group))
    BY <1>4, <2>1, <2>3 DEF Lists, Hosts, Owns, Groups
  <2>4. QED
    BY <1>4, <2>2, <2>3 DEF Keeps
<1>5. ASSUME NEW p \in Peer, NEW m \in {Saved(mem[p]), row[p]}
      PROVE  /\ m.group \in Nat /\ m.members \subseteq Peer /\ m.keys \subseteq Peer
             /\ m.pin \in Nat /\ Keeps(p, m)
  <2>1. /\ mem[p] \in Minded /\ row[p] \in Row /\ Keeps(p, mem[p]) /\ Keeps(p, row[p])
    BY <1>1 DEF Members
  <2>2. CASE m = row[p]
    BY <2>1, <2>2 DEF Row
  <2>3. CASE m = Saved(mem[p])
    <3>1. /\ m \in Row /\ m.group = mem[p].group /\ m.members = mem[p].members
          /\ m.pin = mem[p].pin /\ m.keys = mem[p].keys
      BY <2>1, <2>3, SavedMind
    <3>2. Keeps(p, m)
      BY <2>1, <3>1 DEF Keeps
    <3>3. QED
      BY <3>1, <3>2 DEF Row
  <2>4. QED
    BY <2>2, <2>3
<1>6. ASSUME NEW p \in Peer
      PROVE  /\ chain[p] \in Groups \cup {0} /\ mem[p].key \in Groups \cup {0}
             /\ nextSeq[p] \in 1..issued.events + 1
             /\ \A e \in log[p] :
                  /\ e.id \in 1..issued.events /\ e.sender \in Peer /\ e.group \in Groups
                  /\ e.members \subseteq Peer /\ e.keys \subseteq Peer
             /\ p \notin alive =>
                  /\ orders[p] = <<>>
                  /\ \A q \in Peer : control[p][q] = <<>> /\ control[q][p] = <<>>
  <2>1. chain[p] \in Groups \cup {0} /\ (p \notin alive => orders[p] = <<>>)
    BY <1>1 DEF Counts
  <2>2. mem[p].key \in Groups \cup {0}
    BY <1>1 DEF Members, Minds
  <2>3. nextSeq[p] \in 1..issued.events + 1
    BY <1>1 DEF Logs, Counts
  <2>4. ASSUME NEW e \in log[p]
        PROVE  /\ e.id \in 1..issued.events /\ e.sender \in Peer /\ e.group \in Groups
               /\ e.members \subseteq Peer /\ e.keys \subseteq Peer
    <3>1. e \in Events /\ Publication(e)
      BY <1>1 DEF Logs
    <3>2. QED
      BY <3>1 DEF Events, Publication
  <2>5. p \notin alive => \A q \in Peer : control[p][q] = <<>> /\ control[q][p] = <<>>
    BY <1>1 DEF Channel
  <2>6. QED
    BY <2>1, <2>2, <2>3, <2>4, <2>5
<1>7. \A p \in Peer : \A m \in {Saved(mem[p]), row[p]} :
        /\ m.group \in Groups \cup {0} /\ m.members \subseteq Peer
        /\ m.keys \subseteq Peer /\ m.pin \in 0..issued.pins
        /\ m.group # 0 <=> m.members # {}
        /\ m.pin # 0 => Owns(p, m) \/ m.group \in past.moved
  BY <1>4, <1>5
<1>8. QED
  BY <1>2, <1>3, <1>6, <1>7, Zenon DEF TypeOK

(* Founding speaks of founders, and so does what owners may rely on.        *)
LEMMA InvMembership ==
  ASSUME Inv
  PROVE  MembershipSound
<1>1. \A p \in Peer : Keeps(p, mem[p]) /\ Keeps(p, row[p]) /\ mem[p] \in Minded
  BY DEF Inv, Members
<1>2. MembersAreAdmitted
  BY <1>1 DEF MembersAreAdmitted, ListsAdmitted, Keeps, Sound
<1>3. AdmittedIsDurable
  <2>1. SUFFICES ASSUME NEW p \in Peer, Owns(p, mem[p]), mem[p].group \notin past.moved,
                        NEW q \in mem[p].members
                 PROVE  row[q].group = mem[p].group \/ <<q, mem[p].group>> \in past.left
    BY DEF AdmittedIsDurable
  <2>2. mem[p].group \in Groups
    BY <1>1, <2>1, GroupKnown DEF Owns, Inv
  <2>3. Leads(p) /\ q \in Listed(p)
    BY <2>1, <2>2 DEF Owns, Leads, Listed
  <2>4. QED
    BY <2>3 DEF Inv, Founding, Durable
<1>4. KeysCoverMembers
  BY <1>1 DEF KeysCoverMembers, Keeps, Lists
<1>5. QED
  BY <1>2, <1>3, <1>4, InvTypeOK DEF MembershipSound

(* Lists and handshakes agree: wherever no device came straight from        *)
(* another group, whoever is listed has held the group's credential, and    *)
(* has it on disk or gave it up if the founder lists it; the keys of all    *)
(* members are known wherever the members are.                              *)
THEOREM MembersAreSound == Spec => []MembershipSound
<1>1. Inv => MembershipSound
  BY InvMembership
<1>2. QED
  BY <1>1, Invariant, PTL

(* Through groups left, founded and joined again, a sequence of a sender    *)
(* names one event on all devices unless the sender cleared its log, and no *)
(* device stores an event of a group that it never held.                    *)
THEOREM LogsAreKeptApart == Spec => []LogsKeepApart
<1>1. Inv => LogsKeepApart
  BY DEF Inv, Logs
<1>2. QED
  BY <1>1, Invariant, PTL
=============================================================================
