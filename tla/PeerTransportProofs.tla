------------------------ MODULE PeerTransportProofs ------------------------
(***************************************************************************)
(* Proofs about PeerTransport, for any finite set of peers and any number   *)
(* of dials, resets and failures: once nothing is under way, two devices    *)
(* have settled for one connection and their cores know it.                 *)
(*                                                                          *)
(* Every step is one of one device.  A step of the actor appends reports    *)
(* and changes its own table (Reported); a step of the runtime takes one    *)
(* report.  What a device keeps is one invariant (Own); that of a pair is   *)
(* that each end that is alive greets the other (Greets).                   *)
(***************************************************************************)
EXTENDS PeerTransport, FiniteSetTheorems, SequenceTheorems, TLAPS

(* TypeOK, one variable at a time.                                         *)
Types ==
  /\ running \in [Peer -> BOOLEAN] /\ news \in [Peer -> BOOLEAN]
  /\ configured \in [Peer -> BOOLEAN]
  /\ keys \in [Peer -> SUBSET Peer] /\ found \in [Peer -> SUBSET Peer]
  /\ retries \in [Peer -> SUBSET Peer]
  /\ table \in [Peer -> SUBSET Connection] /\ tasks \in [Peer -> SUBSET Connection]
  /\ cancelled \in [Peer -> SUBSET Connection]
  /\ sessions \in [Peer -> SUBSET Connection]
  /\ authenticated \in [Peer -> SUBSET Connection]
  /\ known \in [Peer -> SUBSET Connection]
  /\ dials \in [Peer \X Peer -> Nat]
  /\ accepted \subseteq Connection /\ failed \subseteq Connection
  /\ hellos \subseteq Connection \X Peer
  /\ events \in [Peer -> Seq(Report)]
  /\ commands \in [Peer -> Seq(Request)]
  /\ current \in Links /\ connection \in Links
  /\ telling \in [Peer -> Report]
  /\ starts \in [Peer -> Nat]
  /\ resets \in Nat /\ drops \in Nat

LEMMA TypesAre == (TypeOK <=> Types) /\ (TypeOK' <=> Types')
BY DEF TypeOK, Types

----------------------------------------------------------------------------
(* Reports and the order they are in *)

LEMMA Notes ==
  /\ \A k, l, c, d : Notice(k, c) = Notice(l, d) <=> k = l /\ c = d
  /\ \A k, c : Notice(k, c).kind = k /\ Notice(k, c).connection = c
  /\ \A k, c : Notice(k, c) # Stopped /\ Notice(k, c) # Silence
  /\ \A k, c : Command(k, c).kind = k /\ Command(k, c).connection = c
  /\ \A k, l, c, d : Command(k, c) = Command(l, d) <=> k = l /\ c = d
  /\ \A k : Order(k).kind = k
  /\ \A k, l : Order(k) = Order(l) <=> k = l
  /\ Stopped.kind = "discoveryStopped" /\ Silence.kind = "nothing"
  /\ Stopped # Silence
<1>1. \A k, c : Notice(k, c).kind = k /\ Notice(k, c).connection = c
  BY DEF Notice
<1>2. \A k, c : Command(k, c).kind = k /\ Command(k, c).connection = c
  BY DEF Command
<1>3. \A k : Order(k).kind = k
  BY DEF Order
<1>4. Stopped.kind = "discoveryStopped" /\ Silence.kind = "nothing"
  BY DEF Stopped, Silence
<1>5. \A k, l, c, d : Notice(k, c) = Notice(l, d) <=> k = l /\ c = d
  BY <1>1
<1>6. \A k, l, c, d : Command(k, c) = Command(l, d) <=> k = l /\ c = d
  BY <1>2
<1>7. \A k, l : Order(k) = Order(l) <=> k = l
  BY <1>3
<1>8. Stopped # Silence
  BY <1>4
<1>9. \A k, c : Notice(k, c) # Stopped /\ Notice(k, c) # Silence
  BY DEF Notice, Stopped, Silence
<1>10. QED
  BY <1>1, <1>2, <1>3, <1>4, <1>5, <1>6, <1>7, <1>8, <1>9

(* What a report and a command may be.                                     *)
LEMMA Forms ==
  /\ \A r \in Report : \/ r = Stopped \/ r = Silence
                       \/ \E c \in Connection : r = Notice(r.kind, c)
  /\ \A k \in {"opened", "hello", "authenticated", "disconnected"}, c \in Connection :
       Notice(k, c) \in Report
  /\ Stopped \in Report /\ Silence \in Report
  /\ \A r \in Request : \/ r.kind \in {"hello", "disconnect"}
                           /\ r.connection \in Connection
                           /\ r = Command(r.kind, r.connection)
                        \/ r.kind \in {"startDiscovery", "stopDiscovery", "setRealtime"}
                           /\ r = Order(r.kind)
  /\ \A k \in {"hello", "disconnect"}, c \in Connection : Command(k, c) \in Request
  /\ \A k \in {"startDiscovery", "stopDiscovery", "setRealtime"} : Order(k) \in Request
BY DEF Report, Request, Notice, Command, Order, Stopped, Silence

After(s, i, x) == \E j \in i + 1 .. Len(s) : s[j] = x

LEMMA ContainsIsAfter ==
  ASSUME NEW s, NEW x
  PROVE  Contains(s, x) <=> After(s, 0, x)
BY DEF Contains, After

LEMMA AfterConcat ==
  ASSUME NEW S, NEW s \in Seq(S), NEW t \in Seq(S), NEW x
  PROVE  /\ s \o t \in Seq(S) /\ Len(s \o t) = Len(s) + Len(t)
         /\ \A i \in 1 .. Len(s) : (s \o t)[i] = s[i]
         /\ \A i \in 1 .. Len(t) : (s \o t)[Len(s) + i] = t[i]
         /\ \A i \in 0 .. Len(s) :
              After(s \o t, i, x) <=> After(s, i, x) \/ Contains(t, x)
         /\ \A i \in 1 .. Len(t) :
              After(s \o t, Len(s) + i, x) <=> After(t, i, x)
<1> DEFINE m == Len(s)
           n == Len(t)
           u == s \o t
<1>1. /\ u \in Seq(S) /\ Len(u) = m + n /\ m \in Nat /\ n \in Nat
      /\ \A i \in 1 .. m : u[i] = s[i]
      /\ \A i \in 1 .. n : u[m + i] = t[i]
  BY ConcatProperties
<1> HIDE DEF u, m, n
<1>2. ASSUME NEW i \in 0 .. m
      PROVE  After(u, i, x) <=> (\E j \in i + 1 .. m : s[j] = x) \/ \E j \in 1 .. n : t[j] = x
  <2>1. ASSUME NEW j \in i + 1 .. m + n, u[j] = x
        PROVE  (\E k \in i + 1 .. m : s[k] = x) \/ \E k \in 1 .. n : t[k] = x
    <3>1. CASE j <= m
      BY <1>1, <2>1, <3>1
    <3>2. CASE ~(j <= m)
      <4>1. j - m \in 1 .. n /\ m + (j - m) = j
        BY <1>1, <3>2
      <4>2. QED
        BY <1>1, <2>1, <4>1
    <3>3. QED
      BY <3>1, <3>2
  <2>2. ASSUME NEW j \in i + 1 .. m, s[j] = x
        PROVE  \E k \in i + 1 .. m + n : u[k] = x
    <3>1. j \in 1 .. m /\ j \in i + 1 .. m + n
      BY <1>1
    <3>2. QED
      BY <1>1, <2>2, <3>1
  <2>3. ASSUME NEW j \in 1 .. n, t[j] = x
        PROVE  \E k \in i + 1 .. m + n : u[k] = x
    <3>1. m + j \in i + 1 .. m + n
      BY <1>1
    <3>2. QED
      BY <1>1, <2>3, <3>1
  <2>4. QED
    BY <1>1, <2>1, <2>2, <2>3 DEF After
<1>3. ASSUME NEW i \in 1 .. n
      PROVE  After(u, m + i, x) <=> \E j \in i + 1 .. n : t[j] = x
  <2>1. ASSUME NEW j \in m + i + 1 .. m + n, u[j] = x
        PROVE  \E k \in i + 1 .. n : t[k] = x
    <3>1. j - m \in i + 1 .. n /\ j - m \in 1 .. n /\ m + (j - m) = j
      BY <1>1
    <3>2. QED
      BY <1>1, <2>1, <3>1
  <2>2. ASSUME NEW j \in i + 1 .. n, t[j] = x
        PROVE  \E k \in m + i + 1 .. m + n : u[k] = x
    <3>1. m + j \in m + i + 1 .. m + n /\ j \in 1 .. n
      BY <1>1
    <3>2. QED
      BY <1>1, <2>2, <3>1
  <2>3. QED
    BY <1>1, <2>1, <2>2 DEF After
<1>4. QED
  BY <1>1, <1>2, <1>3 DEF After, Contains, u, m, n

LEMMA AfterTail ==
  ASSUME NEW S, NEW s \in Seq(S), s # <<>>, NEW x
  PROVE  /\ Tail(s) \in Seq(S) /\ Len(Tail(s)) = Len(s) - 1 /\ Len(s) >= 1
         /\ Head(s) \in S /\ Head(s) = s[1]
         /\ \A i \in 1 .. Len(s) - 1 : Tail(s)[i] = s[i + 1]
         /\ \A i \in 0 .. Len(s) - 1 : After(Tail(s), i, x) <=> After(s, i + 1, x)
         /\ Contains(s, x) <=> Head(s) = x \/ Contains(Tail(s), x)
<1> DEFINE n == Len(s)
           t == Tail(s)
<1>1. /\ t \in Seq(S) /\ Len(t) = n - 1 /\ n \in Nat /\ n >= 1
      /\ Head(s) \in S /\ Head(s) = s[1]
      /\ \A i \in 1 .. n - 1 : t[i] = s[i + 1]
  BY EmptySeq, HeadTailProperties
<1> HIDE DEF n, t
<1>2. ASSUME NEW i \in 0 .. n - 1
      PROVE  (\E j \in i + 1 .. n - 1 : t[j] = x) <=> \E j \in i + 2 .. n : s[j] = x
  <2>1. ASSUME NEW j \in i + 1 .. n - 1, t[j] = x
        PROVE  \E k \in i + 2 .. n : s[k] = x
    <3>1. j + 1 \in i + 2 .. n /\ j \in 1 .. n - 1
      BY <1>1
    <3>2. QED
      BY <1>1, <2>1, <3>1
  <2>2. ASSUME NEW j \in i + 2 .. n, s[j] = x
        PROVE  \E k \in i + 1 .. n - 1 : t[k] = x
    <3>1. j - 1 \in i + 1 .. n - 1 /\ j - 1 \in 1 .. n - 1 /\ (j - 1) + 1 = j
      BY <1>1
    <3>2. QED
      BY <1>1, <2>2, <3>1
  <2>3. QED
    BY <2>1, <2>2
<1>3. \A i \in 0 .. n - 1 : After(t, i, x) <=> After(s, i + 1, x)
  <2>1. TAKE i \in 0 .. n - 1
  <2>2. (i + 1) + 1 = i + 2
    OBVIOUS
  <2>3. QED
    BY <1>1, <1>2, <2>2 DEF After, n
<1>4. Contains(s, x) <=> Head(s) = x \/ Contains(t, x)
  <2>1. 0 \in 0 .. n - 1
    BY <1>1
  <2>2. After(t, 0, x) <=> After(s, 1, x)
    BY <1>3, <2>1
  <2>3. After(s, 0, x) <=> s[1] = x \/ After(s, 1, x)
    <3>1. \A j \in 1 .. n : j = 1 \/ j \in 2 .. n
      BY <1>1
    <3>2. 1 \in 1 .. n /\ \A j \in 2 .. n : j \in 1 .. n
      BY <1>1
    <3>3. QED
      BY <3>1, <3>2 DEF After, n
  <2>4. QED
    BY <1>1, <2>2, <2>3, ContainsIsAfter
<1>5. QED
  BY <1>1, <1>3, <1>4 DEF n, t

(* A finite set as a sequence: every element once.                          *)
LEMMA SequenceOf ==
  ASSUME NEW S, IsFiniteSet(S)
  PROVE  /\ SetToSeq(S) \in Seq(S)
         /\ \A x \in S : \E i \in 1..Len(SetToSeq(S)) : SetToSeq(S)[i] = x
         /\ \A i, j \in 1..Len(SetToSeq(S)) : SetToSeq(S)[i] = SetToSeq(S)[j] => i = j
<1>1. Cardinality(S) \in Nat /\ ExistsBijection(1..Cardinality(S), S)
  BY FS_CardinalityType
<1>2. PICK g \in Bijection(1..Cardinality(S), S) : TRUE
  BY <1>1 DEF ExistsBijection
<1>3. g \in [1..Cardinality(S) -> S] /\ IsInjective(g)
  BY <1>2 DEF Bijection, Injection
<1>4. /\ SetToSeq(S) \in [1..Cardinality(S) -> S]
      /\ IsInjective(SetToSeq(S))
  BY <1>3 DEF SetToSeq
<1>5. SetToSeq(S) \in Injection(1..Cardinality(S), S)
  BY <1>4 DEF Injection
<1>6. IsFiniteSet(1..Cardinality(S)) /\ Cardinality(1..Cardinality(S)) = Cardinality(S)
  BY <1>1, FS_Interval
<1>7. SetToSeq(S) \in Surjection(1..Cardinality(S), S)
  BY <1>5, <1>6, FS_Injection
<1>8. SetToSeq(S) \in Seq(S) /\ Len(SetToSeq(S)) = Cardinality(S)
  BY <1>1, <1>4
<1>9. DOMAIN SetToSeq(S) = 1..Len(SetToSeq(S))
  BY <1>8
<1>10. \A i, j \in 1..Len(SetToSeq(S)) : SetToSeq(S)[i] = SetToSeq(S)[j] => i = j
  BY <1>4, <1>9 DEF IsInjective
<1>11. QED
  BY <1>7, <1>8, <1>10 DEF Surjection

(* What a step of an actor reports: the connections it has opened, each     *)
(* once, those it has ended, and last that discovery has stopped.           *)
Account(list, opened, gone, stops) ==
  /\ list \in Seq(Report)
  /\ \A c \in Connection :
       /\ Contains(list, Notice("opened", c)) <=> c \in opened
       /\ Contains(list, Notice("disconnected", c)) <=> c \in gone
       /\ \A i, j \in 1 .. Len(list) :
            list[i] = Notice("opened", c) /\ list[j] = Notice("opened", c) => i = j
  /\ \A i \in 1 .. Len(list) : list[i] = Stopped => stops /\ i = Len(list)

LEMMA NoticesAre ==
  ASSUME NEW kind \in {"opened", "disconnected"}, NEW cs \in SUBSET Connection, IsFiniteSet(cs)
  PROVE  /\ Notices(kind, cs) \in Seq(Report)
         /\ \A c \in Connection : Contains(Notices(kind, cs), Notice(kind, c)) <=> c \in cs
         /\ \A i \in 1 .. Len(Notices(kind, cs)) :
              \E c \in cs : Notices(kind, cs)[i] = Notice(kind, c)
         /\ \A i, j \in 1 .. Len(Notices(kind, cs)) :
              Notices(kind, cs)[i] = Notices(kind, cs)[j] => i = j
<1> DEFINE E == {Notice(kind, c) : c \in cs}
           s == SetToSeq(E)
<1>1. [c \in cs |-> Notice(kind, c)] \in Surjection(cs, E)
  BY DEF Surjection
<1>2. IsFiniteSet(E)
  BY <1>1, FS_Surjection
<1>3. /\ s \in Seq(E)
      /\ \A x \in E : \E i \in 1 .. Len(s) : s[i] = x
      /\ \A i, j \in 1 .. Len(s) : s[i] = s[j] => i = j
  <2> HIDE DEF E
  <2> QED BY <1>2, SequenceOf
<1>4. E \subseteq Report
  BY Forms
<1>5. \A x \in E : \E c \in cs : x = Notice(kind, c)
  OBVIOUS
<1>6. \A c \in cs : Notice(kind, c) \in E
  OBVIOUS
<1>7. s = Notices(kind, cs)
  BY DEF Notices
<1> HIDE DEF E, s
<1>8. s \in Seq(Report) /\ \A i \in 1 .. Len(s) : s[i] \in E
  BY <1>3, <1>4
<1>9. \A i \in 1 .. Len(s) : \E c \in cs : s[i] = Notice(kind, c)
  BY <1>5, <1>8
<1>10. ASSUME NEW c \in Connection
       PROVE  Contains(s, Notice(kind, c)) <=> c \in cs
  <2>1. ASSUME c \in cs PROVE Contains(s, Notice(kind, c))
    BY <1>3, <1>6, <2>1 DEF Contains
  <2>2. ASSUME NEW i \in 1 .. Len(s), s[i] = Notice(kind, c) PROVE c \in cs
    <3>1. PICK d \in cs : s[i] = Notice(kind, d)
      BY <1>9
    <3>2. Notice(kind, c).connection = c /\ Notice(kind, d).connection = d
      BY Notes
    <3>3. QED
      BY <2>2, <3>1, <3>2
  <2>3. QED
    BY <2>1, <2>2 DEF Contains
<1>11. QED
  BY <1>3, <1>7, <1>8, <1>9, <1>10

(* What the steps report.                                                  *)
LEMMA NothingReported == Account(<<>>, {}, {}, FALSE)
<1>1. <<>> \in Seq(Report) /\ 1 .. Len(<<>>) = {}
  OBVIOUS
<1>2. QED
  BY <1>1, Zenon DEF Account, Contains

LEMMA HelloReported ==
  ASSUME NEW c \in Connection
  PROVE  Account(<<Notice("hello", c)>>, {}, {}, FALSE)
<1> DEFINE s == <<Notice("hello", c)>>
<1>1. s \in Seq(Report) /\ Len(s) = 1 /\ s[1] = Notice("hello", c)
  BY Forms
<1> HIDE DEF s
<1>2. \A i \in 1 .. Len(s) : s[i] = Notice("hello", c)
  BY <1>1
<1>3. Account(s, {}, {}, FALSE)
  BY <1>1, <1>2, Notes DEF Account, Contains
<1>4. QED
  BY <1>3 DEF s

LEMMA AcceptReported ==
  ASSUME NEW c \in Connection
  PROVE  Account(<<Notice("opened", c)>>, {c}, {}, FALSE)
<1> DEFINE s == <<Notice("opened", c)>>
<1>1. s \in Seq(Report) /\ Len(s) = 1 /\ s[1] = Notice("opened", c)
  BY Forms
<1> HIDE DEF s
<1>2. \A i \in 1 .. Len(s) : s[i] = Notice("opened", c) /\ i = 1
  BY <1>1
<1>3. \A d \in Connection : Contains(s, Notice("opened", d)) <=> d \in {c}
  BY <1>1, <1>2, Notes DEF Contains
<1>4. \A d \in Connection : ~Contains(s, Notice("disconnected", d))
  BY <1>2, Notes DEF Contains
<1>5. Account(s, {c}, {}, FALSE)
  BY <1>1, <1>2, <1>3, <1>4, Notes DEF Account
<1>6. QED
  BY <1>5 DEF s

LEMMA DialsReported ==
  ASSUME NEW cs \in SUBSET Connection, IsFiniteSet(cs)
  PROVE  Account(Notices("opened", cs), cs, {}, FALSE)
<1> DEFINE s == Notices("opened", cs)
<1>1. /\ s \in Seq(Report)
      /\ \A c \in Connection : Contains(s, Notice("opened", c)) <=> c \in cs
      /\ \A i \in 1 .. Len(s) : \E c \in cs : s[i] = Notice("opened", c)
      /\ \A i, j \in 1 .. Len(s) : s[i] = s[j] => i = j
  BY NoticesAre
<1> HIDE DEF s
<1>2. \A d \in Connection : ~Contains(s, Notice("disconnected", d))
  BY <1>1, Notes DEF Contains
<1>3. \A i \in 1 .. Len(s) : s[i] # Stopped
  BY <1>1, Notes
<1>4. \A c \in Connection, i, j \in 1 .. Len(s) :
        s[i] = Notice("opened", c) /\ s[j] = Notice("opened", c) => i = j
  BY <1>1
<1>5. Account(s, cs, {}, FALSE)
  BY <1>1, <1>2, <1>3, <1>4 DEF Account
<1>6. QED
  BY <1>5 DEF s

LEMMA EndsReported ==
  ASSUME NEW cs \in SUBSET Connection, IsFiniteSet(cs)
  PROVE  /\ Account(Notices("disconnected", cs), {}, cs, FALSE)
         /\ Account(Notices("disconnected", cs) \o <<>>, {}, cs, FALSE)
         /\ Account(Notices("disconnected", cs) \o <<Stopped>>, {}, cs, TRUE)
<1> DEFINE s == Notices("disconnected", cs)
           t == s \o <<Stopped>>
<1>1. /\ s \in Seq(Report)
      /\ \A c \in Connection : Contains(s, Notice("disconnected", c)) <=> c \in cs
      /\ \A i \in 1 .. Len(s) : \E c \in cs : s[i] = Notice("disconnected", c)
  BY NoticesAre
<1>2. s \o <<>> = s
  <2> HIDE DEF s
  <2> QED BY <1>1, ConcatEmptySeq
<1>3. <<Stopped>> \in Seq(Report) /\ Len(<<Stopped>>) = 1 /\ <<Stopped>>[1] = Stopped
  BY Forms
<1>4. /\ t \in Seq(Report) /\ Len(t) = Len(s) + 1
      /\ \A i \in 1 .. Len(s) : t[i] = s[i]
      /\ t[Len(s) + 1] = Stopped
      /\ Len(s) \in Nat
  <2> HIDE DEF s
  <2>1. /\ s \o <<Stopped>> \in Seq(Report)
        /\ Len(s \o <<Stopped>>) = Len(s) + Len(<<Stopped>>)
        /\ \A i \in 1 .. Len(s) + Len(<<Stopped>>) :
             (s \o <<Stopped>>)[i] = IF i <= Len(s) THEN s[i] ELSE <<Stopped>>[i - Len(s)]
    BY <1>1, <1>3, ConcatProperties
  <2>2. Len(s) \in Nat
    BY <1>1
  <2> QED BY <1>3, <2>1, <2>2
<1> HIDE DEF s, t
<1>5. \A i \in 1 .. Len(s) : s[i] # Stopped /\ \A c : s[i] # Notice("opened", c)
  BY <1>1, Notes
<1>6. Account(s, {}, cs, FALSE)
  BY <1>1, <1>5 DEF Account, Contains
<1>7. \A i \in 1 .. Len(t) : i \in 1 .. Len(s) \/ i = Len(s) + 1
  BY <1>4
<1>8. ASSUME NEW c \in Connection
      PROVE  /\ Contains(t, Notice("disconnected", c)) <=> c \in cs
             /\ ~Contains(t, Notice("opened", c))
  <2>1. \A i \in 1 .. Len(s) : i \in 1 .. Len(t)
    BY <1>4
  <2>2. Contains(t, Notice("disconnected", c)) <=> Contains(s, Notice("disconnected", c))
    BY <1>4, <1>7, <2>1, Notes DEF Contains
  <2>3. ~Contains(t, Notice("opened", c))
    BY <1>4, <1>5, <1>7, Notes DEF Contains
  <2>4. QED
    BY <1>1, <2>2, <2>3
<1>9. \A i \in 1 .. Len(t) : t[i] = Stopped => i = Len(t)
  BY <1>4, <1>5, <1>7
<1>10. Account(t, {}, cs, TRUE)
  BY <1>4, <1>8, <1>9 DEF Account, Contains
<1>11. QED
  BY <1>2, <1>6, <1>10 DEF s, t

(* The end of a connection is reported after its opening, and a stop of     *)
(* discovery after the end of whatever was opened before it: while one is   *)
(* there, or will be reported as ended, its opening is reported after the   *)
(* stop.                                                                    *)
Ordered(s, here) ==
  \A c \in Connection, i \in 1 .. Len(s) :
    /\ s[i] = Notice("opened", c) =>
         /\ c \in here \/ After(s, i, Notice("disconnected", c))
         /\ \A j \in 1 .. Len(s) : s[j] = Notice("opened", c) => i = j
    /\ s[i] = Stopped /\ (c \in here \/ After(s, i, Notice("disconnected", c)))
         => After(s, i, Notice("opened", c))

LEMMA OrderedTail ==
  ASSUME NEW s \in Seq(Report), s # <<>>, NEW here, Ordered(s, here)
  PROVE  Ordered(Tail(s), here)
<1> DEFINE t == Tail(s)
<1>1. SUFFICES ASSUME NEW c \in Connection, NEW i \in 1 .. Len(t)
               PROVE  /\ t[i] = Notice("opened", c) =>
                           /\ c \in here \/ After(t, i, Notice("disconnected", c))
                           /\ \A j \in 1 .. Len(t) : t[j] = Notice("opened", c) => i = j
                      /\ /\ t[i] = Stopped
                         /\ c \in here \/ After(t, i, Notice("disconnected", c))
                         => After(t, i, Notice("opened", c))
  BY DEF Ordered
<1>2. /\ Len(t) = Len(s) - 1 /\ Len(s) \in Nat
      /\ \A k \in 1 .. Len(t) : t[k] = s[k + 1]
  BY AfterTail
<1>3. i \in 0 .. Len(s) - 1 /\ i + 1 \in 1 .. Len(s)
  BY <1>2
<1>4. /\ After(t, i, Notice("disconnected", c)) <=> After(s, i + 1, Notice("disconnected", c))
      /\ After(t, i, Notice("opened", c)) <=> After(s, i + 1, Notice("opened", c))
  BY <1>3, AfterTail
<1> HIDE DEF t
<1>5. ASSUME NEW j \in 1 .. Len(t), t[i] = Notice("opened", c), t[j] = Notice("opened", c)
      PROVE  i = j
  <2>1. j + 1 \in 1 .. Len(s) /\ s[j + 1] = Notice("opened", c) /\ s[i + 1] = Notice("opened", c)
    BY <1>2, <1>5
  <2>2. i + 1 = j + 1
    BY <1>3, <2>1 DEF Ordered
  <2>3. QED
    BY <1>2, <2>2
<1>6. QED
  BY <1>2, <1>3, <1>4, <1>5 DEF Ordered

LEMMA OrderedGrows ==
  ASSUME NEW s \in Seq(Report), NEW here \in SUBSET Connection, Ordered(s, here),
         NEW list, NEW opened \in SUBSET Connection, NEW gone \in SUBSET here,
         NEW stops, Account(list, opened, gone, stops),
         \A c \in opened : ~Contains(s, Notice("opened", c)),
         opened = {} \/ gone = {},
         stops => gone = here /\ opened = {}
  PROVE  Ordered(s \o list, (here \cup opened) \ gone)
<1> DEFINE u == s \o list
           now == (here \cup opened) \ gone
<1>1. SUFFICES ASSUME NEW c \in Connection, NEW i \in 1 .. Len(u)
               PROVE  /\ u[i] = Notice("opened", c) =>
                           /\ c \in now \/ After(u, i, Notice("disconnected", c))
                           /\ \A j \in 1 .. Len(u) : u[j] = Notice("opened", c) => i = j
                      /\ /\ u[i] = Stopped
                         /\ c \in now \/ After(u, i, Notice("disconnected", c))
                         => After(u, i, Notice("opened", c))
  BY DEF Ordered
<1>2. list \in Seq(Report)
  BY DEF Account
<1>3. /\ Len(u) = Len(s) + Len(list) /\ Len(s) \in Nat /\ Len(list) \in Nat
      /\ \A k \in 1 .. Len(s) : u[k] = s[k]
      /\ \A k \in 1 .. Len(list) : u[Len(s) + k] = list[k]
  BY <1>2, AfterConcat
<1>4. \A x : /\ \A k \in 0 .. Len(s) : After(u, k, x) <=> After(s, k, x) \/ Contains(list, x)
             /\ \A k \in 1 .. Len(list) : After(u, Len(s) + k, x) <=> After(list, k, x)
  BY <1>2, AfterConcat
<1>5. /\ Contains(list, Notice("opened", c)) <=> c \in opened
      /\ Contains(list, Notice("disconnected", c)) <=> c \in gone
  BY DEF Account
<1> HIDE DEF u
<1>6. \A k \in 1 .. Len(u) : k \in 1 .. Len(s) \/ \E l \in 1 .. Len(list) : k = Len(s) + l
  <2>1. TAKE k \in 1 .. Len(u)
  <2>2. CASE k <= Len(s)
    BY <1>3, <2>2
  <2>3. CASE ~(k <= Len(s))
    <3>1. k - Len(s) \in 1 .. Len(list) /\ k = Len(s) + (k - Len(s))
      BY <1>3, <2>3
    <3>2. QED
      BY <3>1
  <2>4. QED
    BY <2>2, <2>3
<1>7. ASSUME NEW j \in 1 .. Len(u), u[i] = Notice("opened", c), u[j] = Notice("opened", c)
      PROVE  i = j
  <2>1. \A k \in 1 .. Len(s), l \in 1 .. Len(list) :
          ~(s[k] = Notice("opened", c) /\ list[l] = Notice("opened", c))
    <3>1. SUFFICES ASSUME NEW k \in 1 .. Len(s), s[k] = Notice("opened", c),
                          NEW l \in 1 .. Len(list), list[l] = Notice("opened", c)
                   PROVE  FALSE
      OBVIOUS
    <3>2. Contains(list, Notice("opened", c)) /\ Contains(s, Notice("opened", c))
      BY <3>1 DEF Contains
    <3>3. QED
      BY <1>5, <3>2
  <2>2. \A k, l \in 1 .. Len(s) :
          s[k] = Notice("opened", c) /\ s[l] = Notice("opened", c) => k = l
    BY DEF Ordered
  <2>3. \A k, l \in 1 .. Len(list) :
          list[k] = Notice("opened", c) /\ list[l] = Notice("opened", c) => k = l
    BY DEF Account
  <2>4. CASE i \in 1 .. Len(s)
    <3>1. s[i] = Notice("opened", c)
      BY <1>3, <1>7, <2>4
    <3>2. ~\E l \in 1 .. Len(list) : j = Len(s) + l
      BY <1>3, <1>7, <2>1, <2>4, <3>1
    <3>3. j \in 1 .. Len(s)
      BY <1>6, <3>2
    <3>4. QED
      BY <1>3, <1>7, <2>2, <2>4, <3>1, <3>3
  <2>5. ASSUME NEW k \in 1 .. Len(list), i = Len(s) + k
        PROVE  i = j
    <3>1. list[k] = Notice("opened", c)
      BY <1>3, <1>7, <2>5
    <3>2. j \notin 1 .. Len(s)
      BY <1>3, <1>7, <2>1, <3>1
    <3>3. PICK l \in 1 .. Len(list) : j = Len(s) + l
      BY <1>6, <3>2
    <3>4. list[l] = Notice("opened", c)
      BY <1>3, <1>7, <3>3
    <3>5. QED
      BY <2>3, <2>5, <3>1, <3>3, <3>4
  <2>6. QED
    BY <1>6, <2>4, <2>5
<1>8. CASE i \in 1 .. Len(s)
  <2>1. u[i] = s[i] /\ i \in 0 .. Len(s)
    BY <1>3, <1>8
  <2>2. /\ After(u, i, Notice("opened", c)) <=> After(s, i, Notice("opened", c)) \/ c \in opened
        /\ After(u, i, Notice("disconnected", c)) <=>
             After(s, i, Notice("disconnected", c)) \/ c \in gone
    BY <1>4, <1>5, <2>1
  <2>3. /\ s[i] = Notice("opened", c) => c \in here \/ After(s, i, Notice("disconnected", c))
        /\ s[i] = Stopped /\ (c \in here \/ After(s, i, Notice("disconnected", c)))
             => After(s, i, Notice("opened", c))
    BY <1>8 DEF Ordered
  <2>4. QED
    BY <1>7, <2>1, <2>2, <2>3
<1>9. ASSUME NEW l \in 1 .. Len(list), i = Len(s) + l
      PROVE  /\ u[i] = Notice("opened", c) =>
                  /\ c \in now \/ After(u, i, Notice("disconnected", c))
                  /\ \A j \in 1 .. Len(u) : u[j] = Notice("opened", c) => i = j
             /\ /\ u[i] = Stopped
                /\ c \in now \/ After(u, i, Notice("disconnected", c))
                => After(u, i, Notice("opened", c))
  <2>1. u[i] = list[l]
    BY <1>3, <1>9
  <2>2. u[i] = Notice("opened", c) => c \in now
    <3>1. u[i] = Notice("opened", c) => c \in opened
      BY <1>5, <2>1 DEF Contains
    <3>2. QED
      BY <3>1
  <2>3. u[i] = Stopped => /\ c \notin now
                          /\ ~After(u, i, Notice("disconnected", c))
    <3>1. HAVE u[i] = Stopped
    <3>2. stops /\ l = Len(list)
      BY <2>1, <3>1 DEF Account
    <3>3. After(u, i, Notice("disconnected", c)) <=> After(list, l, Notice("disconnected", c))
      BY <1>4, <1>9
    <3>4. ~After(list, l, Notice("disconnected", c))
      BY <1>3, <3>2 DEF After
    <3>5. QED
      BY <3>2, <3>3, <3>4
  <2>4. QED
    BY <1>7, <2>2, <2>3
<1>10. QED
  BY <1>6, <1>8, <1>9

----------------------------------------------------------------------------
(* The invariant *)

(* p's end of connection c is there or has been.                            *)
Begun(p, c) ==
  IF p = c[1] THEN c[3] <= dials[<<c[1], c[2]>>] ELSE c \in accepted

(* What p's actor keeps of its connections.                                *)
Held(p) ==
  /\ IsFiniteSet(tasks[p])
  /\ tasks[p] \ cancelled[p] \subseteq table[p]
  /\ table[p] \subseteq tasks[p]
  /\ p \notin found[p]
  /\ \A c \in tasks[p] : p \in {c[1], c[2]} /\ c[1] # c[2] /\ Begun(p, c)

Reports(p, kind, c) == Contains(events[p], Notice(kind, c))

(* What is on its way to p's runtime.                                      *)
Reported(p) ==
  /\ Ordered(events[p], table[p])
  /\ \A c \in Connection :
       /\ Reports(p, "opened", c) => Begun(p, c)
       /\ Reports(p, "disconnected", c) => Begun(p, c) /\ c \notin table[p]

(* What p's runtime knows: no connection before it has heard of its opening, *)
(* and none whose end it has heard of.                                      *)
Knows(p) ==
  /\ authenticated[p] \subseteq sessions[p]
  /\ \A c \in sessions[p] :
       /\ Begun(p, c)
       /\ ~Reports(p, "opened", c)
       /\ c \in table[p] \/ Reports(p, "disconnected", c)
  /\ \A q \in Peer : current[p][q] # None =>
       current[p][q] \in authenticated[p] /\ Other(current[p][q], p) = q

Stops(p) == Contains(commands[p], Order("stopDiscovery"))

(* What p's core has been told: the current connections, but for one that   *)
(* is about to be told, one that a stop is about to end or that has ended,  *)
(* and what a repeated start has made the runtime forget.                   *)
Told(p) ==
  /\ starts[p] = 0 =>
       /\ ~configured[p] /\ sessions[p] = {}
       /\ telling[p] = Silence /\ connection[p] = Nobody
  /\ telling[p] # Silence => telling[p].kind \in {"authenticated", "disconnected"}
  /\ \A c \in Connection :
       /\ telling[p] = Notice("disconnected", c) => current[p][Other(c, p)] = None
       /\ telling[p] = Notice("authenticated", c) =>
            \/ current[p][Other(c, p)] = c
            \/ current[p][Other(c, p)] = None /\ starts[p] > 1
  /\ \A q \in Peer :
       /\ connection[p][q] # None =>
            connection[p][q] \in known[p] /\ Other(connection[p][q], p) = q
       /\ current[p][q] # None =>
            \/ telling[p] = Notice("authenticated", current[p][q])
            \/ connection[p][q] = current[p][q]
            \/ connection[p][q] = None /\ (Stops(p) \/ current[p][q] \notin table[p])
       /\ current[p][q] = None /\ connection[p][q] # None =>
            \/ telling[p] = Notice("disconnected", connection[p][q])
            \/ starts[p] > 1

Own(p) == Held(p) /\ Reported(p) /\ Knows(p) /\ Told(p)

Alive(p, c) == c \in tasks[p] \ cancelled[p]

(* A command is under way after which p's end of c is no more.             *)
Doomed(p, c) ==
  \/ Contains(commands[p], Order("startDiscovery")) \/ Stops(p)
  \/ Contains(commands[p], Command("disconnect", c))

(* p has been greeted over c, and has made it the current one unless its    *)
(* end of c is no more.                                                     *)
Greeted(p, c) ==
  /\ Begun(p, c)
  /\ \/ Reports(p, "hello", c)
     \/ current[p][Other(c, p)] = c
     \/ Doomed(p, c)
     \/ ~Alive(p, c)

(* The greeting of p over c is under way or has arrived.                   *)
Greets(p, c) ==
  \/ Reports(p, "opened", c)
  \/ Contains(commands[p], Command("hello", c))
  \/ <<c, p>> \in hellos
  \/ Doomed(p, c)
  \/ Greeted(Other(c, p), c)

Inv ==
  /\ TypeOK
  /\ \A p \in Peer :
       /\ Own(p)
       /\ \A c \in Connection : Alive(p, c) => Greets(p, c)

(* A step leaves a device alone.                                           *)
Quiet(q) ==
  /\ tasks'[q] = tasks[q] /\ cancelled'[q] = cancelled[q] /\ table'[q] = table[q]
  /\ found'[q] = found[q] /\ events'[q] = events[q] /\ commands'[q] = commands[q]
  /\ configured'[q] = configured[q] /\ sessions'[q] = sessions[q]
  /\ authenticated'[q] = authenticated[q] /\ current'[q] = current[q]
  /\ telling'[q] = telling[q] /\ connection'[q] = connection[q]
  /\ known'[q] = known[q] /\ starts'[q] = starts[q]

(* A connection that has begun has begun for ever: numbers are not used     *)
(* again, and it is accepted once.                                          *)
BegunStays == \A q \in Peer, c \in Connection : Begun(q, c) => Begun(q, c)'

StepOf(p) == TypeOK' /\ BegunStays /\ \A q \in Peer \ {p} : Quiet(q)

(* What a step of p must do for Inv to hold after it.                      *)
Serves(p) ==
  /\ Own(p)'
  /\ \A c \in Connection :
       /\ Greeted(p, c) => Greeted(p, c)'
       /\ Alive(p, c)' => Greets(p, c)'
       /\ \A q \in Peer \ {p} :
            <<c, q>> \in hellos => <<c, q>> \in hellos' \/ Greeted(Other(c, q), c)'

LEMMA Ends ==
  ASSUME NEW c \in Connection
  PROVE  /\ c[1] \in Peer /\ c[2] \in Peer /\ c[3] \in Nat /\ c = <<c[1], c[2], c[3]>>
         /\ \A p : Other(c, p) \in Peer
         /\ \A p : p \in {c[1], c[2]} /\ c[1] # c[2] =>
              /\ Other(c, p) # p /\ Other(c, Other(c, p)) = p
              /\ Other(c, p) \in {c[1], c[2]}
         /\ c # None
<1>1. c[1] \in Peer /\ c[2] \in Peer /\ c[3] \in Nat /\ c = <<c[1], c[2], c[3]>>
  BY DEF Connection
<1>2. <<c[1], c[2], c[3]>> # <<>>
  OBVIOUS
<1>3. c # None
  BY <1>1, <1>2 DEF None
<1>4. \A p : Other(c, p) \in {c[1], c[2]} /\ Other(c, p) \in Peer
  BY <1>1 DEF Other
<1>5. \A p : p \in {c[1], c[2]} /\ c[1] # c[2] =>
        Other(c, p) # p /\ Other(c, Other(c, p)) = p
  BY DEF Other
<1>6. QED
  BY <1>1, <1>3, <1>4, <1>5

LEMMA OwnTyped ==
  ASSUME TypeOK, NEW p \in Peer
  PROVE  /\ tasks[p] \in SUBSET Connection /\ table[p] \in SUBSET Connection
         /\ cancelled[p] \in SUBSET Connection /\ found[p] \in SUBSET Peer
         /\ events[p] \in Seq(Report) /\ commands[p] \in Seq(Request)
         /\ configured[p] \in BOOLEAN
         /\ sessions[p] \in SUBSET Connection /\ authenticated[p] \in SUBSET Connection
         /\ current[p] \in [Peer -> Connection \cup {None}]
         /\ connection[p] \in [Peer -> Connection \cup {None}]
         /\ telling[p] \in Report /\ known[p] \in SUBSET Connection
         /\ starts[p] \in Nat
BY TypesAre DEF Types, Links

LEMMA QuietKeeps ==
  ASSUME TypeOK, NEW q \in Peer, Own(q), Quiet(q), BegunStays
  PROVE  /\ Own(q)'
         /\ \A c \in Connection :
              /\ Alive(q, c)' <=> Alive(q, c)
              /\ Doomed(q, c)' <=> Doomed(q, c)
              /\ Reports(q, "opened", c)' <=> Reports(q, "opened", c)
              /\ Greeted(q, c) => Greeted(q, c)'
<1>1. \A c \in Connection : Begun(q, c) => Begun(q, c)'
  BY DEF BegunStays
<1>2. tasks[q] \subseteq Connection /\ table[q] \subseteq Connection /\ sessions[q] \subseteq Connection
  BY OwnTyped
<1>3. Held(q)'
  BY <1>1, <1>2 DEF Own, Held, Quiet
<1>4. Reported(q)'
  BY <1>1 DEF Own, Reported, Reports, Quiet
<1>5. Knows(q)'
  BY <1>1, <1>2 DEF Own, Knows, Reports, Quiet
<1>6. Told(q)'
  BY DEF Own, Told, Stops, Quiet
<1>7. ASSUME NEW c \in Connection
      PROVE  /\ Alive(q, c)' <=> Alive(q, c)
             /\ Doomed(q, c)' <=> Doomed(q, c)
             /\ Reports(q, "opened", c)' <=> Reports(q, "opened", c)
             /\ Greeted(q, c) => Greeted(q, c)'
  BY <1>1 DEF Alive, Doomed, Stops, Reports, Greeted, Quiet
<1>8. QED
  BY <1>3, <1>4, <1>5, <1>6, <1>7 DEF Own

(* A step of one device, for all devices.                                   *)
LEMMA Combines ==
  ASSUME Inv, NEW p \in Peer, StepOf(p), Serves(p)
  PROVE  Inv'
<1>1. TypeOK /\ TypeOK' /\ BegunStays /\ \A q \in Peer : Own(q)
  BY DEF Inv, StepOf
<1>2. \A q \in Peer \ {p} : Quiet(q)
  BY DEF StepOf
<1>3. \A q \in Peer : Own(q)'
  BY <1>1, <1>2, QuietKeeps DEF Serves
<1>4. \A q \in Peer, c \in Connection : Greeted(q, c) => Greeted(q, c)'
  BY <1>1, <1>2, QuietKeeps DEF Serves
<1>5. ASSUME NEW q \in Peer \ {p}, NEW c \in Connection, Alive(q, c)'
      PROVE  Greets(q, c)'
  <2>1. Quiet(q) /\ Own(q)
    BY <1>1, <1>2
  <2>2. Greets(q, c)
    BY <1>1, <1>5, <2>1, QuietKeeps DEF Inv
  <2>3. CASE Reports(q, "opened", c) \/ Doomed(q, c)
    BY <1>1, <2>1, <2>3, QuietKeeps DEF Greets
  <2>4. CASE Contains(commands[q], Command("hello", c))
    BY <2>1, <2>4 DEF Greets, Quiet
  <2>5. CASE <<c, q>> \in hellos
    BY <2>5 DEF Serves, Greets
  <2>6. CASE Greeted(Other(c, q), c)
    BY <1>4, <2>6, Ends DEF Greets
  <2>7. QED
    BY <2>2, <2>3, <2>4, <2>5, <2>6 DEF Greets
<1>6. \A q \in Peer, c \in Connection : Alive(q, c)' => Greets(q, c)'
  BY <1>5 DEF Serves
<1>7. QED
  BY <1>1, <1>3, <1>6 DEF Inv

----------------------------------------------------------------------------
(* Steps of the actor *)

(* The actor of p appends list to its reports, in which it has opened and   *)
(* ended connections and perhaps stopped; it may take a command, and         *)
(* forgets no greeting.                                                     *)
Acts(p, list, opened, gone, stops) ==
  /\ Account(list, opened, gone, stops)
  /\ opened \in SUBSET Connection /\ IsFiniteSet(opened)
  /\ gone \in SUBSET table[p]
  /\ opened = {} \/ gone = {}
  /\ stops => gone = table[p] /\ opened = {}
  /\ \A c \in opened :
       /\ ~Begun(p, c) /\ Begun(p, c)'
       /\ p \in {c[1], c[2]} /\ c[1] # c[2]
  /\ events'[p] = events[p] \o list
  /\ table'[p] = (table[p] \cup opened) \ gone
  /\ tasks'[p] \subseteq tasks[p] \cup opened
  /\ table'[p] \subseteq tasks'[p]
  /\ tasks'[p] \ cancelled'[p] \subseteq table'[p]
  /\ \A c \in Connection : Alive(p, c)' => Alive(p, c) \/ c \in opened
  /\ p \notin found'[p]
  /\ configured'[p] = configured[p] /\ sessions'[p] = sessions[p]
  /\ authenticated'[p] = authenticated[p] /\ current'[p] = current[p]
  /\ telling'[p] = telling[p] /\ connection'[p] = connection[p]
  /\ known'[p] = known[p] /\ starts'[p] = starts[p]
  /\ Stops(p) => Stops(p)' \/ table'[p] = {}
  /\ \A c \in Connection :
       /\ Doomed(p, c) /\ Alive(p, c)' => Doomed(p, c)'
       /\ Contains(commands[p], Command("hello", c)) /\ Alive(p, c)' =>
            Contains(commands[p], Command("hello", c))' \/ <<c, p>> \in hellos'
       /\ <<c, p>> \in hellos => <<c, p>> \in hellos'
       /\ \A q \in Peer \ {p} : <<c, q>> \in hellos =>
            \/ <<c, q>> \in hellos'
            \/ p = Other(c, q) /\ c \in table[p] /\ Contains(list, Notice("hello", c))

(* What was reported is reported, with what the list adds.                  *)
LEMMA ActsReports ==
  ASSUME TypeOK, NEW p \in Peer, NEW list, NEW opened, NEW gone, NEW stops,
         Acts(p, list, opened, gone, stops), NEW kind, NEW c \in Connection
  PROVE  /\ Reports(p, kind, c)' <=>
              Reports(p, kind, c) \/ Contains(list, Notice(kind, c))
         /\ Contains(list, Notice("opened", c)) <=> c \in opened
         /\ Contains(list, Notice("disconnected", c)) <=> c \in gone
<1>1. events[p] \in Seq(Report) /\ list \in Seq(Report) /\ events'[p] = events[p] \o list
  BY OwnTyped DEF Acts, Account
<1>2. 0 \in 0 .. Len(events[p])
  BY <1>1
<1>3. \A x : After(events[p] \o list, 0, x) <=> After(events[p], 0, x) \/ Contains(list, x)
  BY <1>1, <1>2, AfterConcat
<1>4. Reports(p, kind, c)' <=> Reports(p, kind, c) \/ Contains(list, Notice(kind, c))
  BY <1>1, <1>3, ContainsIsAfter DEF Reports
<1>5. QED
  BY <1>4 DEF Acts, Account

LEMMA ActsOwn ==
  ASSUME TypeOK, NEW p \in Peer, Own(p), BegunStays, NEW list, NEW opened, NEW gone, NEW stops,
         Acts(p, list, opened, gone, stops)
  PROVE  Own(p)'
<1>1. \A c \in Connection : Begun(p, c) => Begun(p, c)'
  BY DEF BegunStays
<1>2. /\ tasks[p] \subseteq Connection /\ table[p] \subseteq Connection
      /\ sessions[p] \subseteq Connection /\ events[p] \in Seq(Report)
  BY OwnTyped
<1>3. /\ opened \in SUBSET Connection /\ IsFiniteSet(opened) /\ gone \in SUBSET table[p]
      /\ opened = {} \/ gone = {}
      /\ table'[p] = (table[p] \cup opened) \ gone
      /\ tasks'[p] \subseteq tasks[p] \cup opened
      /\ \A c \in opened : ~Begun(p, c) /\ Begun(p, c)' /\ p \in {c[1], c[2]} /\ c[1] # c[2]
      /\ events'[p] = events[p] \o list
  BY DEF Acts
<1>4. Held(p)'
  <2>1. IsFiniteSet(tasks[p] \cup opened)
    BY <1>3, FS_Union DEF Own, Held
  <2>2. IsFiniteSet(tasks'[p])
    BY <1>3, <2>1, FS_Subset
  <2>3. /\ tasks'[p] \ cancelled'[p] \subseteq table'[p]
        /\ table'[p] \subseteq tasks'[p] /\ p \notin found'[p]
    BY DEF Acts
  <2>4. ASSUME NEW c \in tasks'[p]
        PROVE  p \in {c[1], c[2]} /\ c[1] # c[2] /\ Begun(p, c)'
    <3>1. CASE c \in tasks[p]
      BY <1>1, <1>2, <3>1 DEF Own, Held
    <3>2. CASE c \in opened
      BY <1>3, <3>2
    <3>3. QED
      BY <1>3, <2>4, <3>1, <3>2
  <2>5. QED
    BY <2>2, <2>3, <2>4 DEF Held
<1>5. Reported(p)'
  <2>1. Ordered(events[p] \o list, (table[p] \cup opened) \ gone)
    <3>1. Ordered(events[p], table[p])
      BY DEF Own, Reported
    <3>2. \A c \in opened : ~Contains(events[p], Notice("opened", c))
      BY <1>3 DEF Own, Reported, Reports
    <3>3. Account(list, opened, gone, stops) /\ (stops => gone = table[p] /\ opened = {})
      BY DEF Acts
    <3>4. QED
      BY <1>2, <1>3, <3>1, <3>2, <3>3, OrderedGrows
  <2>2. ASSUME NEW c \in Connection, Reports(p, "opened", c)'
        PROVE  Begun(p, c)'
    BY <1>1, <1>3, <2>2, ActsReports DEF Own, Reported
  <2>3. ASSUME NEW c \in Connection, Reports(p, "disconnected", c)'
        PROVE  Begun(p, c)' /\ c \notin table'[p]
    <3>1. Reports(p, "disconnected", c) \/ c \in gone
      BY <2>3, ActsReports
    <3>2. CASE c \in gone
      <4>1. c \in tasks[p]
        BY <1>3, <3>2 DEF Own, Held
      <4>2. QED
        BY <1>1, <1>3, <3>2, <4>1 DEF Own, Held
    <3>3. CASE Reports(p, "disconnected", c)
      <4>1. Begun(p, c) /\ c \notin table[p]
        BY <3>3 DEF Own, Reported
      <4>2. QED
        BY <1>1, <1>3, <4>1
    <3>4. QED
      BY <3>1, <3>2, <3>3
  <2>4. QED
    BY <1>3, <2>1, <2>2, <2>3 DEF Reported
<1>6. Knows(p)'
  <2>1. /\ sessions'[p] = sessions[p] /\ authenticated'[p] = authenticated[p]
        /\ current'[p] = current[p]
    BY DEF Acts
  <2>2. ASSUME NEW c \in sessions[p]
        PROVE  /\ Begun(p, c)' /\ ~Reports(p, "opened", c)'
               /\ c \in table'[p] \/ Reports(p, "disconnected", c)'
    <3>1. /\ Begun(p, c) /\ ~Reports(p, "opened", c) /\ c \in Connection
          /\ c \in table[p] \/ Reports(p, "disconnected", c)
      BY <1>2 DEF Own, Knows
    <3>2. c \notin opened
      BY <1>3, <3>1
    <3>3. QED
      BY <1>1, <1>3, <3>1, <3>2, ActsReports
  <2>3. QED
    BY <2>1, <2>2 DEF Own, Knows
<1>7. Told(p)'
  <2>1. /\ sessions'[p] = sessions[p] /\ configured'[p] = configured[p]
        /\ current'[p] = current[p] /\ telling'[p] = telling[p]
        /\ connection'[p] = connection[p] /\ known'[p] = known[p] /\ starts'[p] = starts[p]
        /\ Stops(p) => Stops(p)' \/ table'[p] = {}
    BY DEF Acts
  <2>2. ASSUME NEW q \in Peer, current[p][q] # None, current[p][q] \notin table[p]
        PROVE  current[p][q] \notin table'[p]
    <3>1. current[p][q] \in sessions[p]
      BY <2>2 DEF Own, Knows
    <3>2. Begun(p, current[p][q])
      BY <3>1 DEF Own, Knows
    <3>3. QED
      BY <1>3, <2>2, <3>2
  <2>3. ASSUME NEW q \in Peer, current[p][q] # None
        PROVE  \/ telling[p] = Notice("authenticated", current[p][q])
               \/ connection[p][q] = current[p][q]
               \/ connection[p][q] = None /\ (Stops(p)' \/ current[p][q] \notin table'[p])
    BY <2>1, <2>2, <2>3 DEF Own, Told
  <2>4. QED
    BY <2>1, <2>3 DEF Own, Told
<1>8. QED
  BY <1>4, <1>5, <1>6, <1>7 DEF Own

LEMMA ActsServes ==
  ASSUME Inv, NEW p \in Peer, StepOf(p), NEW list, NEW opened, NEW gone, NEW stops,
         Acts(p, list, opened, gone, stops)
  PROVE  Inv'
<1>1. TypeOK /\ TypeOK' /\ BegunStays /\ Own(p)
  BY DEF Inv, StepOf
<1>2. Own(p)'
  BY <1>1, ActsOwn
<1>3. ASSUME NEW c \in Connection
      PROVE  Greeted(p, c) => Greeted(p, c)'
  <2>1. HAVE Greeted(p, c)
  <2>2. Begun(p, c) /\ Begun(p, c)'
    BY <1>1, <2>1 DEF Greeted, BegunStays
  <2>3. CASE Reports(p, "hello", c)
    <3>1. Reports(p, "hello", c)'
      BY <1>1, <2>3, ActsReports
    <3>2. QED
      BY <2>2, <3>1 DEF Greeted
  <2>4. CASE current[p][Other(c, p)] = c
    <3>1. current'[p] = current[p]
      BY DEF Acts
    <3>2. QED
      BY <2>2, <2>4, <3>1 DEF Greeted
  <2>5. CASE ~Alive(p, c)
    <3>1. ~Alive(p, c)'
      BY <2>2, <2>5 DEF Acts
    <3>2. QED
      BY <2>2, <3>1 DEF Greeted
  <2>6. CASE Doomed(p, c)
    <3>1. ~Alive(p, c)' \/ Doomed(p, c)'
      BY <2>6 DEF Acts
    <3>2. QED
      BY <2>2, <3>1 DEF Greeted
  <2>7. QED
    BY <2>1, <2>3, <2>4, <2>5, <2>6 DEF Greeted
<1>4. ASSUME NEW c \in Connection, NEW q \in Peer \ {p}, <<c, q>> \in hellos
      PROVE  <<c, q>> \in hellos' \/ Greeted(Other(c, q), c)'
  <2>1. ASSUME p = Other(c, q), c \in table[p], Contains(list, Notice("hello", c))
        PROVE  Greeted(p, c)'
    <3>1. Begun(p, c)'
      BY <1>1, <2>1 DEF Own, Held, BegunStays
    <3>2. Reports(p, "hello", c)'
      BY <1>1, <2>1, ActsReports
    <3>3. QED
      BY <3>1, <3>2 DEF Greeted
  <2>2. QED
    BY <1>4, <2>1 DEF Acts
<1>5. \A q \in Peer, c \in Connection : Greeted(q, c) => Greeted(q, c)'
  <2>1. TAKE q \in Peer, c \in Connection
  <2>2. CASE q = p
    BY <1>3, <2>2
  <2>3. CASE q # p
    BY <1>1, <2>3, QuietKeeps DEF Inv, StepOf
  <2>4. QED
    BY <2>2, <2>3
<1>6. ASSUME NEW c \in Connection, Alive(p, c)'
      PROVE  Greets(p, c)'
  <2>1. CASE c \in opened
    <3>1. Reports(p, "opened", c)'
      BY <1>1, <2>1, ActsReports
    <3>2. QED
      BY <3>1 DEF Greets
  <2>2. CASE c \notin opened
    <3>1. Greets(p, c)
      BY <1>6, <2>2 DEF Acts, Inv
    <3>2. CASE Reports(p, "opened", c)
      <4>1. Reports(p, "opened", c)'
        BY <1>1, <3>2, ActsReports
      <4>2. QED
        BY <4>1 DEF Greets
    <3>3. CASE Contains(commands[p], Command("hello", c))
      <4>1. Contains(commands[p], Command("hello", c))' \/ <<c, p>> \in hellos'
        BY <1>6, <3>3 DEF Acts
      <4>2. QED
        BY <4>1 DEF Greets
    <3>4. CASE <<c, p>> \in hellos
      BY <3>4 DEF Acts, Greets
    <3>5. CASE Doomed(p, c)
      <4>1. Doomed(p, c)'
        BY <1>6, <3>5 DEF Acts
      <4>2. QED
        BY <4>1 DEF Greets
    <3>6. CASE Greeted(Other(c, p), c)
      BY <1>5, <3>6, Ends DEF Greets
    <3>7. QED
      BY <3>1, <3>2, <3>3, <3>4, <3>5, <3>6 DEF Greets
  <2>3. QED
    BY <2>1, <2>2
<1>7. Serves(p)
  BY <1>2, <1>3, <1>4, <1>6 DEF Serves
<1>8. QED
  BY <1>7, Combines

LEMMA BegunSame ==
  ASSUME UNCHANGED <<dials, accepted>>
  PROVE  BegunStays /\ \A q \in Peer, c \in Connection : Begun(q, c)' <=> Begun(q, c)
BY DEF BegunStays, Begun

(* The actor takes a command.                                              *)
LEMMA Taken ==
  ASSUME TypeOK, NEW p \in Peer, NEW kind, Takes(p, kind)
  PROVE  /\ commands' \in [Peer -> Seq(Request)]
         /\ \A q \in Peer \ {p} : commands'[q] = commands[q]
         /\ Head(commands[p]) \in Request /\ Head(commands[p]).kind = kind
         /\ \A x : Contains(commands[p], x) <=>
                     Head(commands[p]) = x \/ Contains(commands'[p], x)
<1>1. commands \in [Peer -> Seq(Request)]
  BY TypesAre DEF Types
<1>2. commands[p] \in Seq(Request) /\ commands[p] # <<>>
  BY <1>1 DEF Takes
<1>3. Tail(commands[p]) \in Seq(Request) /\ Head(commands[p]) \in Request
  BY <1>2, AfterTail
<1>4. commands' = [commands EXCEPT ![p] = Tail(commands[p])]
  BY DEF Takes
<1>5. \A x : Contains(commands[p], x) <=>
               Head(commands[p]) = x \/ Contains(Tail(commands[p]), x)
  BY <1>2, AfterTail
<1>6. commands'[p] = Tail(commands[p])
  BY <1>1, <1>4
<1>7. QED
  BY <1>1, <1>3, <1>4, <1>5, <1>6 DEF Takes

(* The reports of an actor.                                                *)
LEMMA Emitted ==
  ASSUME TypeOK, NEW p \in Peer, NEW list \in Seq(Report), Emits(p, list)
  PROVE  /\ events' \in [Peer -> Seq(Report)]
         /\ events'[p] = events[p] \o list
         /\ \A q \in Peer \ {p} : events'[q] = events[q]
<1>1. events \in [Peer -> Seq(Report)]
  BY TypesAre DEF Types
<1>2. events' = [events EXCEPT ![p] = events[p] \o list]
  BY DEF Emits
<1>3. events[p] \o list \in Seq(Report)
  BY <1>1
<1>4. QED
  BY <1>1, <1>2, <1>3

LEMMA Emptied ==
  ASSUME Inv, NEW p \in Peer
  PROVE  table[p] \in SUBSET Connection /\ IsFiniteSet(table[p])
<1>1. IsFiniteSet(tasks[p]) /\ table[p] \in SUBSET tasks[p]
  BY DEF Inv, Own, Held
<1>2. QED
  BY <1>1, FS_Subset, OwnTyped DEF Inv

(* A reset: every connection is reported as ended and cancelled.            *)
LEMMA ResetServes ==
  ASSUME Inv, NEW p \in Peer, NEW kind, Takes(p, kind), NEW again \in BOOLEAN, NEW last,
         \/ last = <<>>
         \/ last = <<Stopped>>,
         Reset(p, again, last)
  PROVE  Inv'
<1> DEFINE list == Notices("disconnected", table[p]) \o last
<1>1. TypeOK /\ Types /\ Own(p)
  BY TypesAre DEF Inv
<1>2. table[p] \in SUBSET Connection /\ IsFiniteSet(table[p])
  BY Emptied
<1>3. PICK stops \in BOOLEAN : Account(list, {}, table[p], stops)
  BY <1>2, EndsReported
<1>4. list \in Seq(Report)
  BY <1>3 DEF Account
<1>5. Emits(p, list)
  BY DEF Reset
<1> HIDE DEF list
<1>6. /\ events' \in [Peer -> Seq(Report)]
      /\ events'[p] = events[p] \o list
      /\ \A q \in Peer \ {p} : events'[q] = events[q]
  BY <1>1, <1>4, <1>5, Emitted
<1>7. /\ commands' \in [Peer -> Seq(Request)]
      /\ \A q \in Peer \ {p} : commands'[q] = commands[q]
  BY <1>1, Taken
<1>8. /\ running' = [running EXCEPT ![p] = again]
      /\ news' = [q \in Peer |-> q # p \/ again]
      /\ keys' = [keys EXCEPT ![p] = {}]
      /\ found' = [found EXCEPT ![p] = {}]
      /\ table' = [table EXCEPT ![p] = {}]
      /\ cancelled' = [cancelled EXCEPT ![p] = tasks[p]]
      /\ UNCHANGED <<tasks, retries, dials, accepted, failed, hellos, configured, sessions,
                     authenticated, current, telling, connection, known, starts,
                     resets, drops>>
  BY DEF Reset, network, runtime, core, bounds
<1>9. TypeOK'
  <2>1. Types'
    BY <1>1, <1>6, <1>7, <1>8 DEF Types
  <2>2. QED
    BY <2>1, TypesAre
<1>10. BegunStays
  BY <1>8, BegunSame
<1>11. \A q \in Peer \ {p} : Quiet(q)
  BY <1>1, <1>6, <1>7, <1>8 DEF Quiet, Types
<1>12. /\ found'[p] = {} /\ table'[p] = {} /\ cancelled'[p] = tasks[p] /\ tasks'[p] = tasks[p]
  BY <1>1, <1>8 DEF Types
<1>13. Acts(p, list, {}, table[p], stops)
  <2>1. \A c \in Connection : ~Alive(p, c)'
    BY <1>12 DEF Alive
  <2>2. IsFiniteSet({})
    BY FS_EmptySet
  <2>3. \A q, c : <<c, q>> \in hellos => <<c, q>> \in hellos'
    BY <1>8
  <2>4. QED
    BY <1>3, <1>6, <1>8, <1>12, <2>1, <2>2, <2>3 DEF Acts
<1>14. QED
  BY <1>9, <1>10, <1>11, <1>13, ActsServes DEF StepOf

(* The actor starts anew or stops: it ends every connection it has.         *)
LEMMA RunStartServes ==
  ASSUME Inv, NEW p \in Peer, RunStart(p) \/ RunStop(p)
  PROVE  Inv'
BY ResetServes DEF RunStart, RunStop

(* The actor goes on to its next command.                                   *)
LEMMA SilentServes ==
  ASSUME Inv, NEW p \in Peer, NEW kind, Takes(p, kind), TypeOK',
         UNCHANGED <<found, table, tasks, dials, accepted, events, runtime,
                     telling, core, bounds>>,
         \A q \in Peer \ {p} : cancelled'[q] = cancelled[q],
         cancelled[p] \subseteq cancelled'[p],
         hellos \subseteq hellos',
         kind \notin {"startDiscovery", "stopDiscovery"},
         kind = "disconnect" => LET c == Head(commands[p]).connection
                                IN  c \in table[p] => c \in cancelled'[p],
         kind = "hello" => LET c == Head(commands[p]).connection
                           IN  c \in table[p] => <<c, p>> \in hellos'
  PROVE  Inv'
<1>1. TypeOK /\ Types /\ Own(p)
  BY TypesAre DEF Inv
<1>2. BegunStays
  BY BegunSame
<1>3. /\ \A q \in Peer \ {p} : commands'[q] = commands[q]
      /\ Head(commands[p]) \in Request /\ Head(commands[p]).kind = kind
      /\ \A x : Contains(commands[p], x) <=>
                  Head(commands[p]) = x \/ Contains(commands'[p], x)
  BY <1>1, Taken
<1>4. \A q \in Peer \ {p} : Quiet(q)
  BY <1>3 DEF Quiet, runtime, core, bounds
<1>5. \A c \in Connection : Alive(p, c)' => Alive(p, c) /\ c \in table[p]
  BY DEF Alive, Own, Held, Inv
<1>6. \A kd \in {"startDiscovery", "stopDiscovery"} :
        Contains(commands[p], Order(kd)) => Contains(commands'[p], Order(kd))
  BY <1>3, Notes
<1>7. ASSUME NEW c \in Connection, Contains(commands[p], Command("disconnect", c)), Alive(p, c)'
      PROVE  Contains(commands'[p], Command("disconnect", c))
  <2>1. ASSUME Head(commands[p]) = Command("disconnect", c) PROVE FALSE
    <3>1. kind = "disconnect" /\ Head(commands[p]).connection = c
      BY <1>3, <2>1, Notes
    <3>2. c \in cancelled'[p]
      BY <1>5, <1>7, <3>1
    <3>3. QED
      BY <1>7, <3>2 DEF Alive
  <2>2. QED
    BY <1>3, <1>7, <2>1
<1>8. ASSUME NEW c \in Connection, Contains(commands[p], Command("hello", c)), Alive(p, c)'
      PROVE  Contains(commands'[p], Command("hello", c)) \/ <<c, p>> \in hellos'
  <2>1. CASE Head(commands[p]) = Command("hello", c)
    <3>1. kind = "hello" /\ Head(commands[p]).connection = c
      BY <1>3, <2>1, Notes
    <3>2. QED
      BY <1>5, <1>8, <3>1
  <2>2. CASE Head(commands[p]) # Command("hello", c)
    BY <1>3, <1>8, <2>2
  <2>3. QED
    BY <2>1, <2>2
<1>9. Acts(p, <<>>, {}, {}, FALSE)
  <2>1. /\ events'[p] = events[p] \o <<>>
        /\ table'[p] = (table[p] \cup {}) \ {}
        /\ tasks'[p] \subseteq tasks[p] \cup {}
        /\ p \notin found'[p] /\ table'[p] \subseteq tasks'[p]
        /\ tasks'[p] \ cancelled'[p] \subseteq table'[p]
    BY <1>1, OwnTyped DEF Own, Held
  <2>2. /\ configured'[p] = configured[p] /\ sessions'[p] = sessions[p]
        /\ authenticated'[p] = authenticated[p] /\ current'[p] = current[p]
        /\ telling'[p] = telling[p] /\ connection'[p] = connection[p]
        /\ known'[p] = known[p] /\ starts'[p] = starts[p]
    BY DEF runtime, core, bounds
  <2>3. \A c \in Connection : Doomed(p, c) /\ Alive(p, c)' => Doomed(p, c)'
    BY <1>6, <1>7 DEF Doomed, Stops
  <2>4. Stops(p) => Stops(p)'
    BY <1>6 DEF Stops
  <2>5. IsFiniteSet({})
    BY FS_EmptySet
  <2>6. QED
    BY <1>5, <1>8, <2>1, <2>2, <2>3, <2>4, <2>5, NothingReported DEF Acts
<1>10. QED
  BY <1>2, <1>4, <1>9, ActsServes DEF StepOf

LEMMA RunSetRealtimeServes ==
  ASSUME Inv, NEW p \in Peer, RunSetRealtime(p)
  PROVE  Inv'
<1>1. Takes(p, "setRealtime")
  BY DEF RunSetRealtime
<1>2. CASE running[p]
  <2>1. Reset(p, TRUE, <<>>)
    BY <1>2 DEF RunSetRealtime
  <2>2. QED
    BY <1>1, <2>1, ResetServes
<1>3. CASE ~running[p]
  <2>1. UNCHANGED <<native, network, events, runtime, telling, core, bounds>>
    BY <1>3 DEF RunSetRealtime
  <2>2. TypeOK /\ Types
    BY TypesAre DEF Inv
  <2>3. commands' \in [Peer -> Seq(Request)]
    BY <1>1, <2>2, Taken
  <2>4. Types'
    BY <2>1, <2>2, <2>3 DEF Types, native, network, runtime, core, bounds
  <2>5. TypeOK'
    BY <2>4, TypesAre
  <2>6. UNCHANGED <<found, table, tasks, cancelled, dials, accepted, hellos>>
    BY <2>1 DEF native, network
  <2>7. QED
    BY <1>1, <2>1, <2>5, <2>6, SilentServes
<1>4. QED
  BY <1>2, <1>3

LEMMA RunDisconnectServes ==
  ASSUME Inv, NEW p \in Peer, RunDisconnect(p)
  PROVE  Inv'
<1> DEFINE c == Head(commands[p]).connection
<1>1. Takes(p, "disconnect")
  BY DEF RunDisconnect
<1>2. TypeOK /\ Types
  BY TypesAre DEF Inv
<1>3. commands' \in [Peer -> Seq(Request)]
  BY <1>1, <1>2, Taken
<1>4. /\ cancelled' = [cancelled EXCEPT ![p] = cancelled[p] \cup ({c} \cap table[p])]
      /\ UNCHANGED <<running, news, keys, found, table, tasks, retries, network,
                     events, runtime, telling, core, bounds>>
  BY DEF RunDisconnect
<1> HIDE DEF c
<1>5. cancelled[p] \cup ({c} \cap table[p]) \in SUBSET Connection
  BY <1>2, OwnTyped
<1>6. Types'
  BY <1>2, <1>3, <1>4, <1>5 DEF Types, network, runtime, core, bounds
<1>7. TypeOK'
  BY <1>6, TypesAre
<1>8. /\ \A q \in Peer \ {p} : cancelled'[q] = cancelled[q]
      /\ cancelled'[p] = cancelled[p] \cup ({c} \cap table[p])
  BY <1>2, <1>4 DEF Types
<1>9. UNCHANGED <<dials, accepted, hellos>>
  BY <1>4 DEF network
<1>10. c \in table[p] => c \in cancelled'[p]
  BY <1>8
<1>11. QED
  BY <1>1, <1>4, <1>7, <1>8, <1>9, <1>10, SilentServes DEF c

LEMMA RunSendHelloServes ==
  ASSUME Inv, NEW p \in Peer, RunSendHello(p)
  PROVE  Inv'
<1> DEFINE c == Head(commands[p]).connection
<1>1. Takes(p, "hello")
  BY DEF RunSendHello
<1>2. TypeOK /\ Types
  BY TypesAre DEF Inv
<1>3. commands' \in [Peer -> Seq(Request)]
  BY <1>1, <1>2, Taken
<1>4. /\ hellos' = hellos \cup ({c} \cap table[p]) \X {p}
      /\ UNCHANGED <<native, dials, accepted, failed, events, runtime, telling, core,
                     bounds>>
  BY DEF RunSendHello
<1> HIDE DEF c
<1>5. hellos' \subseteq Connection \X Peer
  <2>1. table[p] \subseteq Connection /\ hellos \subseteq Connection \X Peer
    BY <1>2, OwnTyped DEF Types
  <2>2. QED
    BY <1>4, <2>1
<1>6. Types'
  BY <1>2, <1>3, <1>4, <1>5 DEF Types, native, runtime, core, bounds
<1>7. TypeOK'
  BY <1>6, TypesAre
<1>8. UNCHANGED <<found, table, tasks, cancelled>>
  BY <1>4 DEF native
<1>9. c \in table[p] => <<c, p>> \in hellos'
  BY <1>4
<1>10. hellos \subseteq hellos'
  BY <1>4
<1>11. QED
  BY <1>1, <1>4, <1>7, <1>8, <1>9, <1>10, SilentServes DEF c

(* Dialling: the numbers are new, so are the connections.                   *)
LEMMA DialsServes ==
  ASSUME Inv, NEW p \in Peer, NEW peers \in SUBSET (Peer \ {p}), Dials(p, peers),
         news' \in [Peer -> BOOLEAN], retries' \in [Peer -> SUBSET Peer],
         found' \in [Peer -> SUBSET Peer], p \notin found'[p],
         \A q \in Peer \ {p} : found'[q] = found[q]
  PROVE  Inv'
<1> DEFINE dialled == peers \ keys[p]
           opened == {NextDial(p, q) : q \in dialled}
           list == Notices("opened", opened)
<1>1. TypeOK /\ Types /\ Own(p)
  BY TypesAre DEF Inv
<1>2. dialled \in SUBSET (Peer \ {p}) /\ IsFiniteSet(dialled)
  <2>1. dialled \in SUBSET Peer /\ dialled \in SUBSET (Peer \ {p})
    OBVIOUS
  <2>2. QED
    BY <2>1, PeerAssumption, FS_Subset
<1>3. \A q \in Peer : dials[<<p, q>>] \in Nat
  BY <1>1 DEF Types
<1>4. /\ \A q \in dialled : NextDial(p, q) \in Connection
      /\ \A q \in dialled : /\ NextDial(p, q)[1] = p /\ NextDial(p, q)[2] = q
                            /\ NextDial(p, q)[3] = dials[<<p, q>>] + 1
  BY <1>2, <1>3 DEF NextDial, Connection
<1>5. opened \in SUBSET Connection /\ IsFiniteSet(opened)
  <2>1. [q \in dialled |-> NextDial(p, q)] \in Surjection(dialled, opened)
    BY DEF Surjection
  <2>2. IsFiniteSet(opened)
    <3> HIDE DEF opened, dialled
    <3> QED BY <1>2, <2>1, FS_Surjection
  <2>3. QED
    BY <1>4, <2>2
<1>6. \A c \in opened : \E q \in dialled : c = NextDial(p, q)
  OBVIOUS
<1>7. /\ dials' = [pair \in Peer \X Peer |->
                    IF pair[1] = p /\ pair[2] \in dialled
                      THEN dials[pair] + 1 ELSE dials[pair]]
      /\ keys' = [keys EXCEPT ![p] = keys[p] \cup dialled]
      /\ tasks' = [tasks EXCEPT ![p] = tasks[p] \cup opened]
      /\ table' = [table EXCEPT ![p] = table[p] \cup opened]
      /\ Emits(p, list)
      /\ UNCHANGED <<running, cancelled, accepted, failed, hellos, commands,
                     configured, sessions, authenticated, current, telling,
                     connection, known, starts, resets, drops>>
  BY DEF Dials, runtime, core, bounds
<1> HIDE DEF dialled, opened, list
<1>8. Account(list, opened, {}, FALSE)
  BY <1>5, DialsReported DEF list
<1>9. list \in Seq(Report)
  BY <1>8 DEF Account
<1>10. /\ events' \in [Peer -> Seq(Report)]
       /\ events'[p] = events[p] \o list
       /\ \A q \in Peer \ {p} : events'[q] = events[q]
  BY <1>1, <1>7, <1>9, Emitted
<1>11. dials' \in [Peer \X Peer -> Nat]
  <2>1. \A pair \in Peer \X Peer : dials[pair] \in Nat /\ dials[pair] + 1 \in Nat
    BY <1>1 DEF Types
  <2>2. QED
    BY <1>7, <2>1
<1>12. TypeOK'
  <2>1. keys[p] \cup dialled \in SUBSET Peer /\ tasks[p] \cup opened \in SUBSET Connection
        /\ table[p] \cup opened \in SUBSET Connection
    BY <1>1, <1>2, <1>5 DEF Types
  <2>2. Types'
    BY <1>1, <1>7, <1>10, <1>11, <2>1 DEF Types
  <2>3. QED
    BY <2>2, TypesAre
<1>13. BegunStays
  <2>1. ASSUME NEW q \in Peer, NEW c \in Connection, Begun(q, c) PROVE Begun(q, c)'
    <3>1. <<c[1], c[2]>> \in Peer \X Peer /\ c[3] \in Nat
      BY Ends
    <3>2. dials[<<c[1], c[2]>>] \in Nat
      BY <1>1, <3>1 DEF Types
    <3>3. dials'[<<c[1], c[2]>>] >= dials[<<c[1], c[2]>>] /\ dials'[<<c[1], c[2]>>] \in Nat
      BY <1>7, <3>1, <3>2
    <3>4. QED
      BY <1>7, <2>1, <3>1, <3>2, <3>3 DEF Begun
  <2>2. QED
    BY <2>1 DEF BegunStays
<1>14. ASSUME NEW c \in opened
       PROVE  ~Begun(p, c) /\ Begun(p, c)' /\ p \in {c[1], c[2]} /\ c[1] # c[2]
  <2>1. PICK q \in dialled : c = NextDial(p, q)
    BY <1>6
  <2>2. c[1] = p /\ c[2] = q /\ c[3] = dials[<<p, q>>] + 1 /\ q # p /\ q \in Peer
    BY <1>2, <1>4, <2>1
  <2>3. dials'[<<p, q>>] = dials[<<p, q>>] + 1
    <3>1. <<p, q>> \in Peer \X Peer /\ <<p, q>>[1] = p /\ <<p, q>>[2] = q
      BY <2>2
    <3>2. QED
      BY <1>7, <3>1
  <2>4. dials[<<p, q>>] \in Nat
    BY <1>3, <2>2
  <2>5. QED
    BY <2>2, <2>3, <2>4 DEF Begun
<1>15. \A q \in Peer \ {p} : Quiet(q)
  BY <1>1, <1>7, <1>10 DEF Quiet, Types
<1>16. Acts(p, list, opened, {}, FALSE)
  <2>1. /\ tasks'[p] = tasks[p] \cup opened /\ table'[p] = table[p] \cup opened
        /\ cancelled'[p] = cancelled[p] /\ commands'[p] = commands[p]
    BY <1>1, <1>7 DEF Types
  <2>2. /\ tasks[p] \ cancelled[p] \subseteq table[p] /\ table[p] \subseteq tasks[p]
    BY <1>1 DEF Own, Held
  <2>3. \A c \in Connection : Alive(p, c)' => Alive(p, c) \/ c \in opened
    BY <2>1 DEF Alive
  <2>4. /\ Stops(p) => Stops(p)'
        /\ \A c \in Connection : Doomed(p, c) => Doomed(p, c)'
    BY <2>1 DEF Doomed, Stops
  <2>5. QED
    BY <1>5, <1>7, <1>8, <1>10, <1>14, <2>1, <2>2, <2>3, <2>4 DEF Acts
<1>17. QED
  BY <1>12, <1>13, <1>15, <1>16, ActsServes DEF StepOf

LEMMA DiscoverServes ==
  ASSUME Inv, NEW p \in Peer, Discover(p)
  PROVE  Inv'
<1> DEFINE seen == {q \in Peer \ {p} : running[q]}
           peers == {q \in found'[p] : p < q}
<1>1. TypeOK /\ Types
  BY TypesAre DEF Inv
<1>2. /\ news' = [news EXCEPT ![p] = FALSE] /\ found' = [found EXCEPT ![p] = seen]
      /\ Dials(p, peers) /\ retries' = retries
  BY DEF Discover
<1>3. seen \in SUBSET Peer /\ p \notin seen
  OBVIOUS
<1> HIDE DEF seen
<1>4. /\ found' \in [Peer -> SUBSET Peer] /\ found'[p] = seen
      /\ \A q \in Peer \ {p} : found'[q] = found[q]
      /\ news' \in [Peer -> BOOLEAN] /\ retries' \in [Peer -> SUBSET Peer]
  BY <1>1, <1>2, <1>3 DEF Types
<1>5. peers \in SUBSET (Peer \ {p})
  BY <1>3, <1>4
<1> HIDE DEF peers
<1>6. QED
  BY <1>2, <1>3, <1>4, <1>5, DialsServes

LEMMA RetryServes ==
  ASSUME Inv, NEW p \in Peer, NEW q \in Peer, Retry(p, q)
  PROVE  Inv'
<1> DEFINE peers == IF running[p] /\ q \in found[p] THEN {q} ELSE {}
<1>1. TypeOK /\ Types /\ p \notin found[p]
  BY TypesAre DEF Inv, Own, Held
<1>2. /\ retries' = [retries EXCEPT ![p] = retries[p] \ {q}]
      /\ Dials(p, peers) /\ news' = news /\ found' = found
  BY DEF Retry
<1>3. /\ found' \in [Peer -> SUBSET Peer] /\ p \notin found'[p]
      /\ \A r \in Peer \ {p} : found'[r] = found[r]
      /\ news' \in [Peer -> BOOLEAN] /\ retries' \in [Peer -> SUBSET Peer]
  BY <1>1, <1>2 DEF Types
<1>4. peers \in SUBSET (Peer \ {p})
  BY <1>1
<1> HIDE DEF peers
<1>5. QED
  BY <1>2, <1>3, <1>4, DialsServes

(* A connection is accepted once, so it is new to the listener's side.      *)
LEMMA AcceptServes ==
  ASSUME Inv, NEW c \in Connection, Accept(c)
  PROVE  Inv'
<1> DEFINE p == c[2]
           list == <<Notice("opened", c)>>
<1>1. TypeOK /\ Types /\ p \in Peer /\ c[1] \in Peer
  BY TypesAre, Ends DEF Inv
<1>2. c \in tasks[c[1]] /\ c \notin accepted
  BY DEF Accept
<1>3. c[1] # p /\ Own(p)
  BY <1>1, <1>2 DEF Inv, Own, Held
<1>4. /\ accepted' = accepted \cup {c}
      /\ tasks' = [tasks EXCEPT ![p] = tasks[p] \cup {c}]
      /\ table' = [table EXCEPT ![p] = table[p] \cup {c}]
      /\ Emits(p, list)
      /\ UNCHANGED <<running, news, keys, found, cancelled, retries, dials, failed,
                     hellos, commands, configured, sessions, authenticated, current,
                     telling, connection, known, starts, resets, drops>>
  BY DEF Accept, runtime, core, bounds
<1> HIDE DEF p, list
<1>5. Account(list, {c}, {}, FALSE)
  BY AcceptReported DEF list
<1>6. list \in Seq(Report)
  BY <1>5 DEF Account
<1>7. /\ events' \in [Peer -> Seq(Report)]
      /\ events'[p] = events[p] \o list
      /\ \A q \in Peer \ {p} : events'[q] = events[q]
  BY <1>1, <1>4, <1>6, Emitted
<1>8. TypeOK'
  <2>1. /\ tasks[p] \cup {c} \in SUBSET Connection /\ table[p] \cup {c} \in SUBSET Connection
        /\ accepted' \subseteq Connection
    BY <1>1, <1>4 DEF Types
  <2>2. Types'
    BY <1>1, <1>4, <1>7, <2>1 DEF Types
  <2>3. QED
    BY <2>2, TypesAre
<1>9. BegunStays
  BY <1>4 DEF BegunStays, Begun
<1>10. ~Begun(p, c) /\ Begun(p, c)' /\ p \in {c[1], c[2]} /\ c[1] # c[2]
  BY <1>2, <1>3, <1>4 DEF Begun, p
<1>11. \A q \in Peer \ {p} : Quiet(q)
  BY <1>1, <1>4, <1>7 DEF Quiet, Types
<1>12. Acts(p, list, {c}, {}, FALSE)
  <2>1. /\ tasks'[p] = tasks[p] \cup {c} /\ table'[p] = table[p] \cup {c}
        /\ cancelled'[p] = cancelled[p] /\ commands'[p] = commands[p]
        /\ found'[p] = found[p]
    BY <1>1, <1>4 DEF Types
  <2>2. /\ tasks[p] \ cancelled[p] \subseteq table[p] /\ table[p] \subseteq tasks[p]
        /\ p \notin found[p]
    BY <1>3 DEF Own, Held
  <2>3. \A d \in Connection : Alive(p, d)' => Alive(p, d) \/ d \in {c}
    BY <2>1 DEF Alive
  <2>4. /\ Stops(p) => Stops(p)'
        /\ \A d \in Connection : Doomed(p, d) => Doomed(p, d)'
    BY <2>1 DEF Doomed, Stops
  <2>5. IsFiniteSet({c})
    BY FS_Singleton
  <2>6. QED
    BY <1>4, <1>5, <1>7, <1>10, <2>1, <2>2, <2>3, <2>4, <2>5 DEF Acts
<1>13. QED
  BY <1>1, <1>8, <1>9, <1>11, <1>12, ActsServes DEF StepOf

LEMMA DeliverServes ==
  ASSUME Inv, NEW p \in Peer, NEW c \in tasks[p], Deliver(p, c)
  PROVE  Inv'
<1> DEFINE list == <<Notice("hello", c)>>
<1>1. TypeOK /\ Types /\ Own(p) /\ c \in Connection
  BY TypesAre, OwnTyped DEF Inv
<1>2. c \in table[p] /\ Other(c, p) # p /\ Other(c, Other(c, p)) = p
  BY <1>1, Ends DEF Deliver, Own, Held
<1>3. /\ hellos' = hellos \ {<<c, Other(c, p)>>}
      /\ Emits(p, list)
      /\ UNCHANGED <<native, dials, accepted, failed, commands, runtime, telling,
                     core, bounds>>
  BY DEF Deliver
<1> HIDE DEF list
<1>4. Account(list, {}, {}, FALSE) /\ Contains(list, Notice("hello", c))
  <2>1. 1 \in 1 .. Len(list) /\ list[1] = Notice("hello", c)
    BY DEF list
  <2>2. QED
    BY <1>1, <2>1, HelloReported DEF list, Contains
<1>5. list \in Seq(Report)
  BY <1>4 DEF Account
<1>6. /\ events' \in [Peer -> Seq(Report)]
      /\ events'[p] = events[p] \o list
      /\ \A q \in Peer \ {p} : events'[q] = events[q]
  BY <1>1, <1>3, <1>5, Emitted
<1>7. TypeOK'
  <2>1. hellos' \subseteq Connection \X Peer
    BY <1>1, <1>3 DEF Types
  <2>2. Types'
    BY <1>1, <1>3, <1>6, <2>1 DEF Types, native, runtime, core, bounds
  <2>3. QED
    BY <2>2, TypesAre
<1>8. BegunStays
  BY <1>3, BegunSame
<1>9. \A q \in Peer \ {p} : Quiet(q)
  BY <1>3, <1>6 DEF Quiet, native, runtime, core, bounds
<1>10. Acts(p, list, {}, {}, FALSE)
  <2>1. /\ tasks' = tasks /\ table' = table /\ cancelled' = cancelled
        /\ commands' = commands /\ found' = found
        /\ configured'[p] = configured[p] /\ sessions'[p] = sessions[p]
        /\ authenticated'[p] = authenticated[p] /\ current'[p] = current[p]
        /\ telling'[p] = telling[p] /\ connection'[p] = connection[p]
        /\ known'[p] = known[p] /\ starts'[p] = starts[p]
    BY <1>3 DEF native, runtime, core, bounds
  <2>2. /\ tasks[p] \ cancelled[p] \subseteq table[p] /\ table[p] \subseteq tasks[p]
        /\ p \notin found[p]
    BY <1>1 DEF Own, Held
  <2>3. \A d \in Connection : Alive(p, d)' <=> Alive(p, d)
    BY <2>1 DEF Alive
  <2>4. /\ Stops(p) => Stops(p)'
        /\ \A d \in Connection : Doomed(p, d) => Doomed(p, d)'
    BY <2>1 DEF Doomed, Stops
  <2>5. IsFiniteSet({})
    BY FS_EmptySet
  <2>6. ASSUME NEW d \in Connection, NEW q \in Peer, <<d, q>> \in hellos,
               <<d, q>> \notin hellos'
        PROVE  d = c /\ q = Other(c, p)
    BY <1>3, <2>6
  <2>7. ASSUME NEW d \in Connection, <<d, p>> \in hellos
        PROVE  <<d, p>> \in hellos'
    BY <1>2, <2>6, <2>7
  <2>8. ASSUME NEW d \in Connection, NEW q \in Peer \ {p}, <<d, q>> \in hellos
        PROVE  \/ <<d, q>> \in hellos'
               \/ p = Other(d, q) /\ d \in table[p] /\ Contains(list, Notice("hello", d))
    BY <1>2, <1>4, <2>6, <2>8
  <2>9. /\ table'[p] = (table[p] \cup {}) \ {} /\ tasks'[p] \subseteq tasks[p] \cup {}
        /\ \A d \in Connection : Alive(p, d)' => Alive(p, d) \/ d \in {}
    BY <2>1, <2>3
  <2>10. QED
    BY <1>4, <1>6, <2>1, <2>2, <2>4, <2>5, <2>7, <2>8, <2>9 DEF Acts
<1>11. QED
  BY <1>7, <1>8, <1>9, <1>10, ActsServes DEF StepOf

LEMMA EndTaskServes ==
  ASSUME Inv, NEW p \in Peer, NEW c \in tasks[p], EndTask(p, c)
  PROVE  Inv'
<1> DEFINE gone == {c} \cap table[p]
           list == Notices("disconnected", gone)
<1>1. TypeOK /\ Types /\ Own(p) /\ c \in Connection /\ c[2] \in Peer
  BY TypesAre, OwnTyped, Ends DEF Inv
<1>2. PICK again \in BOOLEAN :
        retries' = [retries EXCEPT ![p] = IF again THEN retries[p] \cup {c[2]} ELSE retries[p]]
  <2>1. PICK error \in BOOLEAN :
          retries' = [retries EXCEPT
                       ![p] = IF error /\ c[1] = p THEN retries[p] \cup {c[2]} ELSE retries[p]]
    BY DEF EndTask
  <2>2. (error /\ c[1] = p) \in BOOLEAN
    OBVIOUS
  <2>3. QED
    BY <2>1, <2>2
<1>3. /\ tasks' = [tasks EXCEPT ![p] = tasks[p] \ {c}]
      /\ cancelled' = [cancelled EXCEPT ![p] = cancelled[p] \ {c}]
      /\ table' = [table EXCEPT ![p] = table[p] \ {c}]
      /\ keys' = [keys EXCEPT ![p] = KeysAfter(p, c)]
      /\ Emits(p, list)
      /\ UNCHANGED <<running, news, found, dials, accepted, failed, hellos, commands,
                     configured, sessions, authenticated, current, telling,
                     connection, known, starts, resets, drops>>
  BY DEF EndTask, network, runtime, core, bounds
<1>4. gone \in SUBSET Connection /\ gone \in SUBSET table[p] /\ IsFiniteSet(gone)
  <2>1. gone \in SUBSET table[p] /\ table[p] \in SUBSET Connection /\ IsFiniteSet(table[p])
    BY Emptied
  <2> HIDE DEF gone
  <2>2. QED
    BY <2>1, FS_Subset
<1>5. Account(list, {}, gone, FALSE)
  <2> HIDE DEF gone
  <2> QED BY <1>4, EndsReported DEF list
<1> HIDE DEF list
<1>6. list \in Seq(Report)
  BY <1>5 DEF Account
<1>7. /\ events' \in [Peer -> Seq(Report)]
      /\ events'[p] = events[p] \o list
      /\ \A q \in Peer \ {p} : events'[q] = events[q]
  BY <1>1, <1>3, <1>6, Emitted
<1>8. TypeOK'
  <2>1. /\ tasks[p] \ {c} \in SUBSET Connection /\ table[p] \ {c} \in SUBSET Connection
        /\ cancelled[p] \ {c} \in SUBSET Connection
        /\ KeysAfter(p, c) \in SUBSET Peer
        /\ (IF again THEN retries[p] \cup {c[2]} ELSE retries[p]) \in SUBSET Peer
    BY <1>1 DEF Types, KeysAfter
  <2>2. retries' \in [Peer -> SUBSET Peer]
    BY <1>1, <1>2, <2>1 DEF Types
  <2>3. keys' \in [Peer -> SUBSET Peer]
    BY <1>1, <1>3, <2>1 DEF Types
  <2>4. Types'
    BY <1>1, <1>3, <1>7, <2>1, <2>2, <2>3 DEF Types
  <2>5. QED
    BY <2>4, TypesAre
<1>9. BegunStays
  BY <1>3, BegunSame
<1>10. \A q \in Peer \ {p} : Quiet(q)
  BY <1>1, <1>3, <1>7 DEF Quiet, Types
<1>11. Acts(p, list, {}, gone, FALSE)
  <2>1. /\ tasks'[p] = tasks[p] \ {c} /\ table'[p] = table[p] \ {c}
        /\ cancelled'[p] = cancelled[p] \ {c} /\ commands'[p] = commands[p]
        /\ found'[p] = found[p]
    BY <1>1, <1>3 DEF Types
  <2>2. /\ tasks[p] \ cancelled[p] \subseteq table[p] /\ table[p] \subseteq tasks[p]
        /\ p \notin found[p]
    BY <1>1 DEF Own, Held
  <2>3. \A d \in Connection : Alive(p, d)' => Alive(p, d)
    BY <2>1 DEF Alive
  <2>4. /\ Stops(p) => Stops(p)'
        /\ \A d \in Connection : Doomed(p, d) => Doomed(p, d)'
    BY <2>1 DEF Doomed, Stops
  <2>5. IsFiniteSet({})
    BY FS_EmptySet
  <2>6. table'[p] = (table[p] \cup {}) \ gone
    BY <2>1
  <2> HIDE DEF gone
  <2>7. /\ tasks'[p] \subseteq tasks[p] \cup {} /\ table'[p] \subseteq tasks'[p]
        /\ tasks'[p] \ cancelled'[p] \subseteq table'[p]
    BY <2>1, <2>2
  <2>8. QED
    BY <1>3, <1>4, <1>5, <1>7, <2>1, <2>2, <2>3, <2>4, <2>5, <2>6, <2>7 DEF Acts
<1>12. QED
  BY <1>8, <1>9, <1>10, <1>11, ActsServes DEF StepOf

(* Nothing the invariant is about has changed.                             *)
LEMMA StillServes ==
  ASSUME Inv, TypeOK',
         UNCHANGED <<found, table, tasks, cancelled, dials, accepted, hellos, events,
                     commands, runtime, telling, core, starts>>
  PROVE  Inv'
<1>1. BegunStays /\ \A q \in Peer : Own(q) /\ Quiet(q) /\ TypeOK
  BY BegunSame DEF Inv, Quiet, runtime, core
<1>2. \A q \in Peer : Own(q)'
  BY <1>1, QuietKeeps
<1>3. ASSUME NEW q \in Peer, NEW c \in Connection, Alive(q, c)' PROVE Greets(q, c)'
  <2>1. /\ Other(c, q) \in Peer
        /\ Greeted(Other(c, q), c) => Greeted(Other(c, q), c)'
        /\ Doomed(q, c) => Doomed(q, c)'
    BY <1>1, QuietKeeps, Ends
  <2>2. Greets(q, c)
    BY <1>1, <1>3, QuietKeeps DEF Inv
  <2>3. QED
    BY <2>1, <2>2 DEF Greets, Reports
<1>4. QED
  BY <1>2, <1>3 DEF Inv

LEMMA DropServes ==
  ASSUME Inv, NEW c \in Connection, Drop(c)
  PROVE  Inv'
<1>1. Types
  BY TypesAre DEF Inv
<1>2. Types'
  BY <1>1 DEF Types, Drop, native, runtime, core
<1>3. QED
  BY <1>2, TypesAre, StillServes DEF Drop, native

----------------------------------------------------------------------------
(* Steps of the runtime, of the core and of whoever asks *)

(* A step of p beside its actor: it may take a report, and gives commands.  *)
(* Whatever it takes leads to a greeting, to a current connection or to the *)
(* end of a connection.                                                    *)
Minds(p) ==
  /\ UNCHANGED <<tasks, table, cancelled, found, dials, accepted, hellos>>
  /\ Ordered(events'[p], table[p])
  /\ \A kind, c : Reports(p, kind, c)' => Reports(p, kind, c)
  /\ \A x : Contains(commands[p], x) => Contains(commands'[p], x)
  /\ Knows(p)' /\ Told(p)'
  /\ \A c \in Connection :
       /\ Reports(p, "opened", c) =>
            \/ Reports(p, "opened", c)'
            \/ Contains(commands'[p], Command("hello", c)) \/ Doomed(p, c)'
       /\ Reports(p, "hello", c) =>
            Reports(p, "hello", c)' \/ current'[p][Other(c, p)] = c \/ Doomed(p, c)'
       /\ current[p][Other(c, p)] = c =>
            current'[p][Other(c, p)] = c \/ Doomed(p, c)' \/ ~Alive(p, c)

LEMMA MindsServes ==
  ASSUME Inv, NEW p \in Peer, StepOf(p), Minds(p)
  PROVE  Inv'
<1>1. TypeOK /\ TypeOK' /\ BegunStays /\ Own(p)
  BY DEF Inv, StepOf
<1>2. UNCHANGED <<tasks, table, cancelled, found, dials, accepted, hellos>>
  BY DEF Minds
<1>3. \A q \in Peer, c \in Connection : Begun(q, c)' <=> Begun(q, c)
  BY <1>2, BegunSame
<1>4. \A c \in Connection : /\ Alive(p, c)' <=> Alive(p, c)
                            /\ Doomed(p, c) => Doomed(p, c)'
  BY <1>2 DEF Minds, Alive, Doomed, Stops
<1>5. Own(p)'
  <2>1. tasks[p] \subseteq Connection
    BY <1>1, OwnTyped
  <2>2. Held(p)'
    BY <1>1, <1>2, <1>3, <2>1 DEF Own, Held
  <2>3. Reported(p)'
    BY <1>1, <1>2, <1>3 DEF Own, Reported, Minds
  <2>4. QED
    BY <2>2, <2>3 DEF Own, Minds
<1>6. ASSUME NEW c \in Connection, Greeted(p, c)
      PROVE  Greeted(p, c)'
  <2>1. Begun(p, c)'
    BY <1>3, <1>6 DEF Greeted
  <2>2. \/ Reports(p, "hello", c)' \/ current'[p][Other(c, p)] = c
        \/ Doomed(p, c)' \/ ~Alive(p, c)'
    BY <1>4, <1>6 DEF Greeted, Minds
  <2>3. QED
    BY <2>1, <2>2 DEF Greeted
<1>7. \A q \in Peer, c \in Connection : Greeted(q, c) => Greeted(q, c)'
  <2>1. TAKE q \in Peer, c \in Connection
  <2>2. CASE q = p
    BY <1>6, <2>2
  <2>3. CASE q # p
    BY <1>1, <2>3, QuietKeeps DEF Inv, StepOf
  <2>4. QED
    BY <2>2, <2>3
<1>8. ASSUME NEW c \in Connection, Alive(p, c)'
      PROVE  Greets(p, c)'
  <2>1. Greets(p, c)
    BY <1>4, <1>8 DEF Inv
  <2>2. CASE Reports(p, "opened", c)
    <3>1. \/ Reports(p, "opened", c)'
          \/ Contains(commands'[p], Command("hello", c)) \/ Doomed(p, c)'
      BY <2>2 DEF Minds
    <3>2. QED
      BY <3>1 DEF Greets
  <2>3. CASE Contains(commands[p], Command("hello", c))
    <3>1. Contains(commands'[p], Command("hello", c))
      BY <2>3 DEF Minds
    <3>2. QED
      BY <3>1 DEF Greets
  <2>4. CASE <<c, p>> \in hellos
    BY <1>2, <2>4 DEF Greets
  <2>5. CASE Doomed(p, c)
    BY <1>4, <2>5 DEF Greets
  <2>6. CASE Greeted(Other(c, p), c)
    BY <1>7, <2>6, Ends DEF Greets
  <2>7. QED
    BY <2>1, <2>2, <2>3, <2>4, <2>5, <2>6 DEF Greets
<1>9. Serves(p)
  BY <1>2, <1>5, <1>6, <1>8 DEF Serves
<1>10. QED
  BY <1>9, Combines

LEMMA Asked ==
  ASSUME TypeOK, NEW p \in Peer, NEW command \in Request, Asks(p, command)
  PROVE  /\ commands' \in [Peer -> Seq(Request)]
         /\ \A q \in Peer \ {p} : commands'[q] = commands[q]
         /\ Contains(commands'[p], command)
         /\ \A x : Contains(commands[p], x) => Contains(commands'[p], x)
<1>1. commands \in [Peer -> Seq(Request)]
  BY TypesAre DEF Types
<1>2. commands[p] \in Seq(Request)
  BY <1>1
<1>3. commands' = [commands EXCEPT ![p] = Append(commands[p], command)]
  BY DEF Asks
<1>4. /\ Append(commands[p], command) \in Seq(Request)
      /\ Len(Append(commands[p], command)) = Len(commands[p]) + 1
      /\ \A i \in 1 .. Len(commands[p]) : Append(commands[p], command)[i] = commands[p][i]
      /\ Append(commands[p], command)[Len(commands[p]) + 1] = command
  BY <1>2, AppendProperties
<1>5. commands'[p] = Append(commands[p], command)
  BY <1>1, <1>3
<1>6. Len(commands[p]) \in Nat
  BY <1>2
<1>7. Contains(commands'[p], command)
  <2>1. Len(commands[p]) + 1 \in 1 .. Len(commands'[p])
    BY <1>4, <1>5, <1>6
  <2>2. QED
    BY <1>4, <1>5, <2>1 DEF Contains
<1>8. ASSUME NEW x, Contains(commands[p], x) PROVE Contains(commands'[p], x)
  <2>1. PICK i \in 1 .. Len(commands[p]) : commands[p][i] = x
    BY <1>8 DEF Contains
  <2>2. i \in 1 .. Len(commands'[p]) /\ commands'[p][i] = x
    BY <1>4, <1>5, <1>6, <2>1
  <2>3. QED
    BY <2>2 DEF Contains
<1>9. QED
  BY <1>1, <1>3, <1>4, <1>7, <1>8

(* The runtime takes a report.                                             *)
LEMMA Hearing ==
  ASSUME TypeOK, NEW p \in Peer, Own(p), NEW kind, Hears(p, kind),
         NEW c, c = Heard(p)
  PROVE  /\ events' \in [Peer -> Seq(Report)]
         /\ \A q \in Peer \ {p} : events'[q] = events[q]
         /\ telling[p] = Silence
         /\ \A k, d : Reports(p, k, d) <=> Head(events[p]) = Notice(k, d) \/ Reports(p, k, d)'
         /\ Ordered(events'[p], table[p])
         /\ kind \in {"opened", "hello", "disconnected"} =>
              /\ c \in Connection /\ Head(events[p]) = Notice(kind, c)
              /\ Reports(p, kind, c)
         /\ kind = "opened" =>
              /\ ~Reports(p, "opened", c)'
              /\ c \in table[p] \/ Reports(p, "disconnected", c)'
         /\ kind = "discoveryStopped" =>
              /\ \A k, d : Reports(p, k, d)' <=> Reports(p, k, d)
              /\ \A d \in Connection : d \in table[p] \/ Reports(p, "disconnected", d) =>
                                         Reports(p, "opened", d)
<1> DEFINE s == events[p]
           r == Head(s)
<1>1. events \in [Peer -> Seq(Report)] /\ s \in Seq(Report) /\ s # <<>> /\ r.kind = kind
  BY TypesAre DEF Types, Hears
<1>2. Ordered(s, table[p])
  BY DEF Own, Reported
<1>3. events' = [events EXCEPT ![p] = Tail(s)] /\ telling[p] = Silence
  BY DEF Hears
<1>4. c = r.connection
  BY DEF Heard
<1> HIDE DEF s, r
<1>5. /\ Tail(s) \in Seq(Report) /\ Head(s) = s[1] /\ Head(s) \in Report
      /\ Len(s) \in Nat /\ Len(s) >= 1
  BY <1>1, AfterTail
<1>6. \A x : /\ Contains(s, x) <=> r = x \/ Contains(Tail(s), x)
             /\ After(Tail(s), 0, x) <=> After(s, 0 + 1, x)
  <2>1. 0 \in 0 .. Len(s) - 1
    BY <1>5
  <2>2. QED
    BY <1>1, <2>1, AfterTail DEF r
<1>7. events' \in [Peer -> Seq(Report)] /\ events'[p] = Tail(s)
      /\ \A q \in Peer \ {p} : events'[q] = events[q]
  BY <1>1, <1>3, <1>5
<1>8. \A k, d : Reports(p, k, d) <=> r = Notice(k, d) \/ Reports(p, k, d)'
  BY <1>6, <1>7 DEF Reports, s
<1>9. Ordered(events'[p], table[p])
  BY <1>1, <1>2, <1>7, OrderedTail
<1>10. ASSUME kind \in {"opened", "hello", "disconnected"}
       PROVE  c \in Connection /\ r = Notice(kind, c)
  <2>1. r \in Report /\ r # Stopped /\ r # Silence
    BY <1>1, <1>5, <1>10, Notes DEF r
  <2>2. PICK d \in Connection : r = Notice(r.kind, d)
    BY <2>1, Forms
  <2>3. r.connection = d
    BY <2>2, Notes
  <2>4. QED
    BY <1>1, <1>4, <2>2, <2>3
<1>11. r = s[1] /\ 1 \in 1 .. Len(s)
  BY <1>5 DEF r
<1>12. \A k, d : Reports(p, k, d)' <=> After(s, 1, Notice(k, d))
  <2>1. TAKE k, d
  <2>2. Reports(p, k, d)' <=> After(Tail(s), 0, Notice(k, d))
    BY <1>7, ContainsIsAfter DEF Reports
  <2>3. QED
    BY <1>6, <2>2
<1>13. ASSUME kind = "opened"
       PROVE  /\ ~Reports(p, "opened", c)'
              /\ c \in table[p] \/ Reports(p, "disconnected", c)'
  <2>1. c \in Connection /\ s[1] = Notice("opened", c)
    BY <1>10, <1>11, <1>13
  <2>2. c \in table[p] \/ After(s, 1, Notice("disconnected", c))
    BY <1>2, <1>11, <2>1 DEF Ordered
  <2>3. \A j \in 1 .. Len(s) : s[j] = Notice("opened", c) => j = 1
    BY <1>2, <1>11, <2>1 DEF Ordered
  <2>4. ~After(s, 1, Notice("opened", c))
    <3>1. \A j \in 1 + 1 .. Len(s) : j \in 1 .. Len(s) /\ j # 1
      BY <1>5
    <3>2. QED
      BY <2>3, <3>1 DEF After
  <2>5. QED
    BY <1>12, <2>2, <2>4
<1>14. ASSUME kind = "discoveryStopped"
       PROVE  r = Stopped
  <2>1. r \in Report /\ r # Silence
    BY <1>1, <1>5, <1>14, Notes DEF r
  <2>2. \A d \in Connection : r # Notice("discoveryStopped", d)
    <3>1. TAKE d \in Connection
    <3>2. r \in Report
      BY <2>1
    <3>3. Notice("discoveryStopped", d) \notin Report
      BY DEF Report, Notice, Stopped, Silence
    <3>4. QED
      BY <3>2, <3>3
  <2>3. ASSUME r # Stopped
        PROVE  \E d \in Connection : r = Notice(r.kind, d)
    <3>1. \A x \in Report : \/ x = Stopped \/ x = Silence
                            \/ \E d \in Connection : x = Notice(x.kind, d)
      BY Forms
    <3>2. QED
      BY <2>1, <2>3, <3>1
  <2>4. r.kind = "discoveryStopped"
    BY <1>1, <1>14
  <2>5. QED
    BY <2>2, <2>3, <2>4
<1>15. ASSUME kind = "discoveryStopped"
       PROVE  /\ \A k, d : Reports(p, k, d)' <=> Reports(p, k, d)
              /\ \A d \in Connection : d \in table[p] \/ Reports(p, "disconnected", d) =>
                                         Reports(p, "opened", d)
  <2>1. r = Stopped
    BY <1>14, <1>15
  <2>2. \A k, d : Reports(p, k, d)' <=> Reports(p, k, d)
    BY <1>8, <2>1, Notes
  <2>3. \A d \in Connection :
          d \in table[p] \/ After(s, 1, Notice("disconnected", d)) =>
            After(s, 1, Notice("opened", d))
    BY <1>2, <1>11, <2>1 DEF Ordered
  <2>4. QED
    BY <1>12, <2>2, <2>3
<1>16. QED
  BY <1>3, <1>7, <1>8, <1>9, <1>10, <1>13, <1>15 DEF r, s

(* What Minds asks for of a step that takes no report.                      *)
LEMMA UnheardMinds ==
  ASSUME TypeOK, NEW p \in Peer, Own(p), events'[p] = events[p],
         UNCHANGED <<tasks, table, cancelled, found, dials, accepted, hellos>>,
         \A x : Contains(commands[p], x) => Contains(commands'[p], x),
         Knows(p)', Told(p)',
         \A c \in Connection : current[p][Other(c, p)] = c =>
           current'[p][Other(c, p)] = c \/ Doomed(p, c)' \/ ~Alive(p, c)
  PROVE  Minds(p)
<1>1. Ordered(events'[p], table[p])
  BY DEF Own, Reported
<1>2. \A kind, c : Reports(p, kind, c)' <=> Reports(p, kind, c)
  BY DEF Reports
<1>3. QED
  BY <1>1, <1>2 DEF Minds

(* A session begins only with a connection that is there, or will be        *)
(* reported as ended.                                                      *)
LEMMA OpenedServes ==
  ASSUME Inv, NEW p \in Peer, OnOpened(p)
  PROVE  Inv'
<1>1. TypeOK /\ Types /\ Own(p) /\ Hears(p, "opened")
  BY TypesAre DEF Inv, OnOpened
<1>2. PICK c : c = Heard(p)
  OBVIOUS
<1>3. /\ events' \in [Peer -> Seq(Report)]
      /\ \A q \in Peer \ {p} : events'[q] = events[q]
      /\ telling[p] = Silence /\ Ordered(events'[p], table[p])
      /\ \A k, d : Reports(p, k, d) <=> Head(events[p]) = Notice(k, d) \/ Reports(p, k, d)'
      /\ c \in Connection /\ Head(events[p]) = Notice("opened", c)
      /\ Reports(p, "opened", c) /\ ~Reports(p, "opened", c)'
      /\ c \in table[p] \/ Reports(p, "disconnected", c)'
  BY <1>1, <1>2, Hearing
<1>4. \A k, d : Reports(p, k, d) => (k = "opened" /\ d = c) \/ Reports(p, k, d)'
  BY <1>3, Notes
<1>5. UNCHANGED <<native, network, configured, authenticated, current, telling, core, bounds>>
  BY DEF OnOpened
<1>6. PICK command \in Request :
        /\ Asks(p, command)
        /\ \/ /\ configured[p] /\ command = Command("hello", c)
              /\ sessions' = [sessions EXCEPT ![p] = sessions[p] \cup {c}]
           \/ /\ ~configured[p] /\ command = Command("disconnect", c)
              /\ sessions' = sessions
  <2>1. Command("hello", c) \in Request /\ Command("disconnect", c) \in Request
    BY <1>3, Forms
  <2>2. CASE configured[p]
    <3>1. /\ sessions' = [sessions EXCEPT ![p] = sessions[p] \cup {c}]
          /\ Asks(p, Command("hello", c))
      BY <1>2, <2>2 DEF OnOpened
    <3>2. QED
      BY <2>1, <2>2, <3>1
  <2>3. CASE ~configured[p]
    <3>1. sessions' = sessions /\ Asks(p, Command("disconnect", c))
      BY <1>2, <2>3 DEF OnOpened
    <3>2. QED
      BY <2>1, <2>3, <3>1
  <2>4. QED
    BY <2>2, <2>3
<1>7. /\ commands' \in [Peer -> Seq(Request)]
      /\ \A q \in Peer \ {p} : commands'[q] = commands[q]
      /\ Contains(commands'[p], command)
      /\ \A x : Contains(commands[p], x) => Contains(commands'[p], x)
  BY <1>1, <1>6, Asked
<1>8. /\ sessions' \in [Peer -> SUBSET Connection]
      /\ \A q \in Peer \ {p} : sessions'[q] = sessions[q]
      /\ sessions[p] \subseteq sessions'[p]
      /\ sessions'[p] \subseteq sessions[p] \cup {c}
      /\ ~configured[p] => sessions'[p] = sessions[p]
  <2>1. sessions \in [Peer -> SUBSET Connection] /\ sessions[p] \cup {c} \in SUBSET Connection
    BY <1>1, <1>3 DEF Types
  <2>2. QED
    BY <1>6, <2>1
<1>9. StepOf(p)
  <2>1. Types'
    BY <1>1, <1>3, <1>5, <1>7, <1>8 DEF Types, native, network, core, bounds
  <2>2. BegunStays
    BY <1>5, BegunSame DEF network
  <2>3. \A q \in Peer \ {p} : Quiet(q)
    BY <1>3, <1>5, <1>7, <1>8 DEF Quiet, native, core, bounds
  <2>4. QED
    BY <2>1, <2>2, <2>3, TypesAre DEF StepOf
<1>10. \A d \in Connection : Begun(p, d)' <=> Begun(p, d)
  BY <1>5, BegunSame DEF network
<1>11. Knows(p)'
  <2>1. ASSUME NEW d \in sessions'[p]
        PROVE  /\ Begun(p, d)' /\ ~Reports(p, "opened", d)'
               /\ d \in table'[p] \/ Reports(p, "disconnected", d)'
    <3>1. table' = table
      BY <1>5 DEF native
    <3>2. CASE d = c
      <4>1. Begun(p, c)
        BY <1>1, <1>3 DEF Own, Reported
      <4>2. QED
        BY <1>3, <1>10, <3>1, <3>2, <4>1
    <3>3. CASE d \in sessions[p]
      <4>1. /\ Begun(p, d) /\ ~Reports(p, "opened", d) /\ d \in Connection
            /\ d \in table[p] \/ Reports(p, "disconnected", d)
        BY <1>1, <3>3, OwnTyped DEF Own, Knows
      <4>2. QED
        BY <1>3, <1>4, <1>10, <3>1, <4>1
    <3>4. QED
      BY <1>8, <3>2, <3>3
  <2>2. authenticated' = authenticated /\ current' = current
    BY <1>5
  <2>3. QED
    BY <1>1, <1>8, <2>1, <2>2 DEF Own, Knows
<1>12. Told(p)'
  <2>1. /\ UNCHANGED <<configured, current, telling, connection, known, starts, table>>
        /\ Stops(p) => Stops(p)'
    BY <1>5, <1>7 DEF native, core, bounds, Stops
  <2>2. starts[p] = 0 => sessions'[p] = {}
    BY <1>1, <1>8 DEF Own, Told
  <2>3. QED
    BY <1>1, <2>1, <2>2 DEF Own, Told
<1>13. Minds(p)
  <2>1. UNCHANGED <<tasks, table, cancelled, found, dials, accepted, hellos, current>>
    BY <1>5 DEF native, network
  <2>2. \A d \in Connection : Reports(p, "opened", d) =>
            \/ Reports(p, "opened", d)'
            \/ Contains(commands'[p], Command("hello", d)) \/ Doomed(p, d)'
    BY <1>4, <1>6, <1>7 DEF Doomed
  <2>3. \A d \in Connection : Reports(p, "hello", d) => Reports(p, "hello", d)'
    BY <1>4
  <2>4. QED
    BY <1>3, <1>7, <1>11, <1>12, <2>1, <2>2, <2>3 DEF Minds
<1>14. QED
  BY <1>9, <1>13, MindsServes

(* The current connection of a peer is replaced only by one that was        *)
(* greeted, and then given up.                                              *)
LEMMA HelloTakenServes ==
  ASSUME Inv, NEW p \in Peer, OnHello(p), configured[p], Heard(p) \in sessions[p]
  PROVE  Inv'
<1>1. TypeOK /\ Types /\ Own(p) /\ Hears(p, "hello")
  BY TypesAre DEF Inv, OnHello
<1>2. PICK c : c = Heard(p)
  OBVIOUS
<1>3. /\ events' \in [Peer -> Seq(Report)]
      /\ \A q \in Peer \ {p} : events'[q] = events[q]
      /\ telling[p] = Silence /\ Ordered(events'[p], table[p])
      /\ \A k, d : Reports(p, k, d) <=> Head(events[p]) = Notice(k, d) \/ Reports(p, k, d)'
      /\ c \in Connection /\ Head(events[p]) = Notice("hello", c)
  BY <1>1, <1>2, Hearing
<1>4. \A k, d : Reports(p, k, d) => (k = "hello" /\ d = c) \/ Reports(p, k, d)'
  BY <1>3, Notes
<1> DEFINE r == Other(c, p)
<1>5. r \in Peer
  BY <1>3, Ends
<1>6. /\ authenticated' = [authenticated EXCEPT ![p] = authenticated[p] \cup {c}]
      /\ current' = [current EXCEPT ![p] = [current[p] EXCEPT ![r] = c]]
      /\ Replaces(p, c)
      /\ telling' = [telling EXCEPT ![p] = Notice("authenticated", c)]
      /\ UNCHANGED <<native, network, configured, sessions, core, bounds>>
  BY <1>2 DEF OnHello
<1> HIDE DEF r
<1>7. /\ commands' \in [Peer -> Seq(Request)]
      /\ \A q \in Peer \ {p} : commands'[q] = commands[q]
      /\ \A x : Contains(commands[p], x) => Contains(commands'[p], x)
      /\ current[p][r] \notin {None, c} =>
           Contains(commands'[p], Command("disconnect", current[p][r]))
  <2>1. CASE current[p][r] \in {None, c}
    BY <1>1, <1>6, <2>1 DEF Replaces, Types, r
  <2>2. CASE current[p][r] \notin {None, c}
    <3>1. current[p][r] \in Connection
      BY <1>1, <1>5, <2>2, OwnTyped
    <3>2. Command("disconnect", current[p][r]) \in Request
      BY <3>1, Forms
    <3>3. Asks(p, Command("disconnect", current[p][r]))
      BY <1>6, <2>2 DEF Replaces, r
    <3>4. QED
      BY <1>1, <2>2, <3>2, <3>3, Asked
  <2>3. QED
    BY <2>1, <2>2
<1>8. /\ authenticated' \in [Peer -> SUBSET Connection]
      /\ authenticated'[p] = authenticated[p] \cup {c}
      /\ \A q \in Peer \ {p} : authenticated'[q] = authenticated[q]
  BY <1>1, <1>3, <1>6 DEF Types
<1>9. /\ current' \in Links
      /\ current'[p][r] = c /\ \A q \in Peer \ {r} : current'[p][q] = current[p][q]
      /\ \A q \in Peer \ {p} : current'[q] = current[q]
  <2>1. current \in [Peer -> [Peer -> Connection \cup {None}]]
    BY <1>1 DEF Types, Links
  <2>2. [current[p] EXCEPT ![r] = c] \in [Peer -> Connection \cup {None}]
    BY <1>3, <2>1
  <2>3. current'[p] = [current[p] EXCEPT ![r] = c]
    BY <1>6, <2>1
  <2>4. current[p] \in [Peer -> Connection \cup {None}]
    BY <2>1
  <2>5. current'[p][r] = c /\ \A q \in Peer \ {r} : current'[p][q] = current[p][q]
    BY <1>5, <2>3, <2>4
  <2>6. QED
    BY <1>6, <2>1, <2>2, <2>5 DEF Links
<1>10. /\ telling' \in [Peer -> Report] /\ telling'[p] = Notice("authenticated", c)
       /\ \A q \in Peer \ {p} : telling'[q] = telling[q]
  <2>1. Notice("authenticated", c) \in Report
    BY <1>3, Forms
  <2>2. QED
    BY <1>1, <1>6, <2>1 DEF Types
<1>11. StepOf(p)
  <2>1. Types'
    BY <1>1, <1>3, <1>6, <1>7, <1>8, <1>9, <1>10 DEF Types, native, network, core, bounds
  <2>2. BegunStays
    BY <1>6, BegunSame DEF network
  <2>3. \A q \in Peer \ {p} : Quiet(q)
    BY <1>3, <1>6, <1>7, <1>8, <1>9, <1>10 DEF Quiet, native, core, bounds
  <2>4. QED
    BY <2>1, <2>2, <2>3, TypesAre DEF StepOf
<1>12. \A d \in Connection : Begun(p, d)' <=> Begun(p, d)
  BY <1>6, BegunSame DEF network
<1>13. c \in sessions[p] /\ c # None
  BY <1>2, <1>3, Ends
<1>14. Knows(p)'
  <2>1. table' = table /\ sessions' = sessions
    BY <1>6 DEF native
  <2>2. ASSUME NEW d \in sessions[p]
        PROVE  /\ Begun(p, d)' /\ ~Reports(p, "opened", d)'
               /\ d \in table[p] \/ Reports(p, "disconnected", d)'
    <3>1. /\ Begun(p, d) /\ ~Reports(p, "opened", d) /\ d \in Connection
          /\ d \in table[p] \/ Reports(p, "disconnected", d)
      BY <1>1, OwnTyped DEF Own, Knows
    <3>2. QED
      BY <1>3, <1>4, <1>12, <3>1
  <2>3. authenticated'[p] \subseteq sessions[p]
    BY <1>1, <1>8, <1>13 DEF Own, Knows
  <2>4. ASSUME NEW q \in Peer, current'[p][q] # None
        PROVE  current'[p][q] \in authenticated'[p] /\ Other(current'[p][q], p) = q
    <3>1. CASE q = r
      BY <1>8, <1>9, <3>1 DEF r
    <3>2. CASE q # r
      BY <1>1, <1>8, <1>9, <2>4, <3>2 DEF Own, Knows
    <3>3. QED
      BY <3>1, <3>2
  <2>5. QED
    BY <2>1, <2>2, <2>3, <2>4 DEF Knows
<1>15. Told(p)'
  <2>1. /\ UNCHANGED <<configured, sessions, connection, known, starts, table>>
        /\ Stops(p) => Stops(p)'
    BY <1>6, <1>7 DEF native, core, bounds, Stops
  <2>2. starts[p] # 0
    BY <1>1 DEF Own, Told
  <2>3. telling'[p] # Silence /\ telling'[p].kind = "authenticated"
    BY <1>10, Notes
  <2>4. ASSUME NEW d \in Connection
        PROVE  /\ telling'[p] # Notice("disconnected", d)
               /\ telling'[p] = Notice("authenticated", d) => current'[p][Other(d, p)] = d
    BY <1>9, <1>10, Notes DEF r
  <2>5. ASSUME NEW q \in Peer
        PROVE  /\ current'[p][q] # None =>
                   \/ telling'[p] = Notice("authenticated", current'[p][q])
                   \/ connection[p][q] = current'[p][q]
                   \/ connection[p][q] = None /\ (Stops(p)' \/ current'[p][q] \notin table[p])
               /\ current'[p][q] = None /\ connection[p][q] # None =>
                   \/ telling'[p] = Notice("disconnected", connection[p][q])
                   \/ starts[p] > 1
    <3>1. CASE q = r
      BY <1>9, <1>10, <1>13, <3>1
    <3>2. CASE q # r
      <4>1. current'[p][q] = current[p][q]
        BY <1>9, <3>2
      <4>2. /\ current[p][q] # None =>
                 \/ connection[p][q] = current[p][q]
                 \/ connection[p][q] = None /\ (Stops(p) \/ current[p][q] \notin table[p])
            /\ current[p][q] = None /\ connection[p][q] # None => starts[p] > 1
        BY <1>1, <1>3, Notes DEF Own, Told
      <4>3. QED
        BY <2>1, <4>1, <4>2
    <3>3. QED
      BY <3>1, <3>2
  <2>6. \A q \in Peer : connection[p][q] # None =>
          connection[p][q] \in known[p] /\ Other(connection[p][q], p) = q
    BY <1>1 DEF Own, Told
  <2>7. QED
    BY <2>1, <2>2, <2>3, <2>4, <2>5, <2>6 DEF Told
<1>16. Minds(p)
  <2>1. UNCHANGED <<tasks, table, cancelled, found, dials, accepted, hellos>>
    BY <1>6 DEF native, network
  <2>2. ASSUME NEW d \in Connection, Reports(p, "hello", d)
        PROVE  Reports(p, "hello", d)' \/ current'[p][Other(d, p)] = d
    BY <1>4, <1>9, <2>2 DEF r
  <2>3. ASSUME NEW d \in Connection, current[p][Other(d, p)] = d
        PROVE  current'[p][Other(d, p)] = d \/ Doomed(p, d)'
    <3>1. Other(d, p) \in Peer /\ d # None
      BY Ends
    <3>2. CASE Other(d, p) = r /\ d # c
      <4>1. Contains(commands'[p], Command("disconnect", d))
        BY <1>7, <2>3, <3>1, <3>2
      <4>2. QED
        BY <4>1 DEF Doomed
    <3>3. CASE Other(d, p) # r \/ d = c
      BY <1>9, <2>3, <3>1, <3>3 DEF r
    <3>4. QED
      BY <3>2, <3>3
  <2>4. \A d \in Connection : Reports(p, "opened", d) => Reports(p, "opened", d)'
    BY <1>4
  <2>5. QED
    BY <1>3, <1>7, <1>14, <1>15, <2>1, <2>2, <2>3, <2>4 DEF Minds
<1>17. QED
  BY <1>11, <1>16, MindsServes

(* A hello without a session: the connection is rejected.                  *)
LEMMA HelloRejectedServes ==
  ASSUME Inv, NEW p \in Peer, OnHello(p), ~(configured[p] /\ Heard(p) \in sessions[p])
  PROVE  Inv'
<1>1. TypeOK /\ Types /\ Own(p) /\ Hears(p, "hello")
  BY TypesAre DEF Inv, OnHello
<1>2. PICK c : c = Heard(p)
  OBVIOUS
<1>3. /\ events' \in [Peer -> Seq(Report)]
      /\ \A q \in Peer \ {p} : events'[q] = events[q]
      /\ Ordered(events'[p], table[p])
      /\ \A k, d : Reports(p, k, d) <=> Head(events[p]) = Notice(k, d) \/ Reports(p, k, d)'
      /\ c \in Connection /\ Head(events[p]) = Notice("hello", c)
  BY <1>1, <1>2, Hearing
<1>4. \A k, d : Reports(p, k, d) => (k = "hello" /\ d = c) \/ Reports(p, k, d)'
  BY <1>3, Notes
<1>5. /\ Asks(p, Command("disconnect", c))
      /\ UNCHANGED <<native, network, runtime, telling, core, bounds>>
  BY <1>2 DEF OnHello, runtime
<1>6. Command("disconnect", c) \in Request
  BY <1>3, Forms
<1>7. /\ commands' \in [Peer -> Seq(Request)]
      /\ \A q \in Peer \ {p} : commands'[q] = commands[q]
      /\ \A x : Contains(commands[p], x) => Contains(commands'[p], x)
      /\ Contains(commands'[p], Command("disconnect", c))
  BY <1>1, <1>5, <1>6, Asked
<1>8. StepOf(p)
  <2>1. Types'
    BY <1>1, <1>3, <1>5, <1>7 DEF Types, native, network, runtime, core, bounds
  <2>2. BegunStays
    BY <1>5, BegunSame DEF network
  <2>3. \A q \in Peer \ {p} : Quiet(q)
    BY <1>3, <1>5, <1>7 DEF Quiet, native, runtime, core, bounds
  <2>4. QED
    BY <2>1, <2>2, <2>3, TypesAre DEF StepOf
<1>9. \A d \in Connection : Begun(p, d)' <=> Begun(p, d)
  BY <1>5, BegunSame DEF network
<1>10. UNCHANGED <<tasks, table, cancelled, found, dials, accepted, hellos, sessions,
                   authenticated, current, configured, telling, connection, known, starts>>
  BY <1>5 DEF native, network, runtime, core, bounds
<1>11. Knows(p)'
  <2>1. ASSUME NEW d \in sessions[p]
        PROVE  /\ Begun(p, d)' /\ ~Reports(p, "opened", d)'
               /\ d \in table[p] \/ Reports(p, "disconnected", d)'
    <3>1. /\ Begun(p, d) /\ ~Reports(p, "opened", d) /\ d \in Connection
          /\ d \in table[p] \/ Reports(p, "disconnected", d)
      BY <1>1, OwnTyped DEF Own, Knows
    <3>2. QED
      BY <1>3, <1>4, <1>9, <3>1
  <2>2. QED
    BY <1>1, <1>10, <2>1 DEF Own, Knows
<1>12. Told(p)'
  <2>1. Stops(p) => Stops(p)'
    BY <1>7 DEF Stops
  <2>2. QED
    BY <1>1, <1>10, <2>1 DEF Own, Told
<1>13. Minds(p)
  <2>1. \A d \in Connection : Reports(p, "hello", d) => Reports(p, "hello", d)' \/ Doomed(p, d)'
    BY <1>4, <1>7 DEF Doomed
  <2>2. \A d \in Connection : Reports(p, "opened", d) => Reports(p, "opened", d)'
    BY <1>4
  <2>3. QED
    BY <1>3, <1>7, <1>10, <1>11, <1>12, <2>1, <2>2 DEF Minds
<1>14. QED
  BY <1>8, <1>13, MindsServes

(* The end of a connection: its end of it is gone already, and the core is  *)
(* told if it was the current one.                                         *)
LEMMA DisconnectedServes ==
  ASSUME Inv, NEW p \in Peer, OnDisconnected(p)
  PROVE  Inv'
<1>1. TypeOK /\ Types /\ Own(p) /\ Hears(p, "disconnected")
  BY TypesAre DEF Inv, OnDisconnected
<1>2. PICK c : c = Heard(p)
  OBVIOUS
<1>3. /\ events' \in [Peer -> Seq(Report)]
      /\ \A q \in Peer \ {p} : events'[q] = events[q]
      /\ telling[p] = Silence /\ Ordered(events'[p], table[p])
      /\ \A k, d : Reports(p, k, d) <=> Head(events[p]) = Notice(k, d) \/ Reports(p, k, d)'
      /\ c \in Connection /\ Head(events[p]) = Notice("disconnected", c)
      /\ Reports(p, "disconnected", c)
  BY <1>1, <1>2, Hearing
<1>4. \A k, d : Reports(p, k, d) => (k = "disconnected" /\ d = c) \/ Reports(p, k, d)'
  BY <1>3, Notes
<1> DEFINE r == Other(c, p)
<1>5. r \in Peer /\ c # None
  BY <1>3, Ends
<1>6. /\ sessions' = [sessions EXCEPT ![p] = sessions[p] \ {c}]
      /\ authenticated' = [authenticated EXCEPT ![p] = authenticated[p] \ {c}]
      /\ current' = IF IsCurrent(p, c)
                      THEN [current EXCEPT ![p] = [current[p] EXCEPT ![r] = None]]
                      ELSE current
      /\ telling' = IF IsCurrent(p, c)
                      THEN [telling EXCEPT ![p] = Notice("disconnected", c)]
                      ELSE telling
      /\ UNCHANGED <<native, network, commands, configured, core, bounds>>
  BY <1>2 DEF OnDisconnected, TellsEnd
<1>7. IsCurrent(p, c) <=> current[p][r] = c
  <2>1. current[p][r] = c => c \in authenticated[p]
    BY <1>1, <1>5 DEF Own, Knows
  <2>2. QED
    BY <2>1 DEF IsCurrent
<1> HIDE DEF r
<1>8. ~Alive(p, c)
  BY <1>1, <1>3 DEF Own, Held, Reported, Alive
<1>9. /\ sessions' \in [Peer -> SUBSET Connection]
      /\ authenticated' \in [Peer -> SUBSET Connection]
      /\ sessions'[p] = sessions[p] \ {c}
      /\ authenticated'[p] = authenticated[p] \ {c}
      /\ \A q \in Peer \ {p} : sessions'[q] = sessions[q] /\ authenticated'[q] = authenticated[q]
  BY <1>1, <1>6 DEF Types
<1>10. /\ current' \in Links
       /\ \A q \in Peer \ {p} : current'[q] = current[q]
       /\ \A q \in Peer \ {r} : current'[p][q] = current[p][q]
       /\ current'[p][r] = IF current[p][r] = c THEN None ELSE current[p][r]
  <2>1. current \in [Peer -> [Peer -> Connection \cup {None}]]
    BY <1>1 DEF Types, Links
  <2>2. CASE current[p][r] = c
    <3>1. current' = [current EXCEPT ![p] = [current[p] EXCEPT ![r] = None]]
      BY <1>6, <1>7, <2>2
    <3>2. current[p] \in [Peer -> Connection \cup {None}]
      BY <2>1
    <3>3. [current[p] EXCEPT ![r] = None] \in [Peer -> Connection \cup {None}]
      BY <3>2
    <3>4. current'[p] = [current[p] EXCEPT ![r] = None]
      BY <2>1, <3>1
    <3>5. current'[p][r] = None /\ \A q \in Peer \ {r} : current'[p][q] = current[p][q]
      BY <1>5, <3>2, <3>4
    <3>6. QED
      BY <2>1, <2>2, <3>1, <3>3, <3>5 DEF Links
  <2>3. CASE current[p][r] # c
    BY <1>6, <1>7, <2>1, <2>3 DEF Links
  <2>4. QED
    BY <2>2, <2>3
<1>11. /\ telling' \in [Peer -> Report]
       /\ telling'[p] = IF current[p][r] = c THEN Notice("disconnected", c) ELSE Silence
       /\ \A q \in Peer \ {p} : telling'[q] = telling[q]
  <2>1. Notice("disconnected", c) \in Report
    BY <1>3, Forms
  <2>2. QED
    BY <1>1, <1>3, <1>6, <1>7, <2>1 DEF Types
<1>12. StepOf(p)
  <2>1. Types'
    BY <1>1, <1>3, <1>6, <1>9, <1>10, <1>11 DEF Types, native, network, core, bounds
  <2>2. BegunStays
    BY <1>6, BegunSame DEF network
  <2>3. \A q \in Peer \ {p} : Quiet(q)
    BY <1>3, <1>6, <1>9, <1>10, <1>11 DEF Quiet, native, core, bounds
  <2>4. QED
    BY <2>1, <2>2, <2>3, TypesAre DEF StepOf
<1>13. \A d \in Connection : Begun(p, d)' <=> Begun(p, d)
  BY <1>6, BegunSame DEF network
<1>14. UNCHANGED <<tasks, table, cancelled, found, dials, accepted, hellos, commands,
                   configured, connection, known, starts>>
  BY <1>6 DEF native, network, core, bounds
<1>15. Knows(p)'
  <2>1. ASSUME NEW d \in sessions'[p]
        PROVE  /\ Begun(p, d)' /\ ~Reports(p, "opened", d)'
               /\ d \in table[p] \/ Reports(p, "disconnected", d)'
    <3>1. d \in sessions[p] /\ d # c
      BY <1>9, <2>1
    <3>2. /\ Begun(p, d) /\ ~Reports(p, "opened", d) /\ d \in Connection
          /\ d \in table[p] \/ Reports(p, "disconnected", d)
      BY <1>1, <3>1, OwnTyped DEF Own, Knows
    <3>3. QED
      BY <1>3, <1>4, <1>13, <3>1, <3>2
  <2>2. authenticated'[p] \subseteq sessions'[p]
    BY <1>1, <1>9 DEF Own, Knows
  <2>3. ASSUME NEW q \in Peer, current'[p][q] # None
        PROVE  current'[p][q] \in authenticated'[p] /\ Other(current'[p][q], p) = q
    <3>1. current'[p][q] = current[p][q] /\ ~(q = r /\ current[p][q] = c)
      BY <1>10, <2>3
    <3>2. current[p][q] \in authenticated[p] /\ Other(current[p][q], p) = q
      BY <1>1, <2>3, <3>1 DEF Own, Knows
    <3>3. current[p][q] # c
      BY <3>1, <3>2 DEF r
    <3>4. QED
      BY <1>9, <3>1, <3>2, <3>3
  <2>4. QED
    BY <1>14, <2>1, <2>2, <2>3 DEF Knows
<1>16. Told(p)'
  <2>1. Stops(p)' <=> Stops(p)
    BY <1>14 DEF Stops
  <2>2. starts[p] = 0 => /\ ~configured[p] /\ sessions'[p] = {} /\ telling'[p] = Silence
                         /\ connection[p] = Nobody
    <3>1. HAVE starts[p] = 0
    <3>2. ~configured[p] /\ sessions[p] = {} /\ connection[p] = Nobody
      BY <1>1, <3>1 DEF Own, Told
    <3>3. current[p][r] # c
      BY <1>1, <1>5, <3>2 DEF Own, Knows
    <3>4. QED
      BY <1>9, <1>11, <3>2, <3>3
  <2>3. telling'[p] # Silence => telling'[p].kind = "disconnected"
    BY <1>11, Notes
  <2>4. ASSUME NEW d \in Connection
        PROVE  /\ telling'[p] # Notice("authenticated", d)
               /\ telling'[p] = Notice("disconnected", d) => current'[p][Other(d, p)] = None
    <3>1. telling'[p] # Notice("authenticated", d)
      BY <1>11, Notes
    <3>2. telling'[p] = Notice("disconnected", d) => d = c /\ current[p][r] = c
      BY <1>11, Notes
    <3>3. QED
      BY <1>10, <3>1, <3>2 DEF r
  <2>5. ASSUME NEW q \in Peer
        PROVE  /\ connection[p][q] # None =>
                   connection[p][q] \in known[p] /\ Other(connection[p][q], p) = q
               /\ current'[p][q] # None =>
                   \/ connection[p][q] = current'[p][q]
                   \/ connection[p][q] = None /\ (Stops(p) \/ current'[p][q] \notin table[p])
               /\ current'[p][q] = None /\ connection[p][q] # None =>
                   \/ telling'[p] = Notice("disconnected", connection[p][q])
                   \/ starts[p] > 1
    <3>1. /\ connection[p][q] # None =>
               connection[p][q] \in known[p] /\ Other(connection[p][q], p) = q
          /\ current[p][q] # None =>
               \/ connection[p][q] = current[p][q]
               \/ connection[p][q] = None /\ (Stops(p) \/ current[p][q] \notin table[p])
          /\ current[p][q] = None /\ connection[p][q] # None => starts[p] > 1
      BY <1>1, <1>3, Notes DEF Own, Told
    <3>2. CASE q = r /\ current[p][r] = c
      <4>1. current'[p][q] = None /\ telling'[p] = Notice("disconnected", c)
        BY <1>10, <1>11, <3>2
      <4>2. connection[p][q] \in {c, None}
        BY <1>5, <3>1, <3>2
      <4>3. QED
        BY <3>1, <4>1, <4>2
    <3>3. CASE ~(q = r /\ current[p][r] = c)
      <4>1. current'[p][q] = current[p][q]
        BY <1>10, <3>3
      <4>2. QED
        BY <3>1, <4>1
    <3>4. QED
      BY <3>2, <3>3
  <2>6. QED
    BY <1>14, <2>1, <2>2, <2>3, <2>4, <2>5 DEF Told
<1>17. Minds(p)
  <2>1. \A d \in Connection : /\ Reports(p, "hello", d) => Reports(p, "hello", d)'
                              /\ Reports(p, "opened", d) => Reports(p, "opened", d)'
    BY <1>4
  <2>2. ASSUME NEW d \in Connection, current[p][Other(d, p)] = d
        PROVE  current'[p][Other(d, p)] = d \/ ~Alive(p, d)
    <3>1. Other(d, p) \in Peer
      BY Ends
    <3>2. QED
      BY <1>8, <1>10, <2>2, <3>1
  <2>3. QED
    BY <1>3, <1>14, <1>15, <1>16, <2>1, <2>2 DEF Minds
<1>18. QED
  BY <1>12, <1>17, MindsServes

(* The event DiscoveryStopped finds no session: whatever was opened before  *)
(* the stop has ended, and what was opened later is reported later.         *)
LEMMA StoppedServes ==
  ASSUME Inv, NEW p \in Peer, OnStopped(p)
  PROVE  Inv'
<1>1. TypeOK /\ Types /\ Own(p) /\ Hears(p, "discoveryStopped")
  BY TypesAre DEF Inv, OnStopped
<1>2. PICK c : c = Heard(p)
  OBVIOUS
<1>3. /\ events' \in [Peer -> Seq(Report)]
      /\ \A q \in Peer \ {p} : events'[q] = events[q]
      /\ Ordered(events'[p], table[p])
      /\ \A k, d : Reports(p, k, d)' <=> Reports(p, k, d)
      /\ \A d \in Connection : d \in table[p] \/ Reports(p, "disconnected", d) =>
                                 Reports(p, "opened", d)
  BY <1>1, <1>2, Hearing
<1>4. /\ configured' = [configured EXCEPT ![p] = FALSE]
      /\ sessions' = [sessions EXCEPT ![p] = {}]
      /\ authenticated' = [authenticated EXCEPT ![p] = {}]
      /\ current' = [current EXCEPT ![p] = Nobody]
      /\ UNCHANGED <<native, network, commands, telling, core, bounds>>
  BY DEF OnStopped
<1>5. sessions[p] = {} /\ authenticated[p] = {} /\ \A q \in Peer : current[p][q] = None
  <2>1. ASSUME NEW d \in sessions[p] PROVE FALSE
    BY <1>1, <1>3, OwnTyped DEF Own, Knows
  <2>2. QED
    BY <1>1, <2>1 DEF Own, Knows
<1>6. Nobody \in [Peer -> Connection \cup {None}] /\ \A q \in Peer : Nobody[q] = None
  BY DEF Nobody
<1>7. /\ configured' \in [Peer -> BOOLEAN] /\ configured'[p] = FALSE
      /\ sessions' \in [Peer -> SUBSET Connection] /\ sessions'[p] = {}
      /\ authenticated' \in [Peer -> SUBSET Connection] /\ authenticated'[p] = {}
      /\ current' \in Links /\ current'[p] = Nobody
      /\ \A q \in Peer \ {p} : /\ configured'[q] = configured[q] /\ sessions'[q] = sessions[q]
                               /\ authenticated'[q] = authenticated[q]
                               /\ current'[q] = current[q]
  BY <1>1, <1>4, <1>6 DEF Types, Links
<1>8. StepOf(p)
  <2>1. Types'
    BY <1>1, <1>3, <1>4, <1>7 DEF Types, native, network, core, bounds
  <2>2. BegunStays
    BY <1>4, BegunSame DEF network
  <2>3. \A q \in Peer \ {p} : Quiet(q)
    BY <1>3, <1>4, <1>7 DEF Quiet, native, core, bounds
  <2>4. QED
    BY <2>1, <2>2, <2>3, TypesAre DEF StepOf
<1>9. UNCHANGED <<tasks, table, cancelled, found, dials, accepted, hellos, commands,
                  telling, connection, known, starts>>
  BY <1>4 DEF native, network, core, bounds
<1>10. Knows(p)'
  BY <1>6, <1>7 DEF Knows
<1>11. Told(p)'
  <2>1. Stops(p)' <=> Stops(p)
    BY <1>9 DEF Stops
  <2>2. \A q \in Peer : current'[p][q] = current[p][q]
    BY <1>5, <1>6, <1>7
  <2>3. \A d \in Connection : current'[p][Other(d, p)] = current[p][Other(d, p)]
    BY <2>2, Ends
  <2>4. QED
    BY <1>1, <1>7, <1>9, <2>1, <2>2, <2>3 DEF Own, Told
<1>12. Minds(p)
  <2>1. ASSUME NEW d \in Connection, current[p][Other(d, p)] = d PROVE FALSE
    BY <1>5, <2>1, Ends
  <2>2. QED
    BY <1>3, <1>9, <1>10, <1>11, <2>1 DEF Minds
<1>13. QED
  BY <1>8, <1>12, MindsServes

(* Starting again forgets every connection; the actor is about to end them. *)
LEMMA StartServes ==
  ASSUME Inv, NEW p \in Peer, StartDiscovery(p)
  PROVE  Inv'
<1>1. TypeOK /\ Types /\ Own(p)
  BY TypesAre DEF Inv
<1>2. /\ starts' = [starts EXCEPT ![p] = starts[p] + 1]
      /\ configured' = [configured EXCEPT ![p] = TRUE]
      /\ sessions' = [sessions EXCEPT ![p] = {}]
      /\ authenticated' = [authenticated EXCEPT ![p] = {}]
      /\ current' = [current EXCEPT ![p] = Nobody]
      /\ Asks(p, Order("startDiscovery"))
      /\ UNCHANGED <<native, network, events, telling, core, drops>>
      /\ resets' \in Nat
  BY <1>1 DEF StartDiscovery, CountReset, Types
<1>3. Order("startDiscovery") \in Request
  BY Forms
<1>4. /\ commands' \in [Peer -> Seq(Request)]
      /\ \A q \in Peer \ {p} : commands'[q] = commands[q]
      /\ \A x : Contains(commands[p], x) => Contains(commands'[p], x)
      /\ Contains(commands'[p], Order("startDiscovery"))
  BY <1>1, <1>2, <1>3, Asked
<1>5. Nobody \in [Peer -> Connection \cup {None}] /\ \A q \in Peer : Nobody[q] = None
  BY DEF Nobody
<1>6. /\ configured' \in [Peer -> BOOLEAN]
      /\ sessions' \in [Peer -> SUBSET Connection] /\ sessions'[p] = {}
      /\ authenticated' \in [Peer -> SUBSET Connection] /\ authenticated'[p] = {}
      /\ current' \in Links /\ current'[p] = Nobody
      /\ starts' \in [Peer -> Nat] /\ starts'[p] = starts[p] + 1
      /\ \A q \in Peer \ {p} : /\ configured'[q] = configured[q] /\ sessions'[q] = sessions[q]
                               /\ authenticated'[q] = authenticated[q]
                               /\ current'[q] = current[q] /\ starts'[q] = starts[q]
  <2>1. /\ configured \in [Peer -> BOOLEAN] /\ sessions \in [Peer -> SUBSET Connection]
        /\ authenticated \in [Peer -> SUBSET Connection] /\ starts \in [Peer -> Nat]
        /\ current \in Links
    BY <1>1 DEF Types
  <2>2. /\ configured' \in [Peer -> BOOLEAN]
        /\ \A q \in Peer \ {p} : configured'[q] = configured[q]
    BY <1>2, <2>1
  <2>3. /\ sessions' \in [Peer -> SUBSET Connection] /\ sessions'[p] = {}
        /\ \A q \in Peer \ {p} : sessions'[q] = sessions[q]
    BY <1>2, <2>1
  <2>4. /\ authenticated' \in [Peer -> SUBSET Connection] /\ authenticated'[p] = {}
        /\ \A q \in Peer \ {p} : authenticated'[q] = authenticated[q]
    BY <1>2, <2>1
  <2>5. /\ current' \in Links /\ current'[p] = Nobody
        /\ \A q \in Peer \ {p} : current'[q] = current[q]
    BY <1>2, <1>5, <2>1 DEF Links
  <2>6. /\ starts' \in [Peer -> Nat] /\ starts'[p] = starts[p] + 1
        /\ \A q \in Peer \ {p} : starts'[q] = starts[q]
    BY <1>2, <2>1
  <2>7. QED
    BY <2>2, <2>3, <2>4, <2>5, <2>6
<1>7. StepOf(p)
  <2>1. Types'
    BY <1>1, <1>2, <1>4, <1>6 DEF Types, native, network, core
  <2>2. BegunStays
    BY <1>2, BegunSame DEF network
  <2>3. \A q \in Peer \ {p} : Quiet(q)
    BY <1>2, <1>4, <1>6 DEF Quiet, native, core
  <2>4. QED
    BY <2>1, <2>2, <2>3, TypesAre DEF StepOf
<1>8. UNCHANGED <<tasks, table, cancelled, found, dials, accepted, hellos, events,
                  telling, connection, known>>
  BY <1>2 DEF native, network, core
<1>9. Knows(p)'
  <2>1. \A c \in sessions'[p] : FALSE
    BY <1>6
  <2>2. QED
    BY <1>5, <1>6, <2>1 DEF Knows
<1>10. Told(p)'
  <2>1. starts[p] \in Nat /\ starts'[p] # 0 /\ (starts[p] # 0 => starts'[p] > 1)
    BY <1>1, <1>6 DEF Types
  <2>2. \A d \in Connection : current'[p][Other(d, p)] = None
    BY <1>5, <1>6, Ends
  <2>3. \A q \in Peer : current'[p][q] = None
    BY <1>5, <1>6
  <2>4. starts[p] = 0 => telling[p] = Silence /\ \A q \in Peer : connection[p][q] = None
    BY <1>1, <1>5 DEF Own, Told
  <2>5. \A d \in Connection : starts[p] = 0 => telling[p] # Notice("authenticated", d)
    BY <2>4, Notes
  <2>6. QED
    BY <1>1, <1>8, <2>1, <2>2, <2>3, <2>4, <2>5 DEF Own, Told
<1>11. Minds(p)
  <2>1. \A c \in Connection : Doomed(p, c)'
    BY <1>4 DEF Doomed
  <2>2. QED
    BY <1>1, <1>4, <1>8, <1>9, <1>10, <2>1, UnheardMinds
<1>12. QED
  BY <1>7, <1>11, MindsServes

LEMMA StopServes ==
  ASSUME Inv, NEW p \in Peer, StopDiscovery(p)
  PROVE  Inv'
<1>1. TypeOK /\ Types /\ Own(p)
  BY TypesAre DEF Inv
<1>2. /\ connection' = [connection EXCEPT ![p] = Nobody]
      /\ known' = [known EXCEPT ![p] = {}]
      /\ Asks(p, Order("stopDiscovery"))
      /\ UNCHANGED <<native, network, events, runtime, telling, starts, drops>>
      /\ resets' \in Nat
  BY <1>1 DEF StopDiscovery, CountReset, Types
<1>3. Order("stopDiscovery") \in Request
  BY Forms
<1>4. /\ commands' \in [Peer -> Seq(Request)]
      /\ \A q \in Peer \ {p} : commands'[q] = commands[q]
      /\ \A x : Contains(commands[p], x) => Contains(commands'[p], x)
      /\ Contains(commands'[p], Order("stopDiscovery"))
  BY <1>1, <1>2, <1>3, Asked
<1>5. Nobody \in [Peer -> Connection \cup {None}] /\ \A q \in Peer : Nobody[q] = None
  BY DEF Nobody
<1>6. /\ connection' \in Links /\ connection'[p] = Nobody
      /\ known' \in [Peer -> SUBSET Connection]
      /\ \A q \in Peer \ {p} : connection'[q] = connection[q] /\ known'[q] = known[q]
  BY <1>1, <1>2, <1>5 DEF Types, Links
<1>7. StepOf(p)
  <2>1. Types'
    BY <1>1, <1>2, <1>4, <1>6 DEF Types, native, network, runtime
  <2>2. BegunStays
    BY <1>2, BegunSame DEF network
  <2>3. \A q \in Peer \ {p} : Quiet(q)
    BY <1>2, <1>4, <1>6 DEF Quiet, native, runtime
  <2>4. QED
    BY <2>1, <2>2, <2>3, TypesAre DEF StepOf
<1>8. UNCHANGED <<tasks, table, cancelled, found, dials, accepted, hellos, events,
                  configured, sessions, authenticated, current, telling, starts>>
  BY <1>2 DEF native, network, runtime
<1>9. Knows(p)'
  <2>1. \A k, c : Reports(p, k, c)' <=> Reports(p, k, c)
    BY <1>8 DEF Reports
  <2>2. \A q \in Peer, c \in Connection : Begun(q, c)' <=> Begun(q, c)
    BY <1>8, BegunSame
  <2>3. sessions[p] \in SUBSET Connection
    BY <1>1, OwnTyped
  <2>4. QED
    BY <1>1, <1>8, <2>1, <2>2, <2>3 DEF Own, Knows
<1>10. Told(p)'
  <2>1. Stops(p)' /\ \A q \in Peer : connection'[p][q] = None
    BY <1>4, <1>5, <1>6 DEF Stops
  <2>2. QED
    BY <1>1, <1>6, <1>8, <2>1 DEF Own, Told
<1>11. QED
  BY <1>1, <1>4, <1>7, <1>8, <1>9, <1>10, UnheardMinds, MindsServes

LEMMA SetRealtimeServes ==
  ASSUME Inv, NEW p \in Peer, SetRealtime(p)
  PROVE  Inv'
<1>1. TypeOK /\ Types /\ Own(p)
  BY TypesAre DEF Inv
<1>2. /\ Asks(p, Order("setRealtime"))
      /\ UNCHANGED <<native, network, events, runtime, telling, core, starts, drops>>
      /\ resets' \in Nat
  BY <1>1 DEF SetRealtime, CountReset, Types
<1>3. Order("setRealtime") \in Request
  BY Forms
<1>4. /\ commands' \in [Peer -> Seq(Request)]
      /\ \A q \in Peer \ {p} : commands'[q] = commands[q]
      /\ \A x : Contains(commands[p], x) => Contains(commands'[p], x)
  BY <1>1, <1>2, <1>3, Asked
<1>5. StepOf(p)
  <2>1. Types'
    BY <1>1, <1>2, <1>4 DEF Types, native, network, runtime, core
  <2>2. BegunStays
    BY <1>2, BegunSame DEF network
  <2>3. \A q \in Peer \ {p} : Quiet(q)
    BY <1>2, <1>4 DEF Quiet, native, runtime, core
  <2>4. QED
    BY <2>1, <2>2, <2>3, TypesAre DEF StepOf
<1>6. UNCHANGED <<tasks, table, cancelled, found, dials, accepted, hellos, events,
                  configured, sessions, authenticated, current, telling, connection,
                  known, starts>>
  BY <1>2 DEF native, network, runtime, core
<1>7. Knows(p)'
  <2>1. \A k, c : Reports(p, k, c)' <=> Reports(p, k, c)
    BY <1>6 DEF Reports
  <2>2. \A q \in Peer, c \in Connection : Begun(q, c)' <=> Begun(q, c)
    BY <1>6, BegunSame
  <2>3. sessions[p] \in SUBSET Connection
    BY <1>1, OwnTyped
  <2>4. QED
    BY <1>1, <1>6, <2>1, <2>2, <2>3 DEF Own, Knows
<1>8. Told(p)'
  <2>1. Stops(p) => Stops(p)'
    BY <1>4 DEF Stops
  <2>2. QED
    BY <1>1, <1>6, <2>1 DEF Own, Told
<1>9. QED
  BY <1>1, <1>4, <1>5, <1>6, <1>7, <1>8, UnheardMinds, MindsServes

(* The core is told: what it takes over is the current connection, unless   *)
(* discovery was started again meanwhile.                                  *)
LEMMA TellsServes ==
  ASSUME Inv, NEW p \in Peer, NEW kind, Tells(p, kind),
         connection' \in Links, known' \in [Peer -> SUBSET Connection],
         \A q \in Peer \ {p} : connection'[q] = connection[q] /\ known'[q] = known[q],
         Told(p)'
  PROVE  Inv'
<1>1. TypeOK /\ Types /\ Own(p)
  BY TypesAre DEF Inv
<1>2. /\ telling' = [telling EXCEPT ![p] = Silence]
      /\ UNCHANGED <<native, network, events, commands, runtime, bounds>>
  BY DEF Tells
<1>3. telling' \in [Peer -> Report] /\ \A q \in Peer \ {p} : telling'[q] = telling[q]
  BY <1>1, <1>2, Forms DEF Types
<1>4. StepOf(p)
  <2>1. Types'
    BY <1>1, <1>2, <1>3 DEF Types, native, network, runtime, bounds
  <2>2. BegunStays
    BY <1>2, BegunSame DEF network
  <2>3. \A q \in Peer \ {p} : Quiet(q)
    BY <1>2, <1>3 DEF Quiet, native, runtime, bounds
  <2>4. QED
    BY <2>1, <2>2, <2>3, TypesAre DEF StepOf
<1>5. UNCHANGED <<tasks, table, cancelled, found, dials, accepted, hellos, events,
                  commands, sessions, authenticated, current>>
  BY <1>2 DEF native, network, runtime
<1>6. Knows(p)'
  <2>1. \A k, c : Reports(p, k, c)' <=> Reports(p, k, c)
    BY <1>5 DEF Reports
  <2>2. \A q \in Peer, c \in Connection : Begun(q, c)' <=> Begun(q, c)
    BY <1>5, BegunSame
  <2>3. sessions[p] \in SUBSET Connection
    BY <1>1, OwnTyped
  <2>4. QED
    BY <1>1, <1>5, <2>1, <2>2, <2>3 DEF Own, Knows
<1>7. QED
  BY <1>1, <1>4, <1>5, <1>6, UnheardMinds, MindsServes

LEMMA TellingIs ==
  ASSUME TypeOK, NEW p \in Peer, NEW kind \in {"authenticated", "disconnected"},
         Tells(p, kind)
  PROVE  telling[p].connection \in Connection /\ telling[p] = Notice(kind, telling[p].connection)
<1>1. telling[p] \in Report /\ telling[p].kind = kind
  BY OwnTyped DEF Tells
<1>2. telling[p] # Stopped /\ telling[p] # Silence
  BY <1>1, Notes
<1>3. PICK c \in Connection : telling[p] = Notice(telling[p].kind, c)
  BY <1>1, <1>2, Forms
<1>4. telling[p].connection = c
  BY <1>3, Notes
<1>5. QED
  BY <1>1, <1>3, <1>4

LEMMA AuthenticatedServes ==
  ASSUME Inv, NEW p \in Peer, ToldAuthenticated(p)
  PROVE  Inv'
<1> DEFINE c == telling[p].connection
           r == Other(c, p)
<1>1. TypeOK /\ Types /\ Own(p) /\ Tells(p, "authenticated")
  BY TypesAre DEF Inv, ToldAuthenticated
<1>2. c \in Connection /\ telling[p] = Notice("authenticated", c)
  BY <1>1, TellingIs
<1>3. /\ connection' = [connection EXCEPT ![p] = [connection[p] EXCEPT ![r] = c]]
      /\ known' = [known EXCEPT ![p] = known[p] \cup {c}]
  BY DEF ToldAuthenticated
<1>4. r \in Peer /\ c # None
  BY <1>2, Ends
<1> HIDE DEF c, r
<1>5. /\ connection' \in Links
      /\ \A q \in Peer \ {p} : connection'[q] = connection[q]
      /\ connection'[p][r] = c
      /\ \A q \in Peer \ {r} : connection'[p][q] = connection[p][q]
  <2>1. connection \in [Peer -> [Peer -> Connection \cup {None}]]
    BY <1>1 DEF Types, Links
  <2>2. connection[p] \in [Peer -> Connection \cup {None}]
    BY <2>1
  <2>3. [connection[p] EXCEPT ![r] = c] \in [Peer -> Connection \cup {None}]
    BY <1>2, <2>2
  <2>4. connection'[p] = [connection[p] EXCEPT ![r] = c]
    BY <1>3, <2>1
  <2>5. connection'[p][r] = c /\ \A q \in Peer \ {r} : connection'[p][q] = connection[p][q]
    BY <1>4, <2>2, <2>4
  <2>6. QED
    BY <1>3, <2>1, <2>3, <2>5 DEF Links
<1>6. /\ known' \in [Peer -> SUBSET Connection]
      /\ \A q \in Peer \ {p} : known'[q] = known[q]
      /\ known'[p] = known[p] \cup {c}
  BY <1>1, <1>2, <1>3 DEF Types
<1>7. Told(p)'
  <2>1. /\ UNCHANGED <<configured, sessions, current, starts, table, commands>>
        /\ telling'[p] = Silence
    BY <1>1 DEF Tells, native, runtime, bounds, Types
  <2>2. Stops(p)' <=> Stops(p)
    BY <2>1 DEF Stops
  <2>3. starts[p] # 0
    BY <1>1, <1>2, Notes DEF Own, Told
  <2>4. current[p][r] = c \/ (current[p][r] = None /\ starts[p] > 1)
    BY <1>1, <1>2 DEF Own, Told, r
  <2>5. ASSUME NEW q \in Peer
        PROVE  /\ connection'[p][q] # None =>
                   connection'[p][q] \in known'[p] /\ Other(connection'[p][q], p) = q
               /\ current[p][q] # None =>
                   \/ connection'[p][q] = current[p][q]
                   \/ connection'[p][q] = None /\ (Stops(p) \/ current[p][q] \notin table[p])
               /\ current[p][q] = None /\ connection'[p][q] # None => starts[p] > 1
    <3>1. CASE q = r
      BY <1>4, <1>5, <1>6, <2>4, <3>1 DEF r
    <3>2. CASE q # r
      <4>1. connection'[p][q] = connection[p][q]
        BY <1>5, <3>2
      <4>2. /\ connection[p][q] # None =>
                 connection[p][q] \in known[p] /\ Other(connection[p][q], p) = q
            /\ current[p][q] # None =>
                 \/ telling[p] = Notice("authenticated", current[p][q])
                 \/ connection[p][q] = current[p][q]
                 \/ connection[p][q] = None /\ (Stops(p) \/ current[p][q] \notin table[p])
            /\ current[p][q] = None /\ connection[p][q] # None =>
                 \/ telling[p] = Notice("disconnected", connection[p][q])
                 \/ starts[p] > 1
        BY <1>1 DEF Own, Told
      <4>3. telling[p] # Notice("disconnected", connection[p][q])
        BY <1>2, Notes
      <4>4. ASSUME telling[p] = Notice("authenticated", current[p][q]), current[p][q] # None
            PROVE  FALSE
        <5>1. current[p][q] = c
          BY <1>2, <4>4, Notes
        <5>2. Other(current[p][q], p) = q
          BY <1>1, <4>4 DEF Own, Knows
        <5>3. QED
          BY <3>2, <5>1, <5>2 DEF r
      <4>5. QED
        BY <1>6, <4>1, <4>2, <4>3, <4>4
    <3>3. QED
      BY <3>1, <3>2
  <2>6. \A d \in Connection : /\ telling'[p] # Notice("disconnected", d)
                              /\ telling'[p] # Notice("authenticated", d)
    BY <2>1, Notes
  <2>7. QED
    BY <2>1, <2>2, <2>3, <2>5, <2>6 DEF Told
<1>8. QED
  BY <1>1, <1>5, <1>6, <1>7, TellsServes

LEMMA ToldEndServes ==
  ASSUME Inv, NEW p \in Peer, ToldDisconnected(p)
  PROVE  Inv'
<1> DEFINE c == telling[p].connection
           r == Other(c, p)
<1>1. TypeOK /\ Types /\ Own(p) /\ Tells(p, "disconnected")
  BY TypesAre DEF Inv, ToldDisconnected
<1>2. c \in Connection /\ telling[p] = Notice("disconnected", c)
  BY <1>1, TellingIs
<1>3. /\ connection' = IF c \in known[p]
                         THEN [connection EXCEPT ![p] = [connection[p] EXCEPT ![r] = None]]
                         ELSE connection
      /\ known' = [known EXCEPT ![p] = known[p] \ {c}]
  BY DEF ToldDisconnected
<1>4. r \in Peer /\ c # None
  BY <1>2, Ends
<1> HIDE DEF c, r
<1>5. /\ connection' \in Links
      /\ \A q \in Peer \ {p} : connection'[q] = connection[q]
      /\ \A q \in Peer \ {r} : connection'[p][q] = connection[p][q]
      /\ connection'[p][r] = IF c \in known[p] THEN None ELSE connection[p][r]
  <2>1. connection \in [Peer -> [Peer -> Connection \cup {None}]]
    BY <1>1 DEF Types, Links
  <2>2. CASE c \in known[p]
    <3>1. connection' = [connection EXCEPT ![p] = [connection[p] EXCEPT ![r] = None]]
      BY <1>3, <2>2
    <3>2. connection[p] \in [Peer -> Connection \cup {None}]
      BY <2>1
    <3>3. [connection[p] EXCEPT ![r] = None] \in [Peer -> Connection \cup {None}]
      BY <3>2
    <3>4. connection'[p] = [connection[p] EXCEPT ![r] = None]
      BY <2>1, <3>1
    <3>5. connection'[p][r] = None /\ \A q \in Peer \ {r} : connection'[p][q] = connection[p][q]
      BY <1>4, <3>2, <3>4
    <3>6. QED
      BY <2>1, <2>2, <3>1, <3>3, <3>5 DEF Links
  <2>3. CASE c \notin known[p]
    BY <1>3, <2>1, <2>3 DEF Links
  <2>4. QED
    BY <2>2, <2>3
<1>6. /\ known' \in [Peer -> SUBSET Connection]
      /\ \A q \in Peer \ {p} : known'[q] = known[q]
      /\ known'[p] = known[p] \ {c}
  BY <1>1, <1>3 DEF Types
<1>7. Told(p)'
  <2>1. /\ UNCHANGED <<configured, sessions, current, starts, table, commands>>
        /\ telling'[p] = Silence
    BY <1>1 DEF Tells, native, runtime, bounds, Types
  <2>2. Stops(p)' <=> Stops(p)
    BY <2>1 DEF Stops
  <2>3. starts[p] # 0
    BY <1>1, <1>2, Notes DEF Own, Told
  <2>4. current[p][r] = None
    BY <1>1, <1>2 DEF Own, Told, r
  <2>5. ASSUME NEW q \in Peer
        PROVE  /\ connection'[p][q] # None =>
                   connection'[p][q] \in known'[p] /\ Other(connection'[p][q], p) = q
               /\ current[p][q] # None =>
                   \/ connection'[p][q] = current[p][q]
                   \/ connection'[p][q] = None /\ (Stops(p) \/ current[p][q] \notin table[p])
               /\ current[p][q] = None /\ connection'[p][q] # None => starts[p] > 1
    <3>1. /\ connection[p][q] # None =>
               connection[p][q] \in known[p] /\ Other(connection[p][q], p) = q
          /\ current[p][q] # None =>
               \/ telling[p] = Notice("authenticated", current[p][q])
               \/ connection[p][q] = current[p][q]
               \/ connection[p][q] = None /\ (Stops(p) \/ current[p][q] \notin table[p])
          /\ current[p][q] = None /\ connection[p][q] # None =>
               \/ telling[p] = Notice("disconnected", connection[p][q])
               \/ starts[p] > 1
      BY <1>1 DEF Own, Told
    <3>2. /\ telling[p] # Notice("authenticated", current[p][q])
          /\ telling[p] = Notice("disconnected", connection[p][q]) => connection[p][q] = c
      BY <1>2, Notes
    <3>3. connection'[p][q] = connection[p][q] \/ connection'[p][q] = None
      BY <1>5
    <3>4. connection[p][q] = c => connection'[p][q] = None
      <4>1. HAVE connection[p][q] = c
      <4>2. c \in known[p] /\ q = r
        BY <1>4, <3>1, <4>1 DEF r
      <4>3. QED
        BY <1>5, <4>2
    <3>5. CASE q = r
      BY <1>4, <1>6, <2>4, <3>1, <3>2, <3>3, <3>4, <3>5
    <3>6. CASE q # r
      <4>1. connection'[p][q] = connection[p][q]
        BY <1>5, <3>6
      <4>2. connection[p][q] # c
        BY <1>4, <3>4, <4>1
      <4>3. QED
        BY <1>6, <3>1, <3>2, <4>1, <4>2
    <3>7. QED
      BY <3>5, <3>6
  <2>6. \A d \in Connection : /\ telling'[p] # Notice("disconnected", d)
                              /\ telling'[p] # Notice("authenticated", d)
    BY <2>1, Notes
  <2>7. QED
    BY <2>1, <2>2, <2>3, <2>5, <2>6 DEF Told
<1>8. QED
  BY <1>1, <1>5, <1>6, <1>7, TellsServes

----------------------------------------------------------------------------
(* The theorems *)

LEMMA InitServes == Init => Inv
<1> SUFFICES ASSUME Init PROVE Inv
  OBVIOUS
<1>1. Nobody \in [Peer -> Connection \cup {None}] /\ \A q \in Peer : Nobody[q] = None
  BY DEF Nobody
<1>2. Types
  <2>1. <<>> \in Seq(Report) /\ <<>> \in Seq(Request) /\ Silence \in Report
    BY Forms
  <2>2. QED
    BY <1>1, <2>1 DEF Init, Types, Links
<1>3. ASSUME NEW p \in Peer
      PROVE  /\ Own(p) /\ \A c \in Connection : ~Alive(p, c)
  <2>1. /\ tasks[p] = {} /\ cancelled[p] = {} /\ table[p] = {} /\ found[p] = {}
        /\ events[p] = <<>> /\ configured[p] = FALSE /\ sessions[p] = {}
        /\ authenticated[p] = {} /\ current[p] = Nobody /\ connection[p] = Nobody
        /\ telling[p] = Silence /\ starts[p] = 0
    BY DEF Init
  <2>2. Held(p)
    BY <2>1, FS_EmptySet DEF Held
  <2>3. Len(<<>>) = 0 /\ 1 .. 0 = {}
    OBVIOUS
  <2>4. \A x : ~Contains(events[p], x)
    BY <2>1, <2>3 DEF Contains
  <2>5. Reported(p)
    BY <2>1, <2>3, <2>4 DEF Reported, Reports, Ordered
  <2>6. Knows(p)
    BY <1>1, <2>1 DEF Knows
  <2>7. Told(p)
    <3>1. \A c \in Connection : /\ telling[p] # Notice("disconnected", c)
                                /\ telling[p] # Notice("authenticated", c)
      BY <2>1, Notes
    <3>2. QED
      BY <1>1, <2>1, <3>1 DEF Told
  <2>8. QED
    BY <2>1, <2>2, <2>5, <2>6, <2>7 DEF Own, Alive
<1>4. QED
  BY <1>2, <1>3, TypesAre DEF Inv

LEMMA NextServes == Inv /\ [Next]_vars => Inv'
<1> SUFFICES ASSUME Inv, [Next]_vars PROVE Inv'
  OBVIOUS
<1>1. \A p \in Peer : tasks[p] \subseteq Connection
  BY OwnTyped DEF Inv
<1>2. CASE UNCHANGED vars
  <2>1. Types
    BY TypesAre DEF Inv
  <2>2. Types'
    BY <1>2, <2>1 DEF vars, Types, native, network, runtime, core, bounds
  <2>3. QED
    BY <1>2, <2>2, TypesAre, StillServes DEF vars, native, network, bounds
<1>3. ASSUME NEW p \in Peer,
             StartDiscovery(p) \/ StopDiscovery(p) \/ SetRealtime(p)
      PROVE  Inv'
  BY <1>3, StartServes, StopServes, SetRealtimeServes
<1>4. ASSUME NEW p \in Peer, Actor(p)
      PROVE  Inv'
  BY <1>4, RunStartServes, RunSetRealtimeServes, RunDisconnectServes, RunSendHelloServes
     DEF Actor
<1>5. ASSUME NEW p \in Peer, Runtime(p)
      PROVE  Inv'
  BY <1>5, OpenedServes, HelloTakenServes, HelloRejectedServes, DisconnectedServes,
     StoppedServes, AuthenticatedServes, ToldEndServes DEF Runtime
<1>6. ASSUME NEW p \in Peer, NEW q \in Peer, Discover(p) \/ Retry(p, q)
      PROVE  Inv'
  BY <1>6, DiscoverServes, RetryServes
<1>7. ASSUME NEW p \in Peer, NEW c \in tasks[p], Deliver(p, c) \/ EndTask(p, c)
      PROVE  Inv'
  BY <1>7, DeliverServes, EndTaskServes
<1>8. ASSUME NEW c \in Connections, Accept(c) \/ Drop(c)
      PROVE  Inv'
  <2>1. c \in Connection
    BY <1>1 DEF Connections
  <2>2. QED
    BY <1>8, <2>1, AcceptServes, DropServes
<1>9. QED
  <2>1. CASE \E p \in Peer :
               \/ StartDiscovery(p) \/ StopDiscovery(p) \/ SetRealtime(p)
               \/ Actor(p) \/ Runtime(p) \/ Discover(p)
               \/ \E q \in Peer : Retry(p, q)
               \/ \E c \in tasks[p] : Deliver(p, c) \/ EndTask(p, c)
    BY <1>3, <1>4, <1>5, <1>6, <1>7, <2>1
  <2>2. CASE \E c \in Connections : Accept(c) \/ Drop(c)
    BY <1>8, <2>2
  <2>3. QED
    BY <1>2, <2>1, <2>2 DEF Next

(* Whatever is dialled, greeted, reset and lost: reports reach the runtime  *)
(* in an order in which it never knows a connection that is gone without    *)
(* being about to hear of it, and every end that is alive greets the other. *)
THEOREM Invariant == Spec => []Inv
<1>1. QED
  BY InitServes, NextServes, PTL DEF Spec

(* Nothing is under way, so the greeting of an end that is alive has        *)
(* arrived.                                                                *)
LEMMA RestIsShared == Inv => OneConnection
<1> SUFFICES ASSUME Inv PROVE OneConnection
  OBVIOUS
<1>1. ASSUME AtRest, NEW p \in Peer, NEW c \in tasks[p]
      PROVE  current[p][Other(c, p)] = c
  <2> DEFINE q == Other(c, p)
  <2>1. TypeOK /\ c \in Connection
    BY OwnTyped DEF Inv
  <2>2. p \in {c[1], c[2]} /\ c[1] # c[2]
    BY DEF Inv, Own, Held
  <2>3. q \in Peer /\ Other(c, q) = p
    BY <2>1, <2>2, Ends
  <2> HIDE DEF q
  <2>4. /\ \A r \in Peer : events[r] = <<>> /\ commands[r] = <<>> /\ cancelled[r] = {}
        /\ c \in tasks[q]
        /\ \A d \in Connections, r \in Peer : <<d, r>> \notin hellos
    BY <1>1 DEF AtRest, q
  <2>5. c \in Connections
    BY DEF Connections
  <2>6. \A x : ~Contains(<<>>, x)
    <3>1. Len(<<>>) = 0 /\ 1 .. 0 = {}
      OBVIOUS
    <3>2. QED
      BY <3>1 DEF Contains
  <2>7. Alive(p, c) /\ Alive(q, c)
    BY <2>3, <2>4 DEF Alive
  <2>8. Greets(q, c)
    BY <2>1, <2>3, <2>7 DEF Inv
  <2>9. Greeted(p, c)
    BY <2>3, <2>4, <2>5, <2>6, <2>8 DEF Greets, Reports, Doomed, Stops
  <2>10. QED
    BY <2>4, <2>6, <2>7, <2>9 DEF Greeted, Reports, Doomed, Stops
<1>2. QED
  BY <1>1 DEF OneConnection, Inv

(* TypeOK and the one connection of two devices at rest, for any number of  *)
(* peers, dials, resets and failures: crossing dials, replaced connections, *)
(* late hellos and stops leave no pair with two connections or with two     *)
(* views of which is current.                                              *)
THEOREM ConnectionsAreShared == Spec => []OneConnection
<1>1. QED
  BY Invariant, RestIsShared, PTL

LEMMA RestIsKnown == Inv => CoreKnows
<1> SUFFICES ASSUME Inv, AtRest, NEW p \in Peer, NEW q \in Peer,
                    connection[p][q] # current[p][q]
             PROVE  starts[p] > 1 /\ current[p][q] = None
  BY DEF CoreKnows
<1>1. /\ events[p] = <<>> /\ commands[p] = <<>> /\ telling[p] = Silence
  BY DEF AtRest
<1>2. \A x : ~Contains(<<>>, x)
  <2>1. Len(<<>>) = 0 /\ 1 .. 0 = {}
    OBVIOUS
  <2>2. QED
    BY <2>1 DEF Contains
<1>3. \A c : /\ telling[p] # Notice("authenticated", c)
             /\ telling[p] # Notice("disconnected", c)
  BY <1>1, Notes
<1>4. CASE current[p][q] # None
  <2>1. current[p][q] \in sessions[p]
    BY <1>4 DEF Inv, Own, Knows
  <2>2. current[p][q] \in table[p]
    BY <1>1, <1>2, <2>1 DEF Inv, Own, Knows, Reports
  <2>3. ~Stops(p)
    BY <1>1, <1>2 DEF Stops
  <2>4. \/ telling[p] = Notice("authenticated", current[p][q])
        \/ connection[p][q] = current[p][q]
        \/ connection[p][q] = None /\ (Stops(p) \/ current[p][q] \notin table[p])
    BY <1>4 DEF Inv, Own, Told
  <2>5. QED
    BY <1>3, <2>2, <2>3, <2>4
<1>5. CASE current[p][q] = None
  BY <1>3, <1>5 DEF Inv, Own, Told
<1>6. QED
  BY <1>4, <1>5

(* Once all is told, the core of a device sends where its runtime has a     *)
(* connection, whatever stops, ends and replacements overtook each other:   *)
(* only a repeated start leaves it one that the runtime has forgotten.      *)
THEOREM CoresKnowTheirConnections == Spec => []CoreKnows
<1>1. QED
  BY Invariant, RestIsKnown, PTL
============================================================================
