----------------------- MODULE ResourceTransferProofs -----------------------
(* Proofs about ResourceTransfer for any devices, any finite set of          *)
(* resources of any content and number of chunks, and any number of faults:  *)
(* what a running device shows as available is whole, only good bytes are    *)
(* served, what is gained is kept and what is cancelled stays cancelled,     *)
(* wherever a process dies between two file operations.                      *)
EXTENDS ResourceTransfer, SequenceTheorems, FiniteSetTheorems,
        WellFoundedInduction, TLAPS

-----------------------------------------------------------------------------
(* Sequences                                                                 *)

LEMMA LeastExists ==
  ASSUME NEW N \in SUBSET Nat, N # {}
  PROVE  \E least \in N : \A n \in N : least <= n
<1>1. PICK least \in N : \A n \in N : ~(<<n, least>> \in OpToRel(<, Nat))
  BY NatLessThanWellFounded, WFMin, Zenon
<1>2. \A n \in N : least <= n
  <2>1. TAKE n \in N
  <2>2. <<n, least>> \in Nat \X Nat
    OBVIOUS
  <2>3. ~(n < least)
    BY <1>1, <2>2 DEF OpToRel
  <2>4. QED
    BY <2>3
<1>3. QED
  BY <1>2

(* A set of numbers with 1 and every successor up to n is everything to n.   *)
LEMMA UpTo ==
  ASSUME NEW n \in Nat, NEW N, 1 \in N,
         \A i \in 1..n : i > 1 /\ i - 1 \in N => i \in N
  PROVE  1..n \subseteq N
<1>1. SUFFICES ASSUME (1..n) \ N # {} PROVE FALSE
  OBVIOUS
<1>2. (1..n) \ N \in SUBSET Nat
  OBVIOUS
<1>3. PICK least \in (1..n) \ N : \A i \in (1..n) \ N : least <= i
  BY <1>1, <1>2, LeastExists
<1>4. least > 1 /\ least - 1 \in 1..n
  BY <1>3
<1>5. least - 1 \in N
  BY <1>3, <1>4
<1>6. QED
  BY <1>3, <1>4, <1>5

(* A finite set as a sequence: nothing is added, nothing is left out.       *)
LEMMA SequenceOf ==
  ASSUME NEW S, IsFiniteSet(S)
  PROVE  /\ SetToSeq(S) \in Seq(S)
         /\ \A x \in S : \E i \in 1..Len(SetToSeq(S)) : SetToSeq(S)[i] = x
<1>1. Cardinality(S) \in Nat /\ ExistsBijection(1..Cardinality(S), S)
  BY FS_CardinalityType
<1>2. PICK g \in Bijection(1..Cardinality(S), S) : TRUE
  BY <1>1 DEF ExistsBijection
<1>3. g \in [1..Cardinality(S) -> S] /\ IsInjective(g)
  BY <1>2 DEF Bijection, Injection
<1>4. /\ SetToSeq(S) \in [1..Cardinality(S) -> S]
      /\ IsInjective(SetToSeq(S))
  BY <1>3 DEF SetToSeq
<1>5. SetToSeq(S) \in Injection(1..Cardinality(S), S)
  BY <1>4 DEF Injection
<1>6. IsFiniteSet(1..Cardinality(S)) /\ Cardinality(1..Cardinality(S)) = Cardinality(S)
  BY <1>1, FS_Interval
<1>7. SetToSeq(S) \in Surjection(1..Cardinality(S), S)
  BY <1>5, <1>6, FS_Injection
<1>8. SetToSeq(S) \in Seq(S) /\ Len(SetToSeq(S)) = Cardinality(S)
  BY <1>1, <1>4
<1>9. QED
  BY <1>7, <1>8 DEF Surjection

(* What FlattenSeq chooses: the function that joins the first i of seqs.     *)
Joins(seqs, n, f) ==
  f = [i \in 1..n |-> IF i = 1 THEN seqs[i] ELSE f[i-1] \o seqs[i]]

LEMMA JoinsExists ==
  ASSUME NEW seqs, NEW n \in Nat \ {0}
  PROVE  \E f : Joins(seqs, n, f)
<1> DEFINE N == {k \in Nat : \E f : Joins(seqs, k, f)}
<1>1. 1 \in N
  <2>1. Joins(seqs, 1, [i \in 1..1 |-> seqs[1]])
    BY DEF Joins
  <2>2. QED
    BY <2>1
<1>2. ASSUME NEW i \in 1..n, i > 1, i - 1 \in N
      PROVE  i \in N
  <2>1. PICK f : Joins(seqs, i - 1, f)
    BY <1>2
  <2>2. f = [k \in 1..i-1 |-> IF k = 1 THEN seqs[k] ELSE f[k-1] \o seqs[k]]
    BY <2>1 DEF Joins
  <2> DEFINE g == [k \in 1..i |-> IF k < i THEN f[k] ELSE f[i-1] \o seqs[i]]
  <2>3. ASSUME NEW k \in 1..i
        PROVE  g[k] = IF k = 1 THEN seqs[k] ELSE g[k-1] \o seqs[k]
    <3>1. CASE k = 1
      <4>1. g[k] = f[1] /\ 1 \in 1..i-1
        BY <1>2, <3>1
      <4>2. f[1] = seqs[1]
        BY <2>2, <4>1
      <4>3. QED
        BY <3>1, <4>1, <4>2
    <3>2. CASE k # 1 /\ k < i
      <4>1. k \in 1..i-1 /\ k - 1 \in 1..i /\ k - 1 < i
        BY <2>3, <3>2
      <4>2. g[k] = f[k] /\ g[k-1] = f[k-1]
        BY <3>2, <4>1
      <4>3. f[k] = f[k-1] \o seqs[k]
        BY <2>2, <3>2, <4>1
      <4>4. QED
        BY <3>2, <4>2, <4>3
    <3>3. CASE k # 1 /\ k = i
      <4>1. i \in 1..i /\ ~(i < i) /\ i - 1 \in 1..i /\ i - 1 < i
        BY <1>2
      <4>2. g[i] = f[i-1] \o seqs[i] /\ g[i-1] = f[i-1]
        BY <4>1
      <4>3. QED
        BY <3>3, <4>2
    <3>4. QED
      BY <2>3, <3>1, <3>2, <3>3
  <2>4. g = [k \in 1..i |-> g[k]]
    OBVIOUS
  <2> HIDE DEF g
  <2>5. Joins(seqs, i, g)
    BY <2>3, <2>4 DEF Joins
  <2>6. QED
    BY <2>5
<1>3. 1..n \subseteq N
  <2> HIDE DEF N
  <2>1. QED
    BY <1>1, <1>2, UpTo
<1>4. n \in N
  BY <1>3
<1>5. QED
  BY <1>4

(* FlattenSeq has the elements of its sequences, and no others.              *)
LEMMA FlattenRange ==
  ASSUME NEW T, NEW seqs \in Seq(Seq(T))
  PROVE  /\ FlattenSeq(seqs) \in Seq(T)
         /\ Range(FlattenSeq(seqs)) = UNION {Range(seqs[k]) : k \in DOMAIN seqs}
<1> DEFINE n == Len(seqs)
<1>1. n \in Nat /\ DOMAIN seqs = 1..n /\ \A k \in 1..n : seqs[k] \in Seq(T)
  OBVIOUS
<1>2. CASE n = 0
  <2>1. FlattenSeq(seqs) = seqs /\ seqs = <<>>
    BY <1>2 DEF FlattenSeq
  <2>2. QED
    BY <2>1 DEF Range
<1>3. CASE n # 0
  <2>1. PICK f : Joins(seqs, n, f) /\ FlattenSeq(seqs) = f[n]
    <3>1. \E f : Joins(seqs, n, f)
      BY <1>1, <1>3, JoinsExists
    <3>2. FlattenSeq(seqs) = (CHOOSE f : Joins(seqs, n, f))[n]
      BY <1>3 DEF FlattenSeq, Joins
    <3>3. QED
      BY <3>1, <3>2
  <2>2. f = [i \in 1..n |-> IF i = 1 THEN seqs[i] ELSE f[i-1] \o seqs[i]]
    BY <2>1 DEF Joins
  <2> DEFINE N == {k \in 1..n : /\ f[k] \in Seq(T)
                               /\ Range(f[k]) = UNION {Range(seqs[i]) : i \in 1..k}}
  <2>3. 1 \in N
    <3>1. 1 \in 1..n /\ 1..1 = {1}
      BY <1>1, <1>3
    <3>2. f[1] = seqs[1]
      BY <2>2, <3>1
    <3>3. QED
      BY <1>1, <3>1, <3>2
  <2>4. ASSUME NEW i \in 1..n, i > 1, i - 1 \in N
        PROVE  i \in N
    <3>1. f[i] = f[i-1] \o seqs[i]
      <4> HIDE DEF N
      <4>1. i \in 1..n /\ i # 1
        BY <2>4
      <4>2. QED
        BY <2>2, <4>1
    <3>2. f[i-1] \in Seq(T) /\ seqs[i] \in Seq(T)
      BY <1>1, <2>4
    <3>3. f[i] \in Seq(T) /\ Range(f[i]) = Range(f[i-1]) \cup Range(seqs[i])
      BY <3>1, <3>2, RangeConcatenation
    <3>4. 1..i = (1..i-1) \cup {i}
      BY <2>4
    <3>5. Range(f[i]) = UNION {Range(seqs[j]) : j \in 1..i}
      BY <2>4, <3>3, <3>4
    <3>6. QED
      BY <3>3, <3>5
  <2>5. 1..n \subseteq N
    <3> HIDE DEF N
    <3>1. QED
      BY <1>1, <2>3, <2>4, UpTo
  <2>6. n \in N
    <3> HIDE DEF N
    <3>1. n \in 1..n
      BY <1>1, <1>3
    <3>2. QED
      BY <2>5, <3>1
  <2>7. QED
    BY <1>1, <2>1, <2>6
<1>4. QED
  BY <1>2, <1>3

(* What a function gives for the members of a finite set, one after another. *)
InTurn(S, g) ==
  LET order == SetToSeq(S) IN FlattenSeq([k \in DOMAIN order |-> g[order[k]]])

LEMMA InTurnRange ==
  ASSUME NEW T, NEW S, IsFiniteSet(S), NEW g \in [S -> Seq(T)]
  PROVE  /\ InTurn(S, g) \in Seq(T)
         /\ Range(InTurn(S, g)) = UNION {Range(g[x]) : x \in S}
<1> DEFINE order == SetToSeq(S)
           seqs == [k \in DOMAIN order |-> g[order[k]]]
<1>1. order \in Seq(S) /\ \A x \in S : \E i \in 1..Len(order) : order[i] = x
  BY SequenceOf
<1>2. DOMAIN order = 1..Len(order) /\ Len(order) \in Nat
      /\ \A k \in 1..Len(order) : order[k] \in S
  BY <1>1
<1> HIDE DEF order
<1>3. seqs \in Seq(Seq(T)) /\ DOMAIN seqs = 1..Len(order)
  BY <1>2
<1>4. InTurn(S, g) = FlattenSeq(seqs)
  BY DEF InTurn, order
<1>5. /\ FlattenSeq(seqs) \in Seq(T)
      /\ Range(FlattenSeq(seqs)) = UNION {Range(seqs[k]) : k \in DOMAIN seqs}
  <2> HIDE DEF seqs
  <2>1. QED
    BY <1>3, FlattenRange
<1>6. \A k \in 1..Len(order) : seqs[k] = g[order[k]]
  BY <1>2
<1> HIDE DEF seqs
<1>7. ASSUME NEW x \in S, NEW op \in Range(g[x])
      PROVE  op \in Range(FlattenSeq(seqs))
  <2>1. PICK k \in 1..Len(order) : order[k] = x
    BY <1>1
  <2>2. op \in Range(seqs[k]) /\ k \in DOMAIN seqs
    BY <1>3, <1>6, <1>7, <2>1
  <2>3. QED
    BY <1>5, <2>2
<1>8. ASSUME NEW op \in Range(FlattenSeq(seqs))
      PROVE  \E x \in S : op \in Range(g[x])
  <2>1. PICK k \in DOMAIN seqs : op \in Range(seqs[k])
    BY <1>5, <1>8
  <2>2. order[k] \in S /\ op \in Range(g[order[k]])
    BY <1>2, <1>3, <1>6, <2>1
  <2>3. QED
    BY <2>2
<1>9. QED
  BY <1>4, <1>5, <1>7, <1>8

LEMMA MaxIs ==
  ASSUME NEW N \in SUBSET Nat, N # {}, NEW b \in Nat, \A n \in N : n <= b
  PROVE  Max(N) \in N /\ \A n \in N : n <= Max(N)
<1> DEFINE M == {m \in 0..b : b - m \in N}
<1>1. PICK n \in N : TRUE
  OBVIOUS
<1>2. b - n \in M
  <2>1. n \in Nat /\ n <= b /\ b - n \in 0..b /\ b - (b - n) = n
    OBVIOUS
  <2>2. QED
    BY <2>1
<1>3. M \in SUBSET Nat /\ M # {}
  <2>1. M \in SUBSET Nat
    OBVIOUS
  <2>2. M # {}
    BY <1>2
  <2>3. QED
    BY <2>1, <2>2
<1>4. PICK least \in M : \A m \in M : least <= m
  BY <1>3, LeastExists
<1>5. ASSUME NEW k \in N PROVE k <= b - least
  <2>1. b - k \in M
    OBVIOUS
  <2>2. QED
    BY <1>4, <2>1
<1>6. b - least \in N /\ \A k \in N : b - least >= k
  BY <1>4, <1>5
<1>7. \E x \in N : \A y \in N : x >= y
  BY <1>6
<1>8. Max(N) \in N /\ \A y \in N : Max(N) >= y
  BY <1>7 DEF Max
<1>9. QED
  BY <1>8

-----------------------------------------------------------------------------
(* Files and operations                                                      *)

Op == [files : SUBSET File, to : {"good", "none"}, whole : BOOLEAN]

LEMMA FileKinds ==
  /\ \A r \in Resource : /\ Manifest(r) \in File /\ Event(r) \in File
                          /\ Object(r) \in File /\ ChunkFiles(r) \subseteq File
  /\ \A r, s \in Resource :
       /\ Manifest(r) = Manifest(s) => r = s
       /\ Manifest(r) # Event(s) /\ Manifest(r) # Object(s)
       /\ Event(r) # Object(s)
       /\ Manifest(r) \notin ChunkFiles(s) /\ Event(r) \notin ChunkFiles(s)
       /\ Object(r) \notin ChunkFiles(s)
       /\ \A i \in Chunk : /\ ChunkFile(r, i) \in ChunkFiles(r)
                            /\ ChunkFile(r, i) \in ChunkFiles(s) => r = s
<1>1. \A r \in Resource : /\ Manifest(r) \in File /\ Event(r) \in File
                          /\ Object(r) \in File /\ ChunkFiles(r) \subseteq File
  BY DEF File
<1>2. \A r, s \in Resource :
       /\ Manifest(r) = Manifest(s) => r = s
       /\ Manifest(r) # Event(s) /\ Manifest(r) # Object(s)
       /\ Event(r) # Object(s)
  BY DEF Manifest, Event, Object
<1>3. \A r \in Resource : \A f \in ChunkFiles(r) : f[1] = "chunk" /\ f[2] = r
  BY DEF ChunkFiles, ChunkFile
<1>4. \A r \in Resource : /\ Manifest(r)[1] = "manifest" /\ Event(r)[1] = "event"
                          /\ Object(r)[1] = "object"
  BY DEF Manifest, Event, Object
<1>5. \A r, s \in Resource :
       /\ Manifest(r) \notin ChunkFiles(s) /\ Event(r) \notin ChunkFiles(s)
       /\ Object(r) \notin ChunkFiles(s)
  BY <1>3, <1>4
<1>6. \A r, s \in Resource : \A i \in Chunk :
       /\ ChunkFile(r, i) \in ChunkFiles(r)
       /\ ChunkFile(r, i) \in ChunkFiles(s) => r = s
  <2>1. \A r \in Resource : \A i \in Chunk : ChunkFile(r, i) \in ChunkFiles(r)
    BY DEF ChunkFiles
  <2>2. QED
    BY <1>3, <2>1
<1>7. QED
  BY <1>1, <1>2, <1>5, <1>6

LEMMA OtherKinds ==
  ASSUME NEW r \in Resource, NEW s \in Resource
  PROVE  /\ Manifest(r) \notin ChunkFiles(s) /\ Event(r) \notin ChunkFiles(s)
         /\ Object(r) \notin ChunkFiles(s)
         /\ \A i \in Chunk : /\ ChunkFile(r, i) \in ChunkFiles(r)
                             /\ ChunkFile(r, i) \in ChunkFiles(s) => r = s
<1>1. /\ Manifest(r) \notin ChunkFiles(s) /\ Event(r) \notin ChunkFiles(s)
      /\ Object(r) \notin ChunkFiles(s)
  BY FileKinds
<1>2. ASSUME NEW i \in Chunk
      PROVE  /\ ChunkFile(r, i) \in ChunkFiles(r)
             /\ ChunkFile(r, i) \in ChunkFiles(s) => r = s
  <2>1. ChunkFile(r, i) \in ChunkFiles(r)
    BY DEF ChunkFiles
  <2>2. ChunkFile(r, i) \in ChunkFiles(s) => ChunkFile(r, i)[2] = s
    BY DEF ChunkFiles, ChunkFile
  <2>3. ChunkFile(r, i)[2] = r
    BY DEF ChunkFile
  <2>4. QED
    BY <2>1, <2>2, <2>3
<1>3. QED
  BY <1>1, <1>2

(* What decides a file: the last operation that touches it.                  *)
LEMMA RunTouched ==
  ASSUME NEW D, NEW ops \in Seq(Op), NEW f \in File
  PROVE  /\ (\A k \in 1..Len(ops) : f \notin ops[k].files) => Run(D, ops)[f] = D[f]
         /\ (\E k \in 1..Len(ops) : f \in ops[k].files) =>
              \E k \in 1..Len(ops) :
                /\ f \in ops[k].files /\ Run(D, ops)[f] = ops[k].to
                /\ \A j \in 1..Len(ops) : j > k => f \notin ops[j].files
<1> DEFINE touch == {k \in DOMAIN ops : f \in ops[k].files}
<1>1. DOMAIN ops = 1..Len(ops) /\ Len(ops) \in Nat
  OBVIOUS
<1>2. Run(D, ops)[f] = IF touch = {} THEN D[f] ELSE ops[Max(touch)].to
  BY DEF Run
<1>3. touch \in SUBSET Nat /\ \A k \in touch : k <= Len(ops)
  BY <1>1
<1>4. touch # {} => Max(touch) \in touch /\ \A k \in touch : k <= Max(touch)
  <2> HIDE DEF touch
  <2>1. QED
    BY <1>1, <1>3, MaxIs
<1>5. CASE touch = {}
  BY <1>1, <1>2, <1>5
<1>6. CASE touch # {}
  <2> DEFINE k == Max(touch)
  <2>1. k \in touch /\ \A j \in touch : j <= k
    BY <1>4, <1>6
  <2>2. Run(D, ops)[f] = ops[k].to
    BY <1>2, <1>6
  <2> HIDE DEF k
  <2>3. \A j \in 1..Len(ops) : j > k => f \notin ops[j].files
    <3>1. TAKE j \in 1..Len(ops)
    <3>2. f \in ops[j].files => j \in touch
      BY <1>1
    <3>3. k \in Nat /\ j \in Nat
      BY <1>3, <2>1
    <3>4. QED
      BY <2>1, <3>2, <3>3
  <2>4. k \in 1..Len(ops) /\ f \in ops[k].files
    BY <1>1, <2>1
  <2>5. QED
    BY <2>2, <2>3, <2>4
<1>7. QED
  BY <1>5, <1>6

LEMMA RunValue ==
  ASSUME NEW D \in Files, NEW ops \in Seq(Op)
  PROVE  /\ Run(D, ops) \in Files
         /\ \A f \in File : \/ /\ Run(D, ops)[f] = D[f]
                              /\ \A op \in Range(ops) : f \notin op.files
                           \/ \E op \in Range(ops) :
                                f \in op.files /\ Run(D, ops)[f] = op.to
<1>1. Range(ops) = {ops[k] : k \in 1..Len(ops)} /\ Range(ops) \subseteq Op
  BY RangeEquality, RangeOfSeq
<1>2. ASSUME NEW f \in File
      PROVE  \/ /\ Run(D, ops)[f] = D[f]
                /\ \A op \in Range(ops) : f \notin op.files
             \/ \E op \in Range(ops) : f \in op.files /\ Run(D, ops)[f] = op.to
  <2>1. CASE \A k \in 1..Len(ops) : f \notin ops[k].files
    BY <1>1, <2>1, RunTouched
  <2>2. CASE \E k \in 1..Len(ops) : f \in ops[k].files
    <3>1. PICK k \in 1..Len(ops) : f \in ops[k].files /\ Run(D, ops)[f] = ops[k].to
      BY <2>2, RunTouched
    <3>2. QED
      BY <1>1, <3>1
  <2>3. QED
    BY <2>1, <2>2
<1>3. ASSUME NEW f \in File
      PROVE  Run(D, ops)[f] \in {"none", "good", "bad"}
  <2>1. D[f] \in {"none", "good", "bad"}
    BY DEF Files
  <2>2. \A op \in Range(ops) : op.to \in {"none", "good", "bad"}
    BY <1>1 DEF Op
  <2>3. QED
    BY <1>2, <2>1, <2>2
<1>4. Run(D, ops) = [f \in File |-> Run(D, ops)[f]]
  BY DEF Run
<1>5. QED
  BY <1>2, <1>3, <1>4 DEF Files

LEMMA RunConcat ==
  ASSUME NEW D \in Files, NEW a \in Seq(Op), NEW b \in Seq(Op)
  PROVE  Run(D, a \o b) = Run(Run(D, a), b)
<1> DEFINE m == Len(a)
           n == Len(b)
           c == a \o b
<1>1. /\ m \in Nat /\ n \in Nat /\ c \in Seq(Op) /\ Len(c) = m + n
      /\ \A k \in 1..m : c[k] = a[k]
      /\ \A k \in 1..n : c[m + k] = b[k]
  BY ConcatProperties
<1> HIDE DEF c, m, n
<1>0. \A f \in File :
        (\E k \in 1..m+n : f \in c[k].files) =>
           \E k \in 1..m+n : /\ f \in c[k].files /\ Run(D, c)[f] = c[k].to
                             /\ \A j \in 1..m+n : j > k => f \notin c[j].files
  <2>1. TAKE f \in File
  <2>2. c \in Seq(Op) /\ Len(c) = m + n
    BY <1>1
  <2>3. QED
    BY <2>2, RunTouched, SMTT(30)
<1>2. ASSUME NEW f \in File
      PROVE  Run(D, c)[f] = Run(Run(D, a), b)[f]
  <2>1. CASE \A k \in 1..n : f \notin b[k].files
    <3>1. Run(Run(D, a), b)[f] = Run(D, a)[f]
      BY <2>1, RunTouched DEF n
    <3>2. ASSUME NEW k \in 1..m+n, k > m
          PROVE  f \notin c[k].files
      <4>1. k - m \in 1..n /\ m + (k - m) = k
        BY <1>1, <3>2
      <4>2. QED
        BY <1>1, <2>1, <4>1
    <3>3. CASE \A k \in 1..m : f \notin a[k].files
      <4>1. \A k \in 1..m+n : f \notin c[k].files
        <5>1. TAKE k \in 1..m+n
        <5>2. k \in 1..m \/ k > m
          BY <1>1
        <5>3. QED
          BY <1>1, <3>2, <3>3, <5>2
      <4>2. Run(D, c)[f] = D[f]
        BY <1>1, <4>1, RunTouched
      <4>3. Run(D, a)[f] = D[f]
        BY <3>3, RunTouched DEF m
      <4>4. QED
        BY <3>1, <4>2, <4>3
    <3>4. CASE \E k \in 1..m : f \in a[k].files
      <4>1. PICK k \in 1..m : /\ f \in a[k].files /\ Run(D, a)[f] = a[k].to
                              /\ \A j \in 1..m : j > k => f \notin a[j].files
        BY <3>4, RunTouched DEF m
      <4>2. k \in 1..m+n /\ f \in c[k].files
        BY <1>1, <4>1
      <4>3. PICK j \in 1..m+n : /\ f \in c[j].files /\ Run(D, c)[f] = c[j].to
                                /\ \A i \in 1..m+n : i > j => f \notin c[i].files
        BY <1>0, <4>2
      <4>4. j \in 1..m
        BY <1>1, <3>2, <4>3
      <4>5. j = k
        <5>1. ~(k > j)
          BY <4>2, <4>3
        <5>2. ~(j > k)
          BY <1>1, <4>1, <4>3, <4>4
        <5>3. QED
          BY <1>1, <4>1, <4>4, <5>1, <5>2
      <4>6. QED
        BY <1>1, <3>1, <4>1, <4>3, <4>5
    <3>5. QED
      BY <3>3, <3>4
  <2>2. CASE \E k \in 1..n : f \in b[k].files
    <3>1. PICK k \in 1..n : /\ f \in b[k].files /\ Run(Run(D, a), b)[f] = b[k].to
                            /\ \A j \in 1..n : j > k => f \notin b[j].files
      BY <2>2, RunTouched DEF n
    <3>2. m + k \in 1..m+n /\ c[m + k] = b[k]
      BY <1>1
    <3>3. PICK j \in 1..m+n : /\ f \in c[j].files /\ Run(D, c)[f] = c[j].to
                              /\ \A i \in 1..m+n : i > j => f \notin c[i].files
      BY <1>0, <3>1, <3>2
    <3>4. ~(m + k > j)
      BY <3>1, <3>2, <3>3
    <3>5. j - m \in 1..n /\ m + (j - m) = j
      BY <1>1, <3>4
    <3>6. ~(j - m > k)
      BY <1>1, <3>1, <3>3, <3>5
    <3>7. j = m + k
      BY <1>1, <3>4, <3>5, <3>6
    <3>8. QED
      BY <3>1, <3>2, <3>3, <3>7
  <2>3. QED
    BY <2>1, <2>2
<1>3. QED
  BY <1>2 DEF Run, c

(* What a process that dies leaves: the work of some operations and of a     *)
(* part of the next.                                                         *)
Some(op, S) == [op EXCEPT !.files = S]
Cut(ops, k, S) == Append(SubSeq(ops, 1, k - 1), Some(ops[k], S))

LEMMA RemainsIs ==
  ASSUME NEW D, NEW ops, NEW X
  PROVE  X \in Remains(D, ops) <=>
           X = D \/ \E k \in DOMAIN ops : \E S \in Part(ops[k]) : X = Run(D, Cut(ops, k, S))
<1> DEFINE From(k) == {Run(D, Cut(ops, k, S)) : S \in Part(ops[k])}
<1>1. Remains(D, ops) = {D} \cup UNION {From(k) : k \in DOMAIN ops}
  BY DEF Remains, Cut, Some
<1>2. X \in UNION {From(k) : k \in DOMAIN ops} <=> \E k \in DOMAIN ops : X \in From(k)
  OBVIOUS
<1>3. \A k : X \in From(k) <=> \E S \in Part(ops[k]) : X = Run(D, Cut(ops, k, S))
  OBVIOUS
<1> HIDE DEF From
<1>4. QED
  BY <1>1, <1>2, <1>3

LEMMA CutParts ==
  ASSUME NEW ops \in Seq(Op), NEW k \in 1..Len(ops), NEW S \in Part(ops[k])
  PROVE  /\ Cut(ops, k, S) \in Seq(Op) /\ Len(Cut(ops, k, S)) = k
         /\ \A i \in 1..k-1 : Cut(ops, k, S)[i] = ops[i]
         /\ Cut(ops, k, S)[k] = Some(ops[k], S)
         /\ Cut(ops, k, S)[k].files \subseteq ops[k].files
         /\ Cut(ops, k, S)[k].to = ops[k].to
<1> DEFINE pre == SubSeq(ops, 1, k - 1)
           cut == Some(ops[k], S)
<1>1. ops[k] \in Op /\ k \in Nat /\ k >= 1 /\ \A i \in 1..k-1 : ops[i] \in Op
  OBVIOUS
<1>2. S \subseteq ops[k].files
  BY DEF Part
<1>3. cut \in Op /\ cut.files = S /\ cut.to = ops[k].to
  BY <1>1, <1>2 DEF Op, Some
<1>4. pre \in Seq(Op) /\ Len(pre) = k - 1 /\ \A i \in 1..k-1 : pre[i] = ops[i]
  <2>1. k - 1 \in Int /\ 1 \in Int
    BY <1>1
  <2>2. /\ pre \in Seq(Op)
        /\ Len(pre) = IF 1 <= k - 1 THEN k - 1 - 1 + 1 ELSE 0
        /\ \A i \in 1 .. k-1-1+1 : pre[i] = ops[1+i-1]
    BY <1>1, <2>1, SubSeqProperties
  <2>3. QED
    BY <1>1, <2>2
<1> HIDE DEF pre, cut
<1>5. /\ Append(pre, cut) \in Seq(Op) /\ Len(Append(pre, cut)) = Len(pre) + 1
      /\ \A i \in 1..Len(pre) : Append(pre, cut)[i] = pre[i]
      /\ Append(pre, cut)[Len(pre) + 1] = cut
  BY <1>3, <1>4, AppendProperties
<1>6. Cut(ops, k, S) = Append(pre, cut)
  BY DEF Cut, pre, cut
<1>7. k - 1 + 1 = k
  BY <1>1
<1>8. /\ Cut(ops, k, S) \in Seq(Op) /\ Len(Cut(ops, k, S)) = k
      /\ \A i \in 1..k-1 : Cut(ops, k, S)[i] = ops[i]
      /\ Cut(ops, k, S)[k] = cut
  BY <1>4, <1>5, <1>6, <1>7
<1>9. QED
  BY <1>2, <1>3, <1>8 DEF cut

LEMMA RemainsValue ==
  ASSUME NEW D \in Files, NEW ops \in Seq(Op), NEW X \in Remains(D, ops)
  PROVE  /\ X \in Files
         /\ \A f \in File : \/ X[f] = D[f]
                            \/ \E op \in Range(ops) : f \in op.files /\ X[f] = op.to
<1>1. CASE X = D
  BY <1>1
<1>2. ASSUME NEW k \in DOMAIN ops, NEW S \in Part(ops[k]), X = Run(D, Cut(ops, k, S))
      PROVE  /\ X \in Files
             /\ \A f \in File : \/ X[f] = D[f]
                                \/ \E op \in Range(ops) : f \in op.files /\ X[f] = op.to
  <2> DEFINE c == Cut(ops, k, S)
  <2>1. k \in 1..Len(ops) /\ Len(ops) \in Nat
    OBVIOUS
  <2>2. /\ c \in Seq(Op) /\ Len(c) = k
        /\ \A i \in 1..k-1 : c[i] = ops[i]
        /\ c[k].files \subseteq ops[k].files /\ c[k].to = ops[k].to
    <3> HIDE DEF c
    <3>1. /\ Cut(ops, k, S) \in Seq(Op) /\ Len(Cut(ops, k, S)) = k
          /\ \A i \in 1..k-1 : Cut(ops, k, S)[i] = ops[i]
          /\ Cut(ops, k, S)[k].files \subseteq ops[k].files
          /\ Cut(ops, k, S)[k].to = ops[k].to
      BY <2>1, CutParts, Zenon
    <3>2. QED
      BY <3>1 DEF c
  <2> HIDE DEF c
  <2>3. ASSUME NEW op \in Range(c)
        PROVE  \E o \in Range(ops) : op.files \subseteq o.files /\ op.to = o.to
    <3>0. Range(c) = {c[i] : i \in 1..Len(c)} /\ Range(ops) = {ops[i] : i \in 1..Len(ops)}
      BY <2>2, RangeEquality
    <3>1. PICK i \in 1..k : op = c[i]
      BY <2>2, <2>3, <3>0
    <3>2. i \in 1..Len(ops)
      BY <2>1
    <3>3. i \in 1..k-1 \/ i = k
      BY <2>1
    <3>4. QED
      BY <2>2, <3>0, <3>1, <3>2, <3>3
  <2>4. /\ X \in Files
        /\ \A f \in File : \/ X[f] = D[f]
                           \/ \E op \in Range(c) : f \in op.files /\ X[f] = op.to
    BY <1>2, <2>2, RunValue DEF c
  <2>5. QED
    BY <2>3, <2>4
<1>3. QED
  BY <1>1, <1>2, RemainsIs

LEMMA RemainsConcat ==
  ASSUME NEW D \in Files, NEW a \in Seq(Op), NEW b \in Seq(Op),
         NEW X \in Remains(D, a \o b)
  PROVE  X \in Remains(D, a) \cup Remains(Run(D, a), b)
<1> DEFINE m == Len(a)
           n == Len(b)
           ops == a \o b
<1>1. /\ m \in Nat /\ n \in Nat /\ ops \in Seq(Op) /\ Len(ops) = m + n
      /\ \A k \in 1..m : ops[k] = a[k]
      /\ \A k \in 1..n : ops[m + k] = b[k]
      /\ DOMAIN a = 1..m /\ DOMAIN b = 1..n /\ DOMAIN ops = 1..m+n
  BY ConcatProperties
<1> HIDE DEF ops, m, n
<1>2. CASE X = D
  BY <1>2, RemainsIs
<1>3. ASSUME NEW k \in 1..m+n, NEW S \in Part(ops[k]), X = Run(D, Cut(ops, k, S))
      PROVE  X \in Remains(D, a) \cup Remains(Run(D, a), b)
  <2> DEFINE c == Cut(ops, k, S)
  <2>1. /\ c \in Seq(Op) /\ Len(c) = k
        /\ \A i \in 1..k-1 : c[i] = ops[i]
        /\ c[k] = Some(ops[k], S)
    <3> HIDE DEF c
    <3>1. ops \in Seq(Op) /\ k \in 1..Len(ops) /\ S \in Part(ops[k])
      BY <1>1, <1>3
    <3>2. /\ Cut(ops, k, S) \in Seq(Op) /\ Len(Cut(ops, k, S)) = k
          /\ \A i \in 1..k-1 : Cut(ops, k, S)[i] = ops[i]
          /\ Cut(ops, k, S)[k] = Some(ops[k], S)
      BY <3>1, CutParts, Zenon
    <3>3. QED
      BY <3>2 DEF c
  <2> HIDE DEF c
  <2>2. CASE k <= m
    <3> DEFINE d == Cut(a, k, S)
    <3>1. k \in 1..m /\ ops[k] = a[k]
      BY <1>1, <2>2
    <3>2. /\ d \in Seq(Op) /\ Len(d) = k
          /\ \A i \in 1..k-1 : d[i] = a[i]
          /\ d[k] = Some(a[k], S)
      BY <1>3, <3>1, CutParts DEF m
    <3> HIDE DEF d
    <3>3. \A i \in 1..k : c[i] = d[i]
      <4>1. TAKE i \in 1..k
      <4>2. CASE i = k
        BY <2>1, <3>1, <3>2, <4>2
      <4>3. CASE i # k
        <5>1. i \in 1..k-1 /\ i \in 1..m
          BY <1>1, <3>1, <4>3
        <5>2. QED
          BY <1>1, <2>1, <3>2, <5>1
      <4>4. QED
        BY <4>2, <4>3
    <3>4. c = d
      BY <2>1, <3>2, <3>3, SeqEqual
    <3>5. k \in DOMAIN a /\ S \in Part(a[k]) /\ X = Run(D, Cut(a, k, S))
      BY <1>1, <1>3, <3>1, <3>4 DEF c, d
    <3>6. X \in Remains(D, a)
      BY <3>5, RemainsIs
    <3>7. QED
      BY <3>6
  <2>3. CASE ~(k <= m)
    <3>1. PICK j \in 1..n : m + j = k
      <4>1. k - m \in 1..n /\ m + (k - m) = k
        BY <1>1, <2>3
      <4>2. QED
        BY <4>1
    <3>2. ops[k] = b[j]
      BY <1>1, <3>1
    <3> DEFINE d == Cut(b, j, S)
    <3>3. /\ d \in Seq(Op) /\ Len(d) = j
          /\ \A i \in 1..j-1 : d[i] = b[i]
          /\ d[j] = Some(b[j], S)
      BY <1>3, <3>2, CutParts DEF n
    <3> HIDE DEF d
    <3>4. /\ a \o d \in Seq(Op) /\ Len(a \o d) = k
          /\ \A i \in 1..k : (a \o d)[i] = IF i <= m THEN a[i] ELSE d[i - m]
      <4>1. /\ a \o d \in Seq(Op) /\ Len(a \o d) = Len(a) + Len(d)
            /\ \A i \in 1 .. Len(a) + Len(d) :
                  (a \o d)[i] = IF i <= Len(a) THEN a[i] ELSE d[i - Len(a)]
        BY <3>3, ConcatProperties
      <4>2. Len(a) + Len(d) = k
        BY <3>1, <3>3 DEF m
      <4>3. QED
        BY <4>1, <4>2 DEF m
    <3>5. ASSUME NEW i \in 1..k PROVE c[i] = (a \o d)[i]
      <4>1. CASE i <= m
        <5>1. i \in 1..m /\ i \in 1..k-1
          BY <1>1, <2>3, <4>1
        <5>2. QED
          BY <1>1, <2>1, <3>4, <4>1, <5>1
      <4>2. CASE ~(i <= m) /\ i # k
        <5>a. /\ i \in Nat /\ j \in Nat /\ k \in Nat /\ m \in Nat /\ n \in Nat
              /\ k = m + j /\ j <= n /\ 1 <= i /\ i <= k /\ k >= 1
          BY <1>1, <3>1
        <5>b. m < i /\ i < k
          BY <4>2, <5>a
        <5>c. i \in 1..k-1
          BY <5>a, <5>b
        <5>d. i - m \in 1..j-1 /\ m + (i - m) = i
          BY <5>a, <5>b
        <5>e. i - m \in 1..n
          BY <5>a, <5>d
        <5>1. i - m \in 1..j-1 /\ i - m \in 1..n /\ m + (i - m) = i /\ i \in 1..k-1
          BY <5>c, <5>d, <5>e
        <5>2. ops[i] = b[i - m]
          BY <1>1, <5>1
        <5>3. QED
          BY <2>1, <3>3, <3>4, <4>2, <5>1, <5>2
      <4>3. CASE i = k
        <5>1. i - m = j
          BY <1>1, <3>1, <4>3
        <5>2. QED
          BY <2>1, <2>3, <3>2, <3>3, <3>4, <4>3, <5>1
      <4>4. QED
        BY <4>1, <4>2, <4>3
    <3>6. c = a \o d
      BY <2>1, <3>4, <3>5, SeqEqual
    <3>7. X = Run(Run(D, a), d)
      <4>1. Run(D, a \o d) = Run(Run(D, a), d)
        BY <3>3, RunConcat
      <4>2. QED
        BY <1>3, <3>6, <4>1 DEF c
    <3>8. j \in DOMAIN b /\ S \in Part(b[j]) /\ X = Run(Run(D, a), Cut(b, j, S))
      BY <1>1, <1>3, <3>2, <3>7 DEF d
    <3>9. X \in Remains(Run(D, a), b)
      BY <3>8, RemainsIs
    <3>10. QED
      BY <3>9
  <2>4. QED
    BY <2>2, <2>3
<1>4. QED
  BY <1>1, <1>2, <1>3, RemainsIs, ZenonT(40) DEF ops

-----------------------------------------------------------------------------
(* What operations keep                                                      *)

(* Every good file of D is good in X, but for the chunks of an object that   *)
(* is whole in X.                                                            *)
Keeps(D, X) ==
  /\ X \in Files
  /\ \A f \in File : D[f] = "good" =>
       X[f] = "good" \/ \E r \in Resource : f \in ChunkFiles(r) /\ Complete(X, r)

(* Deletions of nothing good but the chunks of whole objects, and of no      *)
(* manifests or events; with writes, these are the mild operations.          *)
Tidying(D) ==
  {op \in Op : /\ op.to = "none"
               /\ \A f \in op.files, r \in Resource : f # Manifest(r) /\ f # Event(r)
               /\ \A f \in op.files : D[f] = "good" =>
                    \E r \in Resource : f \in ChunkFiles(r) /\ Complete(D, r)}

MildOps(D) == Tidying(D) \cup {Write(f) : f \in File}

LEMMA WriteIs ==
  ASSUME NEW f \in File
  PROVE  Write(f) \in Op /\ Write(f).files = {f} /\ Write(f).to = "good"
BY DEF Write, Op

LEMMA MildAreOps ==
  ASSUME NEW D
  PROVE  MildOps(D) \subseteq Op
BY WriteIs DEF MildOps, Tidying

LEMMA KeepsWhat ==
  ASSUME NEW D \in Files, NEW X, Keeps(D, X), NEW r \in Resource
  PROVE  /\ Known(D, r) => Known(X, r)
         /\ Complete(D, r) => Complete(X, r)
         /\ D[Event(r)] = "good" => X[Event(r)] = "good"
         /\ \A i \in Chunk : D[ChunkFile(r, i)] = "good" =>
              X[ChunkFile(r, i)] = "good" \/ Complete(X, r)
<1>1. \A s \in Resource : /\ Manifest(r) \notin ChunkFiles(s)
                          /\ Event(r) \notin ChunkFiles(s)
                          /\ Object(r) \notin ChunkFiles(s)
                          /\ \A i \in Chunk : /\ ChunkFile(r, i) \in ChunkFiles(r)
                                              /\ ChunkFile(r, i) \in ChunkFiles(s) => r = s
  <2>1. TAKE s \in Resource
  <2>2. /\ Manifest(r) \notin ChunkFiles(s) /\ Event(r) \notin ChunkFiles(s)
        /\ Object(r) \notin ChunkFiles(s)
        /\ \A i \in Chunk : /\ ChunkFile(r, i) \in ChunkFiles(r)
                            /\ ChunkFile(r, i) \in ChunkFiles(s) => r = s
    BY OtherKinds
  <2>3. QED
    BY <2>2
<1>2. /\ Manifest(r) \in File /\ Event(r) \in File /\ Object(r) \in File
      /\ ChunkFiles(r) \subseteq File
  BY FileKinds
<1>3. \A f \in File : D[f] = "good" =>
        X[f] = "good" \/ \E s \in Resource : f \in ChunkFiles(s) /\ Complete(X, s)
  BY DEF Keeps
<1>4. Known(D, r) => Known(X, r)
  BY <1>1, <1>2, <1>3 DEF Known
<1>5. Complete(D, r) => Complete(X, r)
  BY <1>1, <1>2, <1>3 DEF Complete, Verified
<1>6. D[Event(r)] = "good" => X[Event(r)] = "good"
  BY <1>1, <1>2, <1>3
<1>7. ASSUME NEW i \in Chunk, D[ChunkFile(r, i)] = "good"
      PROVE  X[ChunkFile(r, i)] = "good" \/ Complete(X, r)
  <2>1. ChunkFile(r, i) \in File
    BY <1>1, <1>2
  <2>2. \A s \in Resource : ChunkFile(r, i) \in ChunkFiles(s) => s = r
    BY <1>1
  <2>3. \/ X[ChunkFile(r, i)] = "good"
        \/ \E s \in Resource : ChunkFile(r, i) \in ChunkFiles(s) /\ Complete(X, s)
    BY <1>3, <1>7, <2>1
  <2>4. QED
    BY <2>2, <2>3
<1>8. QED
  BY <1>4, <1>5, <1>6, <1>7

LEMMA KeepsTransitive ==
  ASSUME NEW D \in Files, NEW X, NEW Y, Keeps(D, X), Keeps(X, Y)
  PROVE  Keeps(D, Y)
<1>1. X \in Files /\ Y \in Files
  BY DEF Keeps
<1>2. \A r \in Resource : Complete(X, r) => Complete(Y, r)
  BY <1>1, KeepsWhat
<1>3. ASSUME NEW f \in File, D[f] = "good"
      PROVE  Y[f] = "good" \/ \E r \in Resource : f \in ChunkFiles(r) /\ Complete(Y, r)
  <2>1. CASE X[f] = "good"
    BY <2>1 DEF Keeps
  <2>2. CASE \E r \in Resource : f \in ChunkFiles(r) /\ Complete(X, r)
    BY <1>2, <2>2
  <2>3. QED
    BY <1>3, <2>1, <2>2 DEF Keeps
<1>4. QED
  BY <1>1, <1>3 DEF Keeps

LEMMA MildKeeps ==
  ASSUME NEW D \in Files, NEW ops \in Seq(MildOps(D))
  PROVE  /\ Keeps(D, Run(D, ops))
         /\ \A X \in Remains(D, ops) : Keeps(D, X)
<1>1. ops \in Seq(Op) /\ Range(ops) \subseteq MildOps(D)
  <2>1. MildOps(D) \subseteq Op
    BY MildAreOps
  <2>2. QED
    BY <2>1, RangeOfSeq
<1>2. ASSUME NEW X \in Files,
             \A f \in File : \/ X[f] = D[f]
                             \/ \E op \in Range(ops) : f \in op.files /\ X[f] = op.to
      PROVE  Keeps(D, X)
  <2>1. ASSUME NEW f \in File, D[f] = "good", X[f] # "good"
        PROVE  \E r \in Resource : f \in ChunkFiles(r) /\ Complete(D, r)
    <3>1. PICK op \in Range(ops) : f \in op.files /\ X[f] = op.to
      BY <1>2, <2>1
    <3>2. op \in Tidying(D)
      BY <1>1, <2>1, <3>1 DEF MildOps, Write
    <3>3. QED
      BY <2>1, <3>1, <3>2 DEF Tidying
  <2>2. ASSUME NEW r \in Resource, Complete(D, r)
        PROVE  Complete(X, r)
    <3>1. Object(r) \in File /\ \A s \in Resource : Object(r) \notin ChunkFiles(s)
      BY FileKinds
    <3>2. QED
      BY <2>1, <2>2, <3>1 DEF Complete, Verified
  <2>3. QED
    BY <2>1, <2>2 DEF Keeps
<1>3. Keeps(D, Run(D, ops))
  <2>1. /\ Run(D, ops) \in Files
        /\ \A f \in File : \/ Run(D, ops)[f] = D[f]
                           \/ \E op \in Range(ops) : f \in op.files /\ Run(D, ops)[f] = op.to
    BY <1>1, RunValue
  <2>2. QED
    BY <1>2, <2>1
<1>4. ASSUME NEW X \in Remains(D, ops)
      PROVE  Keeps(D, X)
  <2>1. /\ X \in Files
        /\ \A f \in File : \/ X[f] = D[f]
                           \/ \E op \in Range(ops) : f \in op.files /\ X[f] = op.to
    BY <1>1, RemainsValue
  <2>2. QED
    BY <1>2, <2>1
<1>5. QED
  BY <1>3, <1>4

(* Operations that keep what is good, run to their end or cut off.           *)
Gentle(D, ops) ==
  /\ ops \in Seq(Op)
  /\ Keeps(D, Run(D, ops))
  /\ \A X \in Remains(D, ops) : Keeps(D, X)

LEMMA MildGentle ==
  ASSUME NEW D \in Files, NEW ops \in Seq(MildOps(D))
  PROVE  Gentle(D, ops)
<1>1. MildOps(D) \subseteq Op
  BY MildAreOps
<1>2. ops \in Seq(Op)
  BY <1>1
<1>3. QED
  BY <1>2, MildKeeps DEF Gentle

LEMMA GentleConcat ==
  ASSUME NEW D \in Files, NEW a, NEW b, Gentle(D, a), Gentle(Run(D, a), b)
  PROVE  Gentle(D, a \o b) /\ Run(D, a \o b) = Run(Run(D, a), b)
<1>1. a \in Seq(Op) /\ b \in Seq(Op) /\ a \o b \in Seq(Op) /\ Keeps(D, Run(D, a))
  BY DEF Gentle
<1>2. Run(D, a \o b) = Run(Run(D, a), b)
  BY <1>1, RunConcat
<1>3. Keeps(D, Run(D, a \o b))
  BY <1>1, <1>2, KeepsTransitive DEF Gentle
<1>4. ASSUME NEW X \in Remains(D, a \o b)
      PROVE  Keeps(D, X)
  <2>1. X \in Remains(D, a) \/ X \in Remains(Run(D, a), b)
    BY <1>1, RemainsConcat
  <2>2. X \in Remains(Run(D, a), b) => Keeps(Run(D, a), X)
    BY DEF Gentle
  <2>3. QED
    BY <1>1, <2>1, <2>2, KeepsTransitive DEF Gentle
<1>5. QED
  BY <1>1, <1>2, <1>3, <1>4 DEF Gentle

(* A manifest or an event is there after mild operations if it was before or *)
(* one of them writes it.                                                    *)
LEMMA Written ==
  ASSUME NEW D \in Files, NEW ops \in Seq(MildOps(D)), NEW f \in File,
         \E r \in Resource : f = Manifest(r) \/ f = Event(r),
         D[f] = "good" \/ Write(f) \in Range(ops)
  PROVE  Run(D, ops)[f] = "good"
<1>1. ops \in Seq(Op) /\ Range(ops) \subseteq MildOps(D)
  BY MildAreOps, RangeOfSeq
<1>2. CASE /\ Run(D, ops)[f] = D[f]
           /\ \A op \in Range(ops) : f \notin op.files
  BY <1>2, WriteIs
<1>3. ASSUME NEW op \in Range(ops), f \in op.files, Run(D, ops)[f] = op.to
      PROVE  Run(D, ops)[f] = "good"
  <2>1. op \notin Tidying(D)
    BY <1>3 DEF Tidying
  <2>2. QED
    BY <1>1, <1>3, <2>1, WriteIs DEF MildOps
<1>4. QED
  BY <1>1, <1>2, <1>3, RunValue

LEMMA Untouched ==
  ASSUME NEW D \in Files, NEW ops \in Seq(Op), NEW f \in File,
         \A op \in Range(ops) : f \notin op.files
  PROVE  Run(D, ops)[f] = D[f]
BY RunValue

-----------------------------------------------------------------------------
(* What the operations of a transfer do                                      *)

LEMMA Singleton ==
  ASSUME NEW T, NEW x \in T
  PROVE  <<x>> \in Seq(T) /\ Range(<<x>>) = {x}
<1>1. <<x>> \in Seq(T) /\ Len(<<x>>) = 1 /\ <<x>>[1] = x
  OBVIOUS
<1>2. Range(<<x>>) = {<<x>>[k] : k \in 1..1}
  BY <1>1, RangeEquality
<1>3. 1..1 = {1}
  OBVIOUS
<1>4. QED
  BY <1>1, <1>2, <1>3

LEMMA Empty ==
  ASSUME NEW T
  PROVE  <<>> \in Seq(T) /\ Range(<<>>) = {}
BY DEF Range

LEMMA Concat ==
  ASSUME NEW T, NEW a \in Seq(T), NEW b \in Seq(T)
  PROVE  a \o b \in Seq(T) /\ Range(a \o b) = Range(a) \cup Range(b)
BY RangeConcatenation

LEMMA RecoverOps ==
  ASSUME NEW D \in Files, NEW r \in Resource
  PROVE  Recover(D, r) \in Seq(Tidying(D))
<1>1. /\ Object(r) \in File /\ ChunkFiles(r) \subseteq File
      /\ \A s \in Resource : /\ Manifest(s) # Object(r) /\ Event(s) # Object(r)
                             /\ Manifest(s) \notin ChunkFiles(r)
                             /\ Event(s) \notin ChunkFiles(r)
  BY FileKinds
<1>2. CASE Complete(D, r)
  <2>1. Delete(ChunkFiles(r)) \in Tidying(D)
    BY <1>1, <1>2 DEF Delete, Op, Tidying
  <2>2. <<Delete(ChunkFiles(r))>> \in Seq(Tidying(D))
    BY <2>1, Singleton
  <2>3. QED
    BY <1>2, <2>2 DEF Recover
<1>3. CASE ~Complete(D, r)
  <2>1. Delete(Bad(D, {Object(r)})) \in Tidying(D)
    BY <1>1 DEF Delete, Op, Tidying, Bad
  <2>2. Delete(Bad(D, ChunkFiles(r))) \in Tidying(D)
    BY <1>1 DEF Delete, Op, Tidying, Bad
  <2>3. <<Delete(Bad(D, {Object(r)})), Delete(Bad(D, ChunkFiles(r)))>> \in Seq(Tidying(D))
    BY <2>1, <2>2
  <2>4. QED
    BY <1>3, <2>3 DEF Recover
<1>4. QED
  BY <1>2, <1>3

LEMMA ResumeOps ==
  ASSUME NEW D \in Files, NEW r \in Resource
  PROVE  Resume(D, r) \in Seq(Tidying(D))
BY RecoverOps, Empty DEF Resume

LEMMA BeginOps ==
  ASSUME NEW D \in Files, NEW r \in Resource
  PROVE  /\ Begin(D, r) \in Seq(Tidying(D) \cup {Write(Manifest(r))})
         /\ Known(D, r) \/ Write(Manifest(r)) \in Range(Begin(D, r))
<1> DEFINE T == Tidying(D) \cup {Write(Manifest(r))}
           first == IF Known(D, r) THEN <<>> ELSE <<Write(Manifest(r))>>
<1>1. Recover(D, r) \in Seq(T)
  BY RecoverOps
<1>2. first \in Seq(T) /\ (Known(D, r) \/ Range(first) = {Write(Manifest(r))})
  <2>1. <<Write(Manifest(r))>> \in Seq(T) /\ Range(<<Write(Manifest(r))>>) = {Write(Manifest(r))}
    BY Singleton
  <2>2. <<>> \in Seq(T)
    BY Empty
  <2>3. QED
    BY <2>1, <2>2
<1>3. Begin(D, r) = first \o Recover(D, r)
  BY DEF Begin
<1> HIDE DEF T, first
<1>4. Begin(D, r) \in Seq(T) /\ Range(Begin(D, r)) = Range(first) \cup Range(Recover(D, r))
  BY <1>1, <1>2, <1>3, Concat
<1>5. QED
  BY <1>2, <1>4 DEF T

(* The loops of the handlers over finite sets.                               *)
Resumes(D, S) ==
  LET order == SetToSeq(S) IN FlattenSeq([k \in DOMAIN order |-> Resume(D, order[k])])
Begins(D, S) ==
  LET order == SetToSeq(S) IN FlattenSeq([k \in DOMAIN order |-> Begin(D, order[k])])
Records(D, S) ==
  LET order == SetToSeq(S)
  IN  FlattenSeq([k \in DOMAIN order |-> <<Write(Event(order[k]))>> \o Begin(D, order[k])])
Accepts(D, r, S) ==
  LET order == SetToSeq(S) IN FlattenSeq([k \in DOMAIN order |-> Accept(D, r, order[k])])
Cancels(S) ==
  LET order == SetToSeq(S) IN FlattenSeq([k \in DOMAIN order |-> Cancel(order[k])])
Recovers(D, S) ==
  LET order == SetToSeq(S) IN FlattenSeq([k \in DOMAIN order |-> Recover(D, order[k])])

LEMMA OrderOf ==
  ASSUME NEW S, IsFiniteSet(S)
  PROVE  /\ SetToSeq(S) \in Seq(S)
         /\ \A k \in DOMAIN SetToSeq(S) : SetToSeq(S)[k] \in S
BY SequenceOf

LEMMA FiniteResources ==
  ASSUME NEW S \in SUBSET Resource
  PROVE  IsFiniteSet(S)
BY ConstantsAssumption, FS_Subset

LEMMA FiniteChunks ==
  ASSUME NEW S \in SUBSET Chunk
  PROVE  IsFiniteSet(S)
<1>1. IsFiniteSet(Chunk)
  BY ConstantsAssumption, FS_Interval DEF Chunk
<1>2. QED
  BY <1>1, FS_Subset

LEMMA ResumesOps ==
  ASSUME NEW D \in Files, NEW S \in SUBSET Resource
  PROVE  Resumes(D, S) \in Seq(Tidying(D))
<1> DEFINE g == [r \in S |-> Resume(D, r)]
<1>1. IsFiniteSet(S)
  BY FiniteResources
<1>2. g \in [S -> Seq(Tidying(D))]
  BY ResumeOps
<1>3. Resumes(D, S) = InTurn(S, g)
  BY <1>1, OrderOf DEF Resumes, InTurn
<1> HIDE DEF g
<1>4. QED
  BY <1>1, <1>2, <1>3, InTurnRange

LEMMA BeginsOps ==
  ASSUME NEW D \in Files, NEW S \in SUBSET Resource
  PROVE  /\ Begins(D, S) \in Seq(Tidying(D) \cup {Write(Manifest(r)) : r \in S})
         /\ \A r \in S : Known(D, r) \/ Write(Manifest(r)) \in Range(Begins(D, S))
<1> DEFINE g == [r \in S |-> Begin(D, r)]
           T == Tidying(D) \cup {Write(Manifest(r)) : r \in S}
<1>1. IsFiniteSet(S)
  BY FiniteResources
<1>2. \A r \in S : Begin(D, r) \in Seq(T)
  <2>1. TAKE r \in S
  <2>2. Begin(D, r) \in Seq(Tidying(D) \cup {Write(Manifest(r))})
    BY BeginOps
  <2>3. Tidying(D) \cup {Write(Manifest(r))} \subseteq T
    OBVIOUS
  <2> HIDE DEF T
  <2>4. QED
    BY <2>2, <2>3
<1>3. g \in [S -> Seq(T)]
  BY <1>2
<1>4. Begins(D, S) = InTurn(S, g)
  BY <1>1, OrderOf DEF Begins, InTurn
<1>5. \A r \in S : g[r] = Begin(D, r) /\ (Known(D, r) \/ Write(Manifest(r)) \in Range(g[r]))
  BY BeginOps
<1> HIDE DEF g, T
<1>6. /\ InTurn(S, g) \in Seq(T)
      /\ Range(InTurn(S, g)) = UNION {Range(g[r]) : r \in S}
  BY <1>1, <1>3, InTurnRange
<1>7. QED
  BY <1>4, <1>5, <1>6 DEF T

LEMMA RecordsOps ==
  ASSUME NEW D \in Files, NEW S \in SUBSET Resource
  PROVE  /\ Records(D, S) \in Seq(Tidying(D) \cup {Write(Manifest(r)) : r \in S}
                                          \cup {Write(Event(r)) : r \in S})
         /\ \A r \in S : Known(D, r) \/ Write(Manifest(r)) \in Range(Records(D, S))
         /\ \A r \in S : Write(Event(r)) \in Range(Records(D, S))
<1> DEFINE g == [r \in S |-> <<Write(Event(r))>> \o Begin(D, r)]
           T == Tidying(D) \cup {Write(Manifest(r)) : r \in S} \cup {Write(Event(r)) : r \in S}
<1>1. IsFiniteSet(S)
  BY FiniteResources
<1>2. \A r \in S : /\ <<Write(Event(r))>> \o Begin(D, r) \in Seq(T)
                   /\ Write(Event(r)) \in Range(<<Write(Event(r))>> \o Begin(D, r))
                   /\ \/ Known(D, r)
                      \/ Write(Manifest(r)) \in Range(<<Write(Event(r))>> \o Begin(D, r))
  <2>1. TAKE r \in S
  <2>2. /\ Begin(D, r) \in Seq(Tidying(D) \cup {Write(Manifest(r))})
        /\ Known(D, r) \/ Write(Manifest(r)) \in Range(Begin(D, r))
    BY BeginOps
  <2>3. Tidying(D) \cup {Write(Manifest(r))} \subseteq T /\ Write(Event(r)) \in T
    OBVIOUS
  <2> HIDE DEF T
  <2>4. Begin(D, r) \in Seq(T)
    BY <2>2, <2>3
  <2>5. <<Write(Event(r))>> \in Seq(T) /\ Range(<<Write(Event(r))>>) = {Write(Event(r))}
    BY <2>3, Singleton
  <2>6. /\ <<Write(Event(r))>> \o Begin(D, r) \in Seq(T)
        /\ Range(<<Write(Event(r))>> \o Begin(D, r))
             = Range(<<Write(Event(r))>>) \cup Range(Begin(D, r))
    BY <2>4, <2>5, Concat, ZenonT(40)
  <2>7. QED
    BY <2>2, <2>5, <2>6
<1>3. g \in [S -> Seq(T)]
  BY <1>2
<1>4. Records(D, S) = InTurn(S, g)
  BY <1>1, OrderOf DEF Records, InTurn
<1>5. \A r \in S : /\ Write(Event(r)) \in Range(g[r])
                   /\ Known(D, r) \/ Write(Manifest(r)) \in Range(g[r])
  BY <1>2
<1> HIDE DEF g, T
<1>6. /\ InTurn(S, g) \in Seq(T)
      /\ Range(InTurn(S, g)) = UNION {Range(g[r]) : r \in S}
  BY <1>1, <1>3, InTurnRange
<1>7. QED
  BY <1>4, <1>5, <1>6 DEF T

LEMMA AcceptOps ==
  ASSUME NEW D, NEW r \in Resource, NEW i \in Chunk
  PROVE  Accept(D, r, i) \in Seq({Write(f) : f \in ChunkFiles(r)})
<1>1. Write(ChunkFile(r, i)) \in {Write(f) : f \in ChunkFiles(r)}
  BY OtherKinds
<1>2. QED
  BY <1>1, Singleton, Empty DEF Accept

LEMMA AcceptsOps ==
  ASSUME NEW D, NEW r \in Resource, NEW S \in SUBSET Chunk
  PROVE  Accepts(D, r, S) \in Seq({Write(f) : f \in ChunkFiles(r)})
<1> DEFINE g == [i \in S |-> Accept(D, r, i)]
<1>1. IsFiniteSet(S)
  BY FiniteChunks
<1>2. g \in [S -> Seq({Write(f) : f \in ChunkFiles(r)})]
  BY AcceptOps
<1>3. Accepts(D, r, S) = InTurn(S, g)
  BY <1>1, OrderOf DEF Accepts, InTurn
<1> HIDE DEF g
<1>4. QED
  BY <1>1, <1>2, <1>3, InTurnRange

LEMMA CancelsOps ==
  ASSUME NEW S \in SUBSET Resource
  PROVE  Cancels(S) \in Seq(Op)
<1> DEFINE g == [r \in S |-> Cancel(r)]
<1>1. IsFiniteSet(S)
  BY FiniteResources
<1>2. \A r \in S : Cancel(r) \in Seq(Op)
  <2>1. TAKE r \in S
  <2>2. Delete({Manifest(r)} \cup ChunkFiles(r)) \in Op
    BY FileKinds DEF Delete, Op
  <2>3. QED
    BY <2>2, Singleton DEF Cancel
<1>3. g \in [S -> Seq(Op)]
  BY <1>2
<1>4. Cancels(S) = InTurn(S, g)
  BY <1>1, OrderOf DEF Cancels, InTurn
<1> HIDE DEF g
<1>5. QED
  BY <1>1, <1>3, <1>4, InTurnRange

LEMMA RecoversOps ==
  ASSUME NEW D \in Files, NEW S \in SUBSET Resource
  PROVE  Recovers(D, S) \in Seq(Tidying(D))
<1> DEFINE g == [r \in S |-> Recover(D, r)]
<1>1. IsFiniteSet(S)
  BY FiniteResources
<1>2. g \in [S -> Seq(Tidying(D))]
  BY RecoverOps
<1>3. Recovers(D, S) = InTurn(S, g)
  BY <1>1, OrderOf DEF Recovers, InTurn
<1> HIDE DEF g
<1>4. QED
  BY <1>1, <1>2, <1>3, InTurnRange

(* Tidying and writing some files leaves the other manifests and events.     *)
LEMMA OthersStay ==
  ASSUME NEW D \in Files, NEW W \in SUBSET File,
         NEW ops \in Seq(Tidying(D) \cup {Write(f) : f \in W}),
         NEW f \in File \ W, \E r \in Resource : f = Manifest(r) \/ f = Event(r)
  PROVE  Run(D, ops)[f] = D[f]
<1> DEFINE T == Tidying(D) \cup {Write(g) : g \in W}
<1>1. T \subseteq Op
  BY WriteIs DEF Tidying
<1>2. ASSUME NEW op \in T
      PROVE  f \notin op.files
  <2>1. CASE op \in Tidying(D)
    BY <2>1 DEF Tidying
  <2>2. CASE op \in {Write(g) : g \in W}
    BY <2>2, WriteIs
  <2>3. QED
    BY <1>2, <2>1, <2>2
<1> HIDE DEF T
<1>3. ops \in Seq(T)
  BY DEF T
<1>4. ops \in Seq(Op) /\ Range(ops) \subseteq T
  BY <1>1, <1>3, RangeOfSeq
<1>5. QED
  BY <1>2, <1>4, Untouched

LEMMA TidyGentle ==
  ASSUME NEW D \in Files, NEW W \in SUBSET File,
         NEW ops \in Seq(Tidying(D) \cup {Write(f) : f \in W})
  PROVE  ops \in Seq(MildOps(D)) /\ Gentle(D, ops)
<1>1. Tidying(D) \cup {Write(f) : f \in W} \subseteq MildOps(D)
  BY DEF MildOps
<1>2. ops \in Seq(MildOps(D))
  BY <1>1
<1>3. QED
  BY <1>2, MildGentle

LEMMA TidyOnly ==
  ASSUME NEW D \in Files, NEW ops \in Seq(Tidying(D))
  PROVE  /\ Gentle(D, ops)
         /\ \A r \in Resource : /\ Run(D, ops)[Manifest(r)] = D[Manifest(r)]
                                /\ Run(D, ops)[Event(r)] = D[Event(r)]
<1>1. Tidying(D) \cup {Write(f) : f \in {}} = Tidying(D)
  OBVIOUS
<1>2. {} \in SUBSET File
  OBVIOUS
<1>3. ops \in Seq(Tidying(D) \cup {Write(f) : f \in {}})
  BY <1>1
<1>4. Gentle(D, ops)
  BY <1>2, <1>3, TidyGentle
<1>5. ASSUME NEW f \in File, \E r \in Resource : f = Manifest(r) \/ f = Event(r)
      PROVE  Run(D, ops)[f] = D[f]
  <2>1. f \in File \ {}
    OBVIOUS
  <2>2. QED
    BY <1>2, <1>3, <1>5, <2>1, OthersStay
<1>6. QED
  BY <1>4, <1>5, FileKinds

LEMMA NoOps ==
  ASSUME NEW D \in Files
  PROVE  Gentle(D, <<>>) /\ Run(D, <<>>) = D
<1>1. <<>> \in Seq(Tidying(D)) /\ <<>> \in Seq(Op) /\ Range(<<>>) = {}
  BY Empty
<1>2. Gentle(D, <<>>)
  BY <1>1, TidyOnly
<1>3. Run(D, <<>>) \in Files /\ \A f \in File : Run(D, <<>>)[f] = D[f]
  BY <1>1, RunValue, ZenonT(40)
<1>4. Run(D, <<>>) = D
  BY <1>3 DEF Files
<1>5. QED
  BY <1>2, <1>4

LEMMA TwoRuns ==
  ASSUME NEW D \in Files, NEW a \in Seq(Op), NEW b \in Seq(Op)
  PROVE  a \o b \in Seq(Op) /\ Run(D, a \o b) = Run(Run(D, a), b)
<1>1. a \o b \in Seq(Op)
  BY Concat
<1>2. QED
  BY <1>1, RunConcat

LEMMA BeginDoes ==
  ASSUME NEW D \in Files, NEW r \in Resource
  PROVE  /\ Gentle(D, Begin(D, r))
         /\ Known(Run(D, Begin(D, r)), r)
         /\ \A s \in Resource : s # r =>
              Run(D, Begin(D, r))[Manifest(s)] = D[Manifest(s)]
         /\ \A s \in Resource : Run(D, Begin(D, r))[Event(s)] = D[Event(s)]
<1> DEFINE W == {Manifest(r)}
<1>1. W \in SUBSET File /\ Manifest(r) \in File
  BY FileKinds
<1>2. {Write(f) : f \in W} = {Write(Manifest(r))}
  OBVIOUS
<1>3. Begin(D, r) \in Seq(Tidying(D) \cup {Write(f) : f \in W})
  BY <1>2, BeginOps
<1>4. \A s \in Resource : /\ s # r => Manifest(s) \in File \ W
                          /\ Event(s) \in File \ W
  BY FileKinds
<1> HIDE DEF W
<1>5. Gentle(D, Begin(D, r)) /\ Begin(D, r) \in Seq(MildOps(D))
  BY <1>1, <1>3, TidyGentle
<1>6. Known(D, r) \/ Write(Manifest(r)) \in Range(Begin(D, r))
  BY BeginOps
<1>7. Run(D, Begin(D, r))[Manifest(r)] = "good"
  BY <1>1, <1>5, <1>6, Written DEF Known
<1>8. ASSUME NEW f \in File \ W, \E s \in Resource : f = Manifest(s) \/ f = Event(s)
      PROVE  Run(D, Begin(D, r))[f] = D[f]
  BY <1>1, <1>3, <1>8, OthersStay
<1>9. QED
  BY <1>4, <1>5, <1>7, <1>8 DEF Known

LEMMA BeginsDo ==
  ASSUME NEW D \in Files, NEW S \in SUBSET Resource
  PROVE  /\ Gentle(D, Begins(D, S))
         /\ \A r \in S : Known(Run(D, Begins(D, S)), r)
         /\ \A r \in Resource \ S :
              Run(D, Begins(D, S))[Manifest(r)] = D[Manifest(r)]
         /\ \A r \in Resource : Run(D, Begins(D, S))[Event(r)] = D[Event(r)]
<1> DEFINE W == {Manifest(r) : r \in S}
           ops == Begins(D, S)
<1>1. W \in SUBSET File /\ \A r \in Resource : Manifest(r) \in File
  BY FileKinds
<1>2. {Write(f) : f \in W} = {Write(Manifest(r)) : r \in S}
  OBVIOUS
<1>3. /\ ops \in Seq(Tidying(D) \cup {Write(f) : f \in W})
      /\ \A r \in S : Known(D, r) \/ Write(Manifest(r)) \in Range(ops)
  BY <1>2, BeginsOps
<1>4. /\ \A r \in Resource \ S : Manifest(r) \in File \ W
      /\ \A r \in Resource : Event(r) \in File \ W
  BY FileKinds
<1> HIDE DEF W, ops
<1>5. Gentle(D, ops) /\ ops \in Seq(MildOps(D))
  BY <1>1, <1>3, TidyGentle
<1>6. ASSUME NEW r \in S
      PROVE  Known(Run(D, ops), r)
  <2>1. r \in Resource /\ Manifest(r) \in File
    BY <1>1
  <2>2. D[Manifest(r)] = "good" \/ Write(Manifest(r)) \in Range(ops)
    BY <1>3 DEF Known
  <2>3. QED
    BY <1>5, <2>1, <2>2, Written DEF Known
<1>7. ASSUME NEW f \in File \ W, \E s \in Resource : f = Manifest(s) \/ f = Event(s)
      PROVE  Run(D, ops)[f] = D[f]
  BY <1>1, <1>3, <1>7, OthersStay
<1>8. QED
  BY <1>4, <1>5, <1>6, <1>7 DEF ops

LEMMA RecordsDo ==
  ASSUME NEW D \in Files, NEW S \in SUBSET Resource
  PROVE  /\ Gentle(D, Records(D, S))
         /\ \A r \in S : Known(Run(D, Records(D, S)), r)
         /\ \A r \in Resource \ S :
              Run(D, Records(D, S))[Manifest(r)] = D[Manifest(r)]
<1> DEFINE W == {Manifest(r) : r \in S} \cup {Event(r) : r \in S}
           ops == Records(D, S)
<1>1. W \in SUBSET File /\ \A r \in Resource : Manifest(r) \in File
  BY FileKinds
<1>2. {Write(f) : f \in W} = {Write(Manifest(r)) : r \in S} \cup {Write(Event(r)) : r \in S}
  OBVIOUS
<1>3. Tidying(D) \cup {Write(f) : f \in W}
        = Tidying(D) \cup {Write(Manifest(r)) : r \in S} \cup {Write(Event(r)) : r \in S}
  BY <1>2
<1>4. /\ ops \in Seq(Tidying(D) \cup {Write(f) : f \in W})
      /\ \A r \in S : Known(D, r) \/ Write(Manifest(r)) \in Range(ops)
  <2> HIDE DEF W
  <2>1. QED
    BY <1>3, RecordsOps
<1>5. \A r \in Resource \ S : Manifest(r) \in File \ W
  BY FileKinds
<1> HIDE DEF W, ops
<1>6. Gentle(D, ops) /\ ops \in Seq(MildOps(D))
  BY <1>1, <1>4, TidyGentle
<1>7. ASSUME NEW r \in S
      PROVE  Known(Run(D, ops), r)
  <2>1. r \in Resource /\ Manifest(r) \in File
    BY <1>1
  <2>2. D[Manifest(r)] = "good" \/ Write(Manifest(r)) \in Range(ops)
    BY <1>4 DEF Known
  <2>3. QED
    BY <1>6, <2>1, <2>2, Written DEF Known
<1>8. ASSUME NEW f \in File \ W, \E s \in Resource : f = Manifest(s) \/ f = Event(s)
      PROVE  Run(D, ops)[f] = D[f]
  BY <1>1, <1>4, <1>8, OthersStay
<1>9. QED
  BY <1>5, <1>6, <1>7, <1>8 DEF ops

LEMMA WritesDo ==
  ASSUME NEW D \in Files, NEW W \in SUBSET File,
         NEW ops \in Seq({Write(f) : f \in W})
  PROVE  /\ Gentle(D, ops)
         /\ \A f \in File \ W, r \in Resource :
              f = Manifest(r) \/ f = Event(r) => Run(D, ops)[f] = D[f]
<1>1. ops \in Seq(Tidying(D) \cup {Write(f) : f \in W})
  OBVIOUS
<1>2. QED
  BY <1>1, TidyGentle, OthersStay

LEMMA FinalizeDoes ==
  ASSUME NEW D \in Files, NEW r \in Resource
  PROVE  /\ Gentle(D, Finalize(D, r))
         /\ Complete(Run(D, Finalize(D, r)), r)
         /\ \A s \in Resource :
              Run(D, Finalize(D, r))[Manifest(s)] = D[Manifest(s)]
<1> DEFINE first == IF Complete(D, r) THEN <<>> ELSE <<Write(Object(r))>>
           X == Run(D, first)
           rest == <<Delete(ChunkFiles(r))>>
<1>1. /\ Object(r) \in File /\ ChunkFiles(r) \subseteq File
      /\ \A s \in Resource : /\ Manifest(s) # Object(r) /\ Event(s) # Object(r)
                             /\ Manifest(s) \notin ChunkFiles(r)
                             /\ Event(s) \notin ChunkFiles(r)
                             /\ Manifest(s) \in File
  BY FileKinds
<1>2. first \in Seq({Write(f) : f \in {Object(r)}})
  <2>1. Write(Object(r)) \in {Write(f) : f \in {Object(r)}}
    OBVIOUS
  <2>2. QED
    BY <2>1, Singleton, Empty
<1>3. /\ Gentle(D, first)
      /\ \A s \in Resource : X[Manifest(s)] = D[Manifest(s)]
  <2> HIDE DEF first
  <2>1. {Object(r)} \in SUBSET File
    BY <1>1
  <2>2. QED
    BY <1>1, <1>2, <2>1, WritesDo
<1>4. X \in Files /\ first \in Seq(Op)
  BY <1>3 DEF Gentle, Keeps
<1>5. Complete(X, r)
  <2>1. CASE Complete(D, r)
    <3>1. Keeps(D, X)
      BY <1>3 DEF Gentle
    <3> HIDE DEF X
    <3>2. QED
      BY <2>1, <3>1, KeepsWhat
  <2>2. CASE ~Complete(D, r)
    <3>1. first = <<Write(Object(r))>>
      BY <2>2
    <3>2. Range(first) = {Write(Object(r))}
      BY <3>1, Singleton
    <3> HIDE DEF first
    <3>3. \/ /\ X[Object(r)] = D[Object(r)]
             /\ \A op \in Range(first) : Object(r) \notin op.files
          \/ \E op \in Range(first) : Object(r) \in op.files /\ X[Object(r)] = op.to
      BY <1>1, <1>4, RunValue
    <3>4. QED
      BY <1>1, <3>2, <3>3, WriteIs DEF Complete, Verified
  <2>3. QED
    BY <2>1, <2>2
<1> HIDE DEF X
<1>6. rest \in Seq(Tidying(X))
  <2>1. Delete(ChunkFiles(r)) \in Tidying(X)
    BY <1>1, <1>5 DEF Delete, Op, Tidying
  <2>2. QED
    BY <2>1, Singleton
<1> HIDE DEF rest
<1>7. /\ Gentle(X, rest)
      /\ \A s \in Resource : Run(X, rest)[Manifest(s)] = X[Manifest(s)]
  BY <1>4, <1>6, TidyOnly
<1>8. Finalize(D, r) = first \o rest
  BY DEF Finalize, rest
<1> HIDE DEF first
<1>9. /\ Gentle(D, Finalize(D, r))
      /\ Run(D, Finalize(D, r)) = Run(X, rest)
  BY <1>3, <1>7, <1>8, GentleConcat DEF X
<1>10. Complete(Run(X, rest), r)
  BY <1>4, <1>5, <1>7, KeepsWhat DEF Gentle
<1>11. QED
  BY <1>3, <1>7, <1>9, <1>10

(* A chunk that arrives and is good: what is resumed, taken and finished.    *)
Finishes(D, r) == IF Missing(D, r) = {} THEN Finalize(D, r) ELSE <<>>

Taken(D, r, i) ==
  LET D1 == Run(D, Recover(D, r)) IN Run(D1, Accept(D1, r, i))
Takes(D, r, i) ==
  Recover(D, r) \o Accept(Run(D, Recover(D, r)), r, i) \o Finishes(Taken(D, r, i), r)

LEMMA ChunkDoes ==
  ASSUME NEW D \in Files, NEW r \in Resource, NEW i \in Chunk
  PROVE  /\ Gentle(D, Takes(D, r, i))
         /\ Run(D, Takes(D, r, i)) = Run(Taken(D, r, i), Finishes(Taken(D, r, i), r))
         /\ \A s \in Resource : Run(D, Takes(D, r, i))[Manifest(s)] = D[Manifest(s)]
<1> DEFINE a == Recover(D, r)
           D1 == Run(D, a)
           b == Accept(D1, r, i)
           D2 == Run(D1, b)
           c == Finishes(D2, r)
<1>1. /\ ChunkFiles(r) \subseteq File
      /\ \A s \in Resource : Manifest(s) \in File /\ Manifest(s) \notin ChunkFiles(r)
  BY FileKinds
<1>2. Gentle(D, a) /\ \A s \in Resource : D1[Manifest(s)] = D[Manifest(s)]
  BY RecoverOps, TidyOnly
<1>3. D1 \in Files
  BY <1>2 DEF Gentle, Keeps
<1> HIDE DEF D1
<1>4. Gentle(D1, b) /\ \A s \in Resource : D2[Manifest(s)] = D1[Manifest(s)]
  <2>1. b \in Seq({Write(f) : f \in ChunkFiles(r)}) /\ ChunkFiles(r) \in SUBSET File
    BY <1>1, AcceptOps
  <2> HIDE DEF b
  <2>2. /\ Gentle(D1, b)
        /\ \A f \in File \ ChunkFiles(r), s \in Resource :
             f = Manifest(s) \/ f = Event(s) => Run(D1, b)[f] = D1[f]
    BY <1>3, <2>1, WritesDo
  <2>3. \A s \in Resource : Manifest(s) \in File \ ChunkFiles(r)
    BY <1>1
  <2>4. QED
    BY <2>2, <2>3 DEF b
<1>5. D2 \in Files
  BY <1>4 DEF Gentle, Keeps
<1> HIDE DEF D2
<1>6. Gentle(D2, c) /\ \A s \in Resource : Run(D2, c)[Manifest(s)] = D2[Manifest(s)]
  <2>1. CASE Missing(D2, r) = {}
    BY <1>5, <2>1, FinalizeDoes DEF Finishes
  <2>2. CASE Missing(D2, r) # {}
    <3>1. c = <<>>
      BY <2>2 DEF Finishes
    <3>2. QED
      BY <1>5, <3>1, NoOps
  <2>3. QED
    BY <2>1, <2>2
<1> HIDE DEF a, b, c
<1>7. Gentle(D, a \o b) /\ Run(D, a \o b) = D2
  BY <1>2, <1>4, GentleConcat DEF D1, D2
<1>8. Gentle(D, (a \o b) \o c) /\ Run(D, (a \o b) \o c) = Run(D2, c)
  BY <1>6, <1>7, GentleConcat
<1>9. Taken(D, r, i) = D2 /\ Takes(D, r, i) = (a \o b) \o c
  BY DEF Taken, Takes, a, D1, b, D2, c
<1>10. QED
  BY <1>2, <1>4, <1>6, <1>8, <1>9 DEF c

(* Leaving: an object that stays has a manifest that refers to it.           *)
Leaves(D, S) ==
  Cancels(S) \o Cleanup(Run(D, Cancels(S))) \o <<Transaction({Event(r) : r \in Resource})>>

LEMMA LeavesDo ==
  ASSUME NEW D \in Files, NEW S \in SUBSET Resource
  PROVE  /\ Leaves(D, S) \in Seq(Op)
         /\ Run(D, Leaves(D, S)) \in Files
         /\ \A r \in Resource : Run(D, Leaves(D, S))[Object(r)] # "none" =>
              \E s \in Resource : Object(s) = Object(r) /\ Known(Run(D, Leaves(D, S)), s)
<1> DEFINE cancels == Cancels(S)
           D1 == Run(D, cancels)
           kept == {r \in Resource : Known(D1, r)}
           orphans == {Object(r) : r \in Resource} \ {Object(r) : r \in kept}
           recovers == Recovers(D1, kept)
           D2 == Run(D1, recovers)
           removes == <<Delete(orphans)>>
           D3 == Run(D2, removes)
           empties == <<Transaction({Event(r) : r \in Resource})>>
           X == Run(D3, empties)
<1>1. /\ \A r \in Resource : Object(r) \in File /\ Manifest(r) \in File /\ Event(r) \in File
      /\ \A r, s \in Resource : /\ Manifest(r) # Object(s) /\ Manifest(r) # Event(s)
                                /\ Event(r) # Object(s)
  BY FileKinds
<1>2. cancels \in Seq(Op)
  BY CancelsOps
<1> HIDE DEF cancels
<1>3. D1 \in Files
  BY <1>2, RunValue
<1> HIDE DEF D1
<1>4. recovers \in Seq(Tidying(D1))
  BY <1>3, RecoversOps
<1>5. recovers \in Seq(Op)
  BY <1>4 DEF Tidying
<1> HIDE DEF recovers
<1>6. /\ D2 \in Files
      /\ \A r \in Resource : D2[Manifest(r)] = D1[Manifest(r)]
  BY <1>3, <1>4, TidyOnly DEF Gentle, Keeps
<1> HIDE DEF D2
<1>7. /\ Delete(orphans) \in Op /\ Delete(orphans).files = orphans
      /\ Delete(orphans).to = "none"
  BY <1>1 DEF Delete, Op
<1>8. removes \in Seq(Op) /\ Range(removes) = {Delete(orphans)}
  BY <1>7, Singleton
<1>9. /\ D3 \in Files
      /\ \A f \in File : D3[f] = IF f \in orphans THEN "none" ELSE D2[f]
  <2> HIDE DEF removes, orphans
  <2>1. QED
    BY <1>6, <1>7, <1>8, RunValue
<1> HIDE DEF removes, D3
<1>10. /\ Transaction({Event(r) : r \in Resource}) \in Op
       /\ Transaction({Event(r) : r \in Resource}).files = {Event(r) : r \in Resource}
  BY <1>1 DEF Transaction, Op
<1>11. /\ empties \in Seq(Op)
       /\ Range(empties) = {Transaction({Event(r) : r \in Resource})}
  BY <1>10, Singleton
<1>12. /\ X \in Files
       /\ \A r \in Resource : X[Object(r)] = D3[Object(r)] /\ X[Manifest(r)] = D3[Manifest(r)]
  <2> HIDE DEF empties
  <2>1. \A f \in File : (\A r \in Resource : f # Event(r)) => X[f] = D3[f]
    BY <1>9, <1>10, <1>11, RunValue
  <2>2. X \in Files
    BY <1>9, <1>11, RunValue
  <2>3. QED
    BY <1>1, <2>1, <2>2
<1> HIDE DEF empties, X
<1>13. ASSUME NEW r \in Resource, X[Object(r)] # "none"
       PROVE  \E s \in Resource : Object(s) = Object(r) /\ Known(X, s)
  <2>1. Object(r) \notin orphans
    BY <1>1, <1>9, <1>12, <1>13
  <2>2. PICK s \in kept : Object(s) = Object(r)
    BY <2>1
  <2>3. s \in Resource /\ D1[Manifest(s)] = "good"
    BY <2>2 DEF Known
  <2>4. Manifest(s) \notin orphans
    BY <1>1, <2>3
  <2>5. X[Manifest(s)] = "good"
    BY <1>1, <1>6, <1>9, <1>12, <2>3, <2>4
  <2>6. QED
    BY <2>2, <2>3, <2>5 DEF Known
<1>14. Cleanup(D1) = recovers \o removes
  BY DEF Cleanup, recovers, removes, Recovers
<1>15. /\ Leaves(D, S) \in Seq(Op)
       /\ Run(D, Leaves(D, S)) = X
  <2>1. recovers \o removes \in Seq(Op) /\ Run(D1, recovers \o removes) = D3
    BY <1>3, <1>5, <1>8, TwoRuns DEF D2, D3
  <2>2. /\ cancels \o (recovers \o removes) \in Seq(Op)
        /\ Run(D, cancels \o (recovers \o removes)) = D3
    BY <1>2, <2>1, TwoRuns DEF D1
  <2>3. Leaves(D, S) = (cancels \o (recovers \o removes)) \o empties
    BY <1>14 DEF Leaves, cancels, D1, empties
  <2>4. empties \in Seq(Op) /\ D \in Files
    BY <1>11
  <2>5. /\ (cancels \o (recovers \o removes)) \o empties \in Seq(Op)
        /\ Run(D, (cancels \o (recovers \o removes)) \o empties) = Run(D3, empties)
    BY <2>2, <2>4, TwoRuns
  <2>6. QED
    BY <2>3, <2>5 DEF X
<1>16. QED
  BY <1>12, <1>13, <1>15

-----------------------------------------------------------------------------
(* The invariant                                                             *)

(* Frames whose bytes are good.                                              *)
GoodFrame == {m \in Frame : m.type = "chunk" => m.bytes = "good"}

Wires == [Device -> [Device -> Seq(GoodFrame)]]

(* Who has left shows nothing and keeps no object without a manifest, also   *)
(* while the process is dead.                                                *)
LeftClean ==
  \A d \in Device : ~row[d].member =>
    /\ \A r \in Resource : row[d].status[r] = "none"
    /\ \A r \in Resource : disk[d][Object(r)] # "none" =>
         \E s \in Resource : Object(s) = Object(r) /\ Known(disk[d], s)

(* Connections are between members whose processes run.                      *)
UpRuns == \A d, e \in Device : <<d, e>> \in up => Runs(d) /\ Runs(e)

DiskInv ==
  /\ TypeOK
  /\ wire \in Wires
  /\ AvailableIsWhole
  /\ LeftClean
  /\ UpRuns

(* A device has a new disk and new statuses that fit together.               *)
LEMMA Acts ==
  ASSUME DiskInv, NEW d \in Device, NEW X \in Files, NEW st \in [Resource -> Status],
         disk' = [disk EXCEPT ![d] = X],
         row' = [row EXCEPT ![d].status = st],
         wire' \in Wires, faults' \in Nat, damaged' = damaged,
         registered' \subseteq Resource,
         alive' = alive \/ alive' = alive \cup {d},
         up' \subseteq Device \X Device,
         \A e, f \in Device : <<e, f>> \in up' => <<e, f>> \in up \/ (Runs(e) /\ Runs(f)),
         row[d].member \/ (X = disk[d] /\ st = row[d].status),
         \A r \in Resource : st[r] = "available" /\ <<d, Object(r)>> \notin damaged =>
           Known(X, r) /\ Complete(X, r)
  PROVE  DiskInv'
<1>1. TypeOK /\ AvailableIsWhole /\ LeftClean /\ UpRuns
  BY DEF DiskInv
<1>2. \A e \in Device : /\ row[e] \in Row /\ row[e].status \in [Resource -> Status]
                        /\ row[e].member \in BOOLEAN /\ disk[e] \in Files
  BY <1>1 DEF TypeOK, Row
<1>3. /\ row' \in [Device -> Row]
      /\ row'[d].status = st
      /\ \A e \in Device : row'[e].member = row[e].member
      /\ \A e \in Device : e # d => row'[e] = row[e]
  <2>1. row \in [Device -> Row]
    BY <1>1 DEF TypeOK
  <2>2. [row[d] EXCEPT !.status = st] \in Row
    BY <1>2 DEF Row
  <2>3. row' = [row EXCEPT ![d] = [row[d] EXCEPT !.status = st]]
    OBVIOUS
  <2>4. [row[d] EXCEPT !.status = st].member = row[d].member
        /\ [row[d] EXCEPT !.status = st].status = st
    BY <1>2 DEF Row
  <2>5. QED
    BY <2>1, <2>2, <2>3, <2>4
<1>4. /\ disk' \in [Device -> Files]
      /\ disk'[d] = X
      /\ \A e \in Device : e # d => disk'[e] = disk[e]
  BY <1>1 DEF TypeOK
<1>5. TypeOK'
  <2>1. wire' \in [Device -> [Device -> Seq(Frame)]]
    <3>1. GoodFrame \subseteq Frame
      BY DEF GoodFrame
    <3> HIDE DEF GoodFrame, Frame
    <3>2. Seq(GoodFrame) \subseteq Seq(Frame)
      BY <3>1
    <3>3. QED
      BY <3>2 DEF Wires
  <2>2. QED
    BY <1>1, <1>3, <1>4, <2>1 DEF TypeOK
<1>6. AvailableIsWhole'
  <2>1. ASSUME NEW e \in alive', NEW r \in Resource,
               row'[e].status[r] = "available", <<e, Object(r)>> \notin damaged
        PROVE  Known(disk'[e], r) /\ Complete(disk'[e], r)
    <3>1. CASE e = d
      BY <1>3, <1>4, <2>1, <3>1
    <3>2. CASE e # d
      <4>1. e \in alive /\ e \in Device
        BY <1>1, <2>1, <3>2 DEF TypeOK
      <4>2. QED
        BY <1>1, <1>3, <1>4, <2>1, <3>2, <4>1 DEF AvailableIsWhole
    <3>3. QED
      BY <3>1, <3>2
  <2>2. QED
    BY <2>1 DEF AvailableIsWhole, Known, Complete, Verified
<1>7. LeftClean'
  <2>1. \A e \in Device : ~row[e].member =>
           row'[e].status = row[e].status /\ disk'[e] = disk[e]
    BY <1>3, <1>4
  <2>2. ASSUME NEW e \in Device, ~row'[e].member
        PROVE  /\ \A r \in Resource : row'[e].status[r] = "none"
               /\ \A r \in Resource : disk'[e][Object(r)] # "none" =>
                    \E s \in Resource : Object(s) = Object(r) /\ Known(disk'[e], s)
    BY <1>1, <1>3, <2>1, <2>2 DEF LeftClean
  <2>3. QED
    BY <2>2 DEF LeftClean, Known
<1>8. UpRuns'
  <2>1. \A e \in Device : Runs(e) => Runs(e)'
    BY <1>3 DEF Runs
  <2>2. QED
    BY <1>1, <2>1 DEF UpRuns
<1>9. QED
  BY <1>5, <1>6, <1>7, <1>8 DEF DiskInv

(* The process of a device dies.                                             *)
LEMMA DiesInv ==
  ASSUME DiskInv, NEW d \in Device, NEW ops, Dies(d, ops),
         \A X \in Remains(disk[d], ops) : X \in Files,
         row[d].member \/ Remains(disk[d], ops) = {disk[d]},
         registered' \subseteq Resource, damaged' = damaged
  PROVE  DiskInv'
<1>1. TypeOK /\ AvailableIsWhole /\ LeftClean /\ UpRuns /\ wire \in Wires
  BY DEF DiskInv
<1>2. PICK X \in Remains(disk[d], ops) : disk' = [disk EXCEPT ![d] = X]
  BY DEF Dies
<1>3. /\ alive' = alive \ {d} /\ row' = row /\ faults' \in Nat
      /\ up' = up \ Touching(d)
      /\ wire' = [e \in Device |-> [f \in Device |->
                    IF <<e, f>> \in Touching(d) THEN <<>> ELSE wire[e][f]]]
  BY <1>1 DEF Dies, Broken, Fault, TypeOK
<1>4. /\ disk' \in [Device -> Files] /\ disk'[d] = X
      /\ \A e \in Device : e # d => disk'[e] = disk[e]
  BY <1>1, <1>2 DEF TypeOK
<1>5. wire' \in Wires
  <2>1. \A e, f \in Device : wire[e][f] \in Seq(GoodFrame)
    BY <1>1 DEF Wires
  <2>2. <<>> \in Seq(GoodFrame)
    BY Empty
  <2>3. QED
    BY <1>3, <2>1, <2>2 DEF Wires
<1>6. TypeOK'
  <2>1. wire' \in [Device -> [Device -> Seq(Frame)]]
    <3>1. GoodFrame \subseteq Frame
      BY DEF GoodFrame
    <3>2. Seq(GoodFrame) \subseteq Seq(Frame)
      BY <3>1
    <3>3. QED
      BY <1>5, <3>2 DEF Wires
  <2>2. QED
    BY <1>1, <1>3, <1>4, <2>1 DEF TypeOK
<1>7. AvailableIsWhole'
  <2>1. \A e \in alive' : e \in alive /\ e # d /\ e \in Device
    BY <1>1, <1>3 DEF TypeOK
  <2>2. \A e \in alive' : disk'[e] = disk[e]
    BY <1>4, <2>1
  <2>3. QED
    BY <1>1, <1>3, <2>1, <2>2 DEF AvailableIsWhole, Known, Complete, Verified
<1>8. LeftClean'
  <2>1. \A e \in Device : ~row[e].member => disk'[e] = disk[e]
    BY <1>2, <1>4
  <2>2. QED
    BY <1>1, <1>3, <2>1 DEF LeftClean, Known
<1>9. UpRuns'
  <2>1. ASSUME NEW e \in Device, NEW f \in Device, <<e, f>> \in up'
        PROVE  Runs(e)' /\ Runs(f)'
    <3>1. <<e, f>> \in up /\ e # d /\ f # d
      BY <1>3, <2>1 DEF Touching
    <3>2. QED
      BY <1>1, <1>3, <3>1 DEF UpRuns, Runs
  <2>2. QED
    BY <2>1 DEF UpRuns
<1>10. QED
  BY <1>5, <1>6, <1>7, <1>8, <1>9 DEF DiskInv

(* Only the disk of d changes, and keeps what is good.                       *)
Kept(d) ==
  /\ Keeps(disk[d], disk'[d])
  /\ \A e \in Device : e # d => disk'[e] = disk[e]

LEMMA ActsKept ==
  ASSUME DiskInv, NEW d \in Device, NEW X, Keeps(disk[d], X),
         disk' = [disk EXCEPT ![d] = X]
  PROVE  Kept(d)
BY DEF Kept, DiskInv, TypeOK

LEMMA DiesKept ==
  ASSUME DiskInv, NEW d \in Device, NEW ops, Dies(d, ops), Gentle(disk[d], ops)
  PROVE  Kept(d)
<1>1. PICK X \in Remains(disk[d], ops) : disk' = [disk EXCEPT ![d] = X]
  BY DEF Dies
<1>2. Keeps(disk[d], X)
  BY <1>1 DEF Gentle
<1>3. QED
  BY <1>1, <1>2, ActsKept

LEMMA KeptHas ==
  ASSUME DiskInv, NEW d \in Device, Kept(d),
         NEW e \in Device, NEW r \in Resource, NEW i \in Chunk, Has(e, r, i)
  PROVE  Has(e, r, i)'
<1>1. CASE e # d
  BY <1>1 DEF Kept, Has, Complete, Verified
<1>2. CASE e = d
  <2>1. disk[d] \in Files /\ Keeps(disk[d], disk'[d])
    BY DEF Kept, DiskInv, TypeOK
  <2>2. /\ Complete(disk[d], r) => Complete(disk'[d], r)
        /\ disk[d][ChunkFile(r, i)] = "good" =>
             disk'[d][ChunkFile(r, i)] = "good" \/ Complete(disk'[d], r)
    BY <2>1, KeepsWhat
  <2>3. QED
    BY <1>2, <2>2 DEF Has, Complete, Verified
<1>3. QED
  BY <1>1, <1>2

LEMMA HandlesInv ==
  ASSUME DiskInv, NEW d \in Device, NEW from \in Device, NEW ops, NEW st, NEW sends,
         Handles(d, from, ops, st, sends),
         Runs(d), from = d \/ wire[from][d] # <<>>,
         Gentle(disk[d], ops),
         st \in [Resource -> Status],
         sends \in [Device -> Seq(GoodFrame)],
         \A r \in Resource : st[r] = "available" /\ <<d, Object(r)>> \notin damaged =>
           Known(Run(disk[d], ops), r) /\ Complete(Run(disk[d], ops), r),
         registered' \subseteq Resource, damaged' = damaged
  PROVE  DiskInv' /\ Kept(d)
<1>1. TypeOK /\ wire \in Wires /\ row[d].member
  BY DEF DiskInv, Runs
<1>2. /\ Run(disk[d], ops) \in Files
      /\ \A X \in Remains(disk[d], ops) : X \in Files
  BY DEF Gentle, Keeps
<1>3. CASE Dies(d, ops)
  BY <1>1, <1>2, <1>3, DiesInv, DiesKept
<1>4. CASE /\ disk' = [disk EXCEPT ![d] = Run(@, ops)]
           /\ row' = [row EXCEPT ![d].status = st]
           /\ wire' = [s \in Device |->
                IF s = d THEN [e \in Device |-> wire[d][e] \o sends[e]]
                ELSE IF s = from THEN [wire[s] EXCEPT ![d] = Tail(@)]
                ELSE wire[s]]
           /\ UNCHANGED <<alive, up, faults>>
  <2>1. wire' \in Wires
    <3>1. \A e, f \in Device : wire[e] \in [Device -> Seq(GoodFrame)]
                               /\ wire[e][f] \in Seq(GoodFrame)
      BY <1>1 DEF Wires
    <3>2. [e \in Device |-> wire[d][e] \o sends[e]] \in [Device -> Seq(GoodFrame)]
      BY <3>1, Concat
    <3>3. from # d => [wire[from] EXCEPT ![d] = Tail(@)] \in [Device -> Seq(GoodFrame)]
      <4>1. from # d => Tail(wire[from][d]) \in Seq(GoodFrame)
        BY <3>1
      <4>2. QED
        BY <3>1, <4>1
    <3>4. ASSUME NEW s \in Device
          PROVE  (IF s = d THEN [e \in Device |-> wire[d][e] \o sends[e]]
                  ELSE IF s = from THEN [wire[s] EXCEPT ![d] = Tail(@)]
                  ELSE wire[s]) \in [Device -> Seq(GoodFrame)]
      BY <3>1, <3>2, <3>3
    <3>5. QED
      BY <1>4, <3>4 DEF Wires
  <2>2. /\ faults' \in Nat /\ up' = up /\ up \subseteq Device \X Device /\ alive' = alive
    BY <1>1, <1>4 DEF TypeOK
  <2>3. disk' = [disk EXCEPT ![d] = Run(disk[d], ops)]
    BY <1>4
  <2>4. \A e, f \in Device : <<e, f>> \in up' => <<e, f>> \in up \/ (Runs(e) /\ Runs(f))
    BY <2>2
  <2>5. row' = [row EXCEPT ![d].status = st]
    BY <1>4
  <2>6. QED
    <3>1. DiskInv'
      BY <1>1, <1>2, <2>1, <2>2, <2>3, <2>4, <2>5, Acts
    <3>2. Kept(d)
      BY <2>3, ActsKept DEF Gentle
    <3>3. QED
      BY <3>1, <3>2
<1>5. QED
  BY <1>3, <1>4 DEF Handles

-----------------------------------------------------------------------------
(* Frames                                                                    *)

RequestFrames(D, W) ==
  LET order == SetToSeq(W)
  IN  [k \in DOMAIN order |-> Request(order[k], Missing(D, order[k]))]
ChunkFrames(r, S, b) ==
  LET order == SetToSeq(S) IN [k \in DOMAIN order |-> ChunkFrame(r, order[k], b)]

Wanted(D, S) == {r \in S : Known(D, r) /\ Missing(D, r) # {}}

LEMMA RequestsGood ==
  ASSUME NEW D, NEW S \in SUBSET Resource
  PROVE  /\ Requests(D, S) \in Seq(GoodFrame)
         /\ \A k \in 1..Len(Requests(D, S)) : \E r \in S :
              Requests(D, S)[k] = Request(r, Missing(D, r))
<1> DEFINE W == Wanted(D, S)
           order == SetToSeq(W)
<1>1. Requests(D, S) = RequestFrames(D, W)
  BY DEF Requests, Each, RequestFrames, Wanted
<1>2. W \in SUBSET Resource /\ W \subseteq S
  BY DEF Wanted
<1>3. order \in Seq(W)
  <2> HIDE DEF W
  <2>1. QED
    BY <1>2, FiniteResources, OrderOf
<1>4. \A r \in Resource : Request(r, Missing(D, r)) \in GoodFrame
  BY DEF Request, Missing, GoodFrame, Frame
<1>5. RequestFrames(D, W) = [k \in DOMAIN order |-> Request(order[k], Missing(D, order[k]))]
  BY DEF RequestFrames
<1> HIDE DEF W, order
<1>6. DOMAIN order = 1..Len(order) /\ Len(order) \in Nat
      /\ \A k \in 1..Len(order) : order[k] \in S /\ order[k] \in Resource
  BY <1>2, <1>3
<1>7. RequestFrames(D, W) \in Seq(GoodFrame) /\ Len(RequestFrames(D, W)) = Len(order)
  BY <1>4, <1>5, <1>6
<1>8. \A k \in 1..Len(order) :
        RequestFrames(D, W)[k] = Request(order[k], Missing(D, order[k]))
  BY <1>5, <1>6
<1>9. QED
  BY <1>1, <1>6, <1>7, <1>8

LEMMA ChunksGood ==
  ASSUME NEW r \in Resource, NEW S \in SUBSET Chunk
  PROVE  /\ ChunkFrames(r, S, "good") \in Seq(GoodFrame)
         /\ \A k \in 1..Len(ChunkFrames(r, S, "good")) :
              ChunkFrames(r, S, "good")[k].type = "chunk" /\
              ChunkFrames(r, S, "good")[k].resource = r
<1> DEFINE order == SetToSeq(S)
<1>1. order \in Seq(S)
  BY FiniteChunks, OrderOf
<1>2. \A i \in S : /\ ChunkFrame(r, i, "good") \in GoodFrame
                   /\ ChunkFrame(r, i, "good").type = "chunk"
                   /\ ChunkFrame(r, i, "good").resource = r
  BY DEF ChunkFrame, GoodFrame, Frame
<1>3. ChunkFrames(r, S, "good") = [k \in DOMAIN order |-> ChunkFrame(r, order[k], "good")]
  BY DEF ChunkFrames
<1> HIDE DEF order
<1>4. DOMAIN order = 1..Len(order) /\ Len(order) \in Nat
      /\ \A k \in 1..Len(order) : order[k] \in S
  BY <1>1
<1>5. /\ ChunkFrames(r, S, "good") \in Seq(GoodFrame)
      /\ Len(ChunkFrames(r, S, "good")) = Len(order)
  BY <1>2, <1>3, <1>4
<1>6. QED
  BY <1>2, <1>3, <1>4, <1>5

LEMMA BatchGood ==
  ASSUME NEW S \in SUBSET Resource
  PROVE  <<BatchFrame(S)>> \in Seq(GoodFrame) /\ <<DigestFrame(S)>> \in Seq(GoodFrame)
<1>1. BatchFrame(S) \in GoodFrame /\ DigestFrame(S) \in GoodFrame
  BY DEF BatchFrame, DigestFrame, GoodFrame, Frame
<1>2. QED
  BY <1>1, Singleton

LEMMA SendsGood ==
  ASSUME NEW T, NEW frames \in Seq(T), NEW d, NEW e \in Device
  PROVE  /\ ToAll(d, frames) \in [Device -> Seq(T)]
         /\ To(e, frames) \in [Device -> Seq(T)]
         /\ Nothing \in [Device -> Seq(T)]
<1>1. <<>> \in Seq(T)
  BY Empty
<1>2. QED
  BY <1>1 DEF ToAll, To, Nothing

-----------------------------------------------------------------------------
(* Every step keeps the invariant                                            *)

LEMMA Typed ==
  ASSUME DiskInv, NEW d \in Device
  PROVE  /\ disk[d] \in Files /\ row[d] \in Row /\ row[d].status \in [Resource -> Status]
         /\ registered \subseteq Resource /\ faults \in Nat
         /\ up \subseteq Device \X Device /\ alive \subseteq Device
         /\ wire[d] \in [Device -> Seq(GoodFrame)]
BY DEF DiskInv, TypeOK, Row, Wires

(* What a running device shows stays on a disk that keeps what is good.      *)
LEMMA StillWhole ==
  ASSUME DiskInv, NEW d \in alive, NEW X, Keeps(disk[d], X), NEW r \in Resource,
         row[d].status[r] = "available", <<d, Object(r)>> \notin damaged
  PROVE  Known(X, r) /\ Complete(X, r)
<1>1. d \in Device
  BY DEF DiskInv, TypeOK
<1>2. disk[d] \in Files /\ Known(disk[d], r) /\ Complete(disk[d], r)
  BY <1>1, Typed DEF DiskInv, AvailableIsWhole
<1>3. QED
  BY <1>2, KeepsWhat

(* The import of a file, one operation after the other.                      *)
Imports(D, r) ==
  LET begun == Begin(D, r)
      D1 == Run(D, begun)
      accepted == Accepts(D1, r, Missing(D1, r))
  IN  begun \o accepted \o Finalize(Run(D1, accepted), r) \o <<Write(Event(r))>>

LEMMA ImportsDo ==
  ASSUME NEW D \in Files, NEW r \in Resource
  PROVE  /\ Gentle(D, Imports(D, r))
         /\ Known(Run(D, Imports(D, r)), r) /\ Complete(Run(D, Imports(D, r)), r)
         /\ \A s \in Resource : s # r =>
              Run(D, Imports(D, r))[Manifest(s)] = D[Manifest(s)]
<1> DEFINE begun == Begin(D, r)
           D1 == Run(D, begun)
           accepted == Accepts(D1, r, Missing(D1, r))
           D2 == Run(D1, accepted)
           final == Finalize(D2, r)
           D3 == Run(D2, final)
           event == <<Write(Event(r))>>
           D4 == Run(D3, event)
<1>1. /\ ChunkFiles(r) \in SUBSET File /\ {Event(r)} \in SUBSET File
      /\ \A s \in Resource : Manifest(s) \in File \ ChunkFiles(r)
                             /\ Manifest(s) \in File \ {Event(r)}
  BY FileKinds
<1>2. /\ Gentle(D, begun) /\ Known(D1, r)
      /\ \A s \in Resource : s # r => D1[Manifest(s)] = D[Manifest(s)]
  BY BeginDoes
<1>3. D1 \in Files
  BY <1>2 DEF Gentle, Keeps
<1> HIDE DEF begun, D1
<1>4. Gentle(D1, accepted) /\ \A s \in Resource : D2[Manifest(s)] = D1[Manifest(s)]
  <2>1. accepted \in Seq({Write(f) : f \in ChunkFiles(r)})
    BY AcceptsOps DEF Missing
  <2> HIDE DEF accepted
  <2>2. QED
    BY <1>1, <1>3, <2>1, WritesDo
<1>5. D2 \in Files
  BY <1>4 DEF Gentle, Keeps
<1> HIDE DEF accepted, D2
<1>6. /\ Gentle(D2, final) /\ Complete(D3, r)
      /\ \A s \in Resource : D3[Manifest(s)] = D2[Manifest(s)]
  BY <1>5, FinalizeDoes
<1>7. D3 \in Files
  BY <1>6 DEF Gentle, Keeps
<1> HIDE DEF final, D3
<1>8. Gentle(D3, event) /\ \A s \in Resource : D4[Manifest(s)] = D3[Manifest(s)]
  <2>1. event \in Seq({Write(f) : f \in {Event(r)}})
    BY Singleton
  <2> HIDE DEF event
  <2>2. QED
    BY <1>1, <1>7, <2>1, WritesDo
<1>9. Known(D4, r) /\ Complete(D4, r)
  <2>1. Known(D3, r)
    BY <1>2, <1>4, <1>6 DEF Known
  <2>2. QED
    BY <1>6, <1>7, <1>8, <2>1, KeepsWhat DEF Gentle
<1> HIDE DEF event, D4
<1>10. Gentle(D, begun \o accepted) /\ Run(D, begun \o accepted) = D2
  BY <1>2, <1>4, GentleConcat DEF D1, D2
<1>11. /\ Gentle(D, (begun \o accepted) \o final)
       /\ Run(D, (begun \o accepted) \o final) = D3
  BY <1>6, <1>10, GentleConcat DEF D3
<1>12. /\ Gentle(D, ((begun \o accepted) \o final) \o event)
       /\ Run(D, ((begun \o accepted) \o final) \o event) = D4
  BY <1>8, <1>11, GentleConcat DEF D4
<1>13. Imports(D, r) = ((begun \o accepted) \o final) \o event
  BY DEF Imports, begun, D1, accepted, D2, final, event
<1>14. QED
  BY <1>2, <1>4, <1>6, <1>8, <1>9, <1>12, <1>13

LEMMA RegisterInv ==
  ASSUME DiskInv, NEW d \in Device, NEW r \in Resource, RegisterMedia(d, r)
  PROVE  DiskInv' /\ Kept(d)
<1> DEFINE ops == Imports(disk[d], r)
           st == [row[d].status EXCEPT ![r] = "available"]
           sends == ToAll(d, <<BatchFrame({r})>>)
<1>1. Handles(d, d, ops, st, sends)
  BY DEF RegisterMedia, ForEach, Imports, Accepts
<1>2. Runs(d) /\ d \in alive /\ registered' = registered \cup {r} /\ damaged' = damaged
  BY DEF RegisterMedia, Runs
<1>3. disk[d] \in Files /\ row[d].status \in [Resource -> Status]
  BY Typed
<1>4. /\ Gentle(disk[d], ops)
      /\ Known(Run(disk[d], ops), r) /\ Complete(Run(disk[d], ops), r)
  BY <1>3, ImportsDo
<1> HIDE DEF ops
<1>5. st \in [Resource -> Status]
  BY <1>3 DEF Status
<1>6. sends \in [Device -> Seq(GoodFrame)]
  BY BatchGood, SendsGood
<1> HIDE DEF sends
<1>7. \A s \in Resource : st[s] = "available" /\ <<d, Object(s)>> \notin damaged =>
         Known(Run(disk[d], ops), s) /\ Complete(Run(disk[d], ops), s)
  BY <1>2, <1>3, <1>4, StillWhole DEF Gentle
<1>8. registered' \subseteq Resource
  BY <1>2, Typed
<1>9. QED
  BY <1>1, <1>2, <1>4, <1>5, <1>6, <1>7, <1>8, HandlesInv

LEMMA CancelOps ==
  ASSUME NEW D \in Files, NEW r \in Resource
  PROVE  /\ Cancel(r) \in Seq(Op)
         /\ Run(D, Cancel(r)) \in Files
         /\ \A X \in Remains(D, Cancel(r)) : X \in Files
         /\ ~Known(Run(D, Cancel(r)), r)
         /\ \A s \in Resource : s # r =>
              /\ Run(D, Cancel(r))[Manifest(s)] = D[Manifest(s)]
         /\ \A s \in Resource :
              /\ Run(D, Cancel(r))[Object(s)] = D[Object(s)]
<1> DEFINE op == Delete({Manifest(r)} \cup ChunkFiles(r))
<1>1. /\ op \in Op /\ op.files = {Manifest(r)} \cup ChunkFiles(r) /\ op.to = "none"
  BY FileKinds DEF Delete, Op
<1>2. Cancel(r) = <<op>>
  BY DEF Cancel
<1> HIDE DEF op
<1>3. Cancel(r) \in Seq(Op) /\ Range(Cancel(r)) = {op}
  BY <1>1, <1>2, Singleton
<1>4. Run(D, Cancel(r)) \in Files /\ \A X \in Remains(D, Cancel(r)) : X \in Files
  BY <1>3, RunValue, RemainsValue
<1>5. \A f \in File : Run(D, Cancel(r))[f] =
         IF f \in {Manifest(r)} \cup ChunkFiles(r) THEN "none" ELSE D[f]
  BY <1>1, <1>3, RunValue
<1>6. ~Known(Run(D, Cancel(r)), r)
  BY <1>5, FileKinds DEF Known
<1>7. \A s \in Resource :
        /\ Manifest(s) \in File /\ Object(s) \in File
        /\ s # r => Manifest(s) \notin {Manifest(r)} \cup ChunkFiles(r)
        /\ Object(s) \notin {Manifest(r)} \cup ChunkFiles(r)
  BY FileKinds
<1>8. QED
  BY <1>3, <1>4, <1>5, <1>6, <1>7

LEMMA CancelInv ==
  ASSUME DiskInv, NEW d \in Device, NEW r \in Resource, CancelResource(d, r)
  PROVE  DiskInv'
<1> DEFINE st == [row[d].status EXCEPT ![r] = "cancelled"]
           X == Run(disk[d], Cancel(r))
<1>1. /\ disk[d] \in Files /\ row[d].status \in [Resource -> Status]
      /\ registered \subseteq Resource /\ up \subseteq Device \X Device
  BY Typed
<1>2. Runs(d) /\ registered' = registered /\ damaged' = damaged
  BY DEF CancelResource
<1>3. X \in Files /\ \A Y \in Remains(disk[d], Cancel(r)) : Y \in Files
  BY <1>1, CancelOps
<1>4. CASE Dies(d, Cancel(r))
  BY <1>1, <1>2, <1>3, <1>4, DiesInv DEF Runs
<1>5. CASE /\ Fault
           /\ disk' = [disk EXCEPT ![d] = Run(@, Cancel(r))]
           /\ row' = [row EXCEPT ![d].status[r] = "cancelled"]
           /\ UNCHANGED <<alive, up, wire>>
  <2>1. disk' = [disk EXCEPT ![d] = X] /\ row' = [row EXCEPT ![d].status = st]
    BY <1>5
  <2>2. wire' \in Wires /\ faults' \in Nat
    BY <1>5, Typed DEF DiskInv, Fault
  <2>3. st \in [Resource -> Status]
    BY <1>1 DEF Status
  <2>4. \A s \in Resource : st[s] = "available" /\ <<d, Object(s)>> \notin damaged =>
           Known(X, s) /\ Complete(X, s)
    <3>1. ASSUME NEW s \in Resource, st[s] = "available", <<d, Object(s)>> \notin damaged
          PROVE  Known(X, s) /\ Complete(X, s)
      <4>1. s # r /\ row[d].status[s] = "available"
        BY <1>1, <3>1
      <4>2. Known(disk[d], s) /\ Complete(disk[d], s)
        BY <1>2, <3>1, <4>1 DEF DiskInv, AvailableIsWhole, Runs
      <4>3. QED
        BY <1>1, <4>1, <4>2, CancelOps DEF Known, Complete, Verified
    <3>2. QED
      BY <3>1
  <2> HIDE DEF st, X
  <2>5. up' = up /\ alive' = alive /\ row[d].member
    BY <1>2, <1>5 DEF Runs
  <2>6. QED
    BY <1>1, <1>2, <1>3, <2>1, <2>2, <2>3, <2>4, <2>5, Acts
<1>6. QED
  BY <1>4, <1>5 DEF CancelResource

LEMMA RetryInv ==
  ASSUME DiskInv, NEW d \in Device, NEW r \in Resource, RetryResource(d, r)
  PROVE  DiskInv' /\ Kept(d)
<1> DEFINE ops == Begin(disk[d], r)
           X == Run(disk[d], ops)
           st == [row[d].status EXCEPT ![r] = Settled(X, r)]
           sends == ToAll(d, Requests(X, {r}))
<1>1. /\ disk[d] \in Files /\ row[d].status \in [Resource -> Status]
      /\ registered \subseteq Resource /\ up \subseteq Device \X Device
  BY Typed
<1>2. Runs(d) /\ d \in alive /\ registered' = registered /\ damaged' = damaged
  BY DEF RetryResource, Runs
<1>3. Gentle(disk[d], ops) /\ Known(X, r)
  BY <1>1, BeginDoes
<1>4. X \in Files /\ \A Y \in Remains(disk[d], ops) : Y \in Files
  BY <1>3 DEF Gentle, Keeps
<1>5. \/ Dies(d, ops)
      \/ /\ Fault
         /\ disk' = [disk EXCEPT ![d] = X]
         /\ row' = [row EXCEPT ![d].status[r] = Settled(X, r)]
         /\ wire' = [wire EXCEPT ![d] = [e \in Device |-> @[e] \o sends[e]]]
         /\ UNCHANGED <<alive, up>>
  BY DEF RetryResource
<1> HIDE DEF ops, X
<1>6. CASE Dies(d, ops)
  BY <1>1, <1>2, <1>3, <1>4, <1>6, DiesInv, DiesKept DEF Runs
<1>7. CASE /\ Fault
           /\ disk' = [disk EXCEPT ![d] = X]
           /\ row' = [row EXCEPT ![d].status[r] = Settled(X, r)]
           /\ wire' = [wire EXCEPT ![d] = [e \in Device |-> @[e] \o sends[e]]]
           /\ UNCHANGED <<alive, up>>
  <2>1. row' = [row EXCEPT ![d].status = st]
    BY <1>7
  <2>2. faults' \in Nat
    BY <1>7, Typed DEF Fault
  <2>3. st \in [Resource -> Status]
    BY <1>1 DEF Status, Settled
  <2>4. \A s \in Resource : st[s] = "available" /\ <<d, Object(s)>> \notin damaged =>
           Known(X, s) /\ Complete(X, s)
    <3>1. ASSUME NEW s \in Resource, st[s] = "available", <<d, Object(s)>> \notin damaged
          PROVE  Known(X, s) /\ Complete(X, s)
      <4>1. CASE s = r
        BY <1>1, <1>3, <3>1, <4>1 DEF Settled
      <4>2. CASE s # r
        <5>1. Keeps(disk[d], X) /\ row[d].status[s] = "available"
          BY <1>1, <1>3, <3>1, <4>2 DEF Gentle, X
        <5>2. QED
          BY <1>2, <3>1, <5>1, StillWhole
      <4>3. QED
        BY <4>1, <4>2
    <3>2. QED
      BY <3>1
  <2>5. wire' \in Wires
    <3>1. sends \in [Device -> Seq(GoodFrame)]
      BY RequestsGood, SendsGood
    <3> HIDE DEF sends
    <3>2. [e \in Device |-> wire[d][e] \o sends[e]] \in [Device -> Seq(GoodFrame)]
      BY <3>1, Typed, Concat
    <3>3. wire' = [wire EXCEPT ![d] = [e \in Device |-> wire[d][e] \o sends[e]]]
      BY <1>7
    <3>4. QED
      BY <3>2, <3>3 DEF DiskInv, Wires
  <2>6. up' = up /\ alive' = alive /\ row[d].member
    BY <1>2, <1>7 DEF Runs
  <2> HIDE DEF st
  <2>7. QED
    <3>1. DiskInv'
      BY <1>1, <1>2, <1>4, <1>7, <2>1, <2>2, <2>3, <2>4, <2>5, <2>6, Acts
    <3>2. Kept(d)
      BY <1>3, <1>7, ActsKept DEF Gentle, X
    <3>3. QED
      BY <3>1, <3>2
<1>8. QED
  BY <1>5, <1>6, <1>7

LEMMA LeaveInv ==
  ASSUME DiskInv, NEW d \in Device, Leave(d)
  PROVE  DiskInv'
<1> DEFINE ops == Leaves(disk[d], Listed(d))
           X == Run(disk[d], ops)
<1>1. TypeOK /\ AvailableIsWhole /\ LeftClean /\ UpRuns /\ wire \in Wires
  BY DEF DiskInv
<1>2. disk[d] \in Files /\ Listed(d) \in SUBSET Resource /\ faults \in Nat
  BY Typed DEF Listed
<1>3. Runs(d) /\ registered' = registered /\ damaged' = damaged
  BY DEF Leave
<1>4. /\ ops \in Seq(Op) /\ X \in Files
      /\ \A r \in Resource : X[Object(r)] # "none" =>
           \E s \in Resource : Object(s) = Object(r) /\ Known(X, s)
  BY <1>2, LeavesDo
<1>5. \A Y \in Remains(disk[d], ops) : Y \in Files
  BY <1>2, <1>4, RemainsValue
<1>6. \/ Dies(d, ops)
      \/ /\ Fault
         /\ disk' = [disk EXCEPT ![d] = Run(@, ops)]
         /\ row' = [row EXCEPT ![d] = [Fresh EXCEPT !.member = FALSE]]
         /\ Broken(Touching(d))
         /\ UNCHANGED alive
  BY DEF Leave, ForEach, Leaves, Cancels
<1> HIDE DEF ops
<1>7. CASE Dies(d, ops)
  BY <1>1, <1>3, <1>5, <1>7, DiesInv DEF Runs, TypeOK
<1>8. CASE /\ Fault
           /\ disk' = [disk EXCEPT ![d] = Run(@, ops)]
           /\ row' = [row EXCEPT ![d] = [Fresh EXCEPT !.member = FALSE]]
           /\ Broken(Touching(d))
           /\ UNCHANGED alive
  <2> DEFINE gone == [Fresh EXCEPT !.member = FALSE]
  <2>1. /\ gone \in Row /\ ~gone.member
        /\ \A r \in Resource : gone.status[r] = "none"
    BY DEF Fresh, Row, Status
  <2> HIDE DEF gone
  <2>2. /\ disk' \in [Device -> Files] /\ disk'[d] = X
        /\ \A e \in Device : e # d => disk'[e] = disk[e]
    BY <1>1, <1>4, <1>8 DEF TypeOK
  <2>3. /\ row' \in [Device -> Row] /\ row'[d] = gone
        /\ \A e \in Device : e # d => row'[e] = row[e]
    BY <1>1, <1>8, <2>1 DEF TypeOK, gone
  <2> HIDE DEF X
  <2>4. up' = up \ Touching(d) /\ faults' \in Nat /\ alive' = alive
    BY <1>2, <1>8 DEF Fault, Broken
  <2>5. wire' \in Wires
    <3>1. \A e, f \in Device : wire[e][f] \in Seq(GoodFrame)
      BY <1>1 DEF Wires
    <3>2. <<>> \in Seq(GoodFrame)
      BY Empty
    <3>3. wire' = [e \in Device |-> [f \in Device |->
                    IF <<e, f>> \in Touching(d) THEN <<>> ELSE wire[e][f]]]
      BY <1>8 DEF Broken
    <3>4. QED
      BY <3>1, <3>2, <3>3 DEF Wires
  <2>6. TypeOK'
    <3>1. wire' \in [Device -> [Device -> Seq(Frame)]]
      <4>1. GoodFrame \subseteq Frame
        BY DEF GoodFrame
      <4>2. Seq(GoodFrame) \subseteq Seq(Frame)
        BY <4>1
      <4>3. QED
        BY <2>5, <4>2 DEF Wires
    <3>2. QED
      BY <1>1, <1>3, <2>2, <2>3, <2>4, <3>1 DEF TypeOK
  <2>7. AvailableIsWhole'
    <3>1. ASSUME NEW e \in alive', NEW r \in Resource,
                 row'[e].status[r] = "available", <<e, Object(r)>> \notin damaged
          PROVE  Known(disk'[e], r) /\ Complete(disk'[e], r)
      <4>1. e \in alive /\ e \in Device
        BY <1>1, <2>4, <3>1 DEF TypeOK
      <4>2. e # d
        BY <2>1, <2>3, <3>1
      <4>3. QED
        BY <1>1, <2>2, <2>3, <3>1, <4>1, <4>2 DEF AvailableIsWhole
    <3>2. QED
      BY <1>3, <3>1 DEF AvailableIsWhole, Known, Complete, Verified
  <2>8. LeftClean'
    <3>1. ASSUME NEW e \in Device, ~row'[e].member
          PROVE  /\ \A r \in Resource : row'[e].status[r] = "none"
                 /\ \A r \in Resource : disk'[e][Object(r)] # "none" =>
                      \E s \in Resource : Object(s) = Object(r) /\ Known(disk'[e], s)
      <4>1. CASE e = d
        BY <1>4, <2>1, <2>2, <2>3, <4>1
      <4>2. CASE e # d
        BY <1>1, <2>2, <2>3, <3>1, <4>2 DEF LeftClean
      <4>3. QED
        BY <4>1, <4>2
    <3>2. QED
      BY <3>1 DEF LeftClean, Known
  <2>9. UpRuns'
    <3>1. ASSUME NEW e \in Device, NEW f \in Device, <<e, f>> \in up'
          PROVE  Runs(e)' /\ Runs(f)'
      <4>1. <<e, f>> \in up /\ e # d /\ f # d
        BY <2>4, <3>1 DEF Touching
      <4>2. QED
        BY <1>1, <2>3, <2>4, <4>1 DEF UpRuns, Runs
    <3>2. QED
      BY <3>1 DEF UpRuns
  <2>10. QED
    BY <2>5, <2>6, <2>7, <2>8, <2>9 DEF DiskInv
<1>9. QED
  BY <1>6, <1>7, <1>8

LEMMA RejoinInv ==
  ASSUME DiskInv, NEW d \in Device, Rejoin(d)
  PROVE  DiskInv'
<1>1. TypeOK /\ AvailableIsWhole /\ LeftClean /\ UpRuns /\ wire \in Wires
  BY DEF DiskInv
<1>2. UNCHANGED <<registered, disk, alive, up, wire, damaged, faults>>
  BY DEF Rejoin
<1>3. /\ row' \in [Device -> Row]
      /\ \A e \in Device : row'[e].status = row[e].status
      /\ row'[d].member
      /\ \A e \in Device : e # d => row'[e] = row[e]
  <2>1. row \in [Device -> Row] /\ row[d] \in Row
    BY <1>1 DEF TypeOK
  <2>2. row' = [row EXCEPT ![d] = [row[d] EXCEPT !.member = TRUE]]
    BY DEF Rejoin
  <2>3. /\ [row[d] EXCEPT !.member = TRUE] \in Row
        /\ [row[d] EXCEPT !.member = TRUE].status = row[d].status
        /\ [row[d] EXCEPT !.member = TRUE].member
    BY <2>1 DEF Row
  <2>4. QED
    BY <2>1, <2>2, <2>3
<1>4. TypeOK' /\ wire' \in Wires
  BY <1>1, <1>2, <1>3 DEF TypeOK, Wires
<1>5. AvailableIsWhole'
  <2>1. alive \subseteq Device
    BY <1>1 DEF TypeOK
  <2>2. QED
    BY <1>1, <1>2, <1>3, <2>1 DEF AvailableIsWhole, Known, Complete, Verified
<1>6. LeftClean'
  <2>1. \A e \in Device : ~row'[e].member => e # d /\ ~row[e].member
    BY <1>3
  <2>2. QED
    BY <1>1, <1>2, <1>3, <2>1 DEF LeftClean, Known
<1>7. UpRuns'
  <2>1. \A e \in Device : Runs(e) => Runs(e)'
    BY <1>2, <1>3 DEF Runs
  <2>2. QED
    BY <1>1, <1>2, <2>1 DEF UpRuns
<1>8. QED
  BY <1>4, <1>5, <1>6, <1>7 DEF DiskInv

(* Statuses after asking for what is missing.                                *)
LEMMA AskedWhole ==
  ASSUME NEW D, NEW st \in [Resource -> Status], NEW S, NEW d,
         \A r \in Resource : st[r] = "available" /\ <<d, Object(r)>> \notin damaged =>
           Known(D, r) /\ Complete(D, r)
  PROVE  /\ Asked(D, st, S) \in [Resource -> Status]
         /\ \A r \in Resource :
              Asked(D, st, S)[r] = "available" /\ <<d, Object(r)>> \notin damaged =>
                Known(D, r) /\ Complete(D, r)
BY DEF Asked, Status

LEMMA AuthenticateInv ==
  ASSUME DiskInv, NEW d \in Device, NEW e \in Device, Authenticate(d, e)
  PROVE  DiskInv' /\ Kept(d)
<1> DEFINE waiting == Pending(row[d].status)
           ops == Resumes(disk[d], waiting)
           X == Run(disk[d], ops)
           st == Asked(X, row[d].status, waiting)
           frames == <<DigestFrame(Events(d))>> \o Requests(X, waiting)
<1>1. /\ disk[d] \in Files /\ row[d].status \in [Resource -> Status]
      /\ registered \subseteq Resource /\ up \subseteq Device \X Device /\ faults \in Nat
  BY Typed
<1>2. /\ Runs(d) /\ Runs(e) /\ d \in alive
      /\ registered' = registered /\ damaged' = damaged
  BY SMTT(30) DEF Authenticate, Runs
<1>3. waiting \in SUBSET Resource
  BY SMTT(30) DEF Pending
<1>4. \/ Dies(d, ops)
      \/ /\ up' = up \cup {<<d, e>>}
         /\ disk' = [disk EXCEPT ![d] = X]
         /\ row' = [row EXCEPT ![d].status = Asked(X, @, waiting)]
         /\ wire' = [wire EXCEPT ![d][e] =
                       @ \o <<DigestFrame(Events(d))>> \o Requests(X, waiting)]
         /\ UNCHANGED <<alive, faults>>
  BY DEF Authenticate, ForEach, Resumes
<1> HIDE DEF waiting
<1>5. Gentle(disk[d], ops)
  BY <1>1, <1>3, ResumesOps, TidyOnly
<1>6. X \in Files /\ Keeps(disk[d], X) /\ \A Y \in Remains(disk[d], ops) : Y \in Files
  BY <1>5 DEF Gentle, Keeps
<1> HIDE DEF ops, X
<1>7. CASE Dies(d, ops)
  BY <1>1, <1>2, <1>5, <1>6, <1>7, DiesInv, DiesKept DEF Runs
<1>8. CASE /\ up' = up \cup {<<d, e>>}
           /\ disk' = [disk EXCEPT ![d] = X]
           /\ row' = [row EXCEPT ![d].status = Asked(X, @, waiting)]
           /\ wire' = [wire EXCEPT ![d][e] =
                         @ \o <<DigestFrame(Events(d))>> \o Requests(X, waiting)]
           /\ UNCHANGED <<alive, faults>>
  <2>1. row' = [row EXCEPT ![d].status = st]
    BY <1>8
  <2>2. \A s \in Resource :
          row[d].status[s] = "available" /\ <<d, Object(s)>> \notin damaged =>
            Known(X, s) /\ Complete(X, s)
    BY <1>2, <1>6, StillWhole
  <2>3. /\ st \in [Resource -> Status]
        /\ \A s \in Resource : st[s] = "available" /\ <<d, Object(s)>> \notin damaged =>
             Known(X, s) /\ Complete(X, s)
    BY <1>1, <2>2, AskedWhole
  <2>4. wire' \in Wires
    <3>1. wire[d] \in [Device -> Seq(GoodFrame)] /\ wire[d][e] \in Seq(GoodFrame)
      BY Typed
    <3>2. <<DigestFrame(Events(d))>> \in Seq(GoodFrame)
      BY BatchGood DEF Events
    <3>3. Requests(X, waiting) \in Seq(GoodFrame)
      BY <1>3, RequestsGood
    <3> DEFINE all == wire[d][e] \o <<DigestFrame(Events(d))>> \o Requests(X, waiting)
    <3>4. all \in Seq(GoodFrame)
      BY <3>1, <3>2, <3>3, Concat
    <3>5. wire' = [wire EXCEPT ![d] = [wire[d] EXCEPT ![e] = all]]
      BY <1>8
    <3> HIDE DEF all
    <3>6. QED
      BY <3>1, <3>4, <3>5 DEF DiskInv, Wires
  <2>5. /\ up' \subseteq Device \X Device
        /\ \A f, g \in Device : <<f, g>> \in up' => <<f, g>> \in up \/ (Runs(f) /\ Runs(g))
    BY <1>1, <1>2, <1>8
  <2>6. /\ alive' = alive /\ faults' \in Nat /\ row[d].member
        /\ disk' = [disk EXCEPT ![d] = X]
    BY <1>1, <1>2, <1>8 DEF Runs
  <2> HIDE DEF st
  <2>7. QED
    <3>1. DiskInv'
      BY <1>1, <1>2, <1>6, <2>1, <2>3, <2>4, <2>5, <2>6, Acts
    <3>2. Kept(d)
      BY <1>6, <2>6, ActsKept
    <3>3. QED
      BY <3>1, <3>2
<1>9. QED
  BY <1>4, <1>7, <1>8

LEMMA DisconnectInv ==
  ASSUME DiskInv, NEW d \in Device, NEW e \in Device, Disconnect(d, e)
  PROVE  DiskInv'
<1>1. TypeOK /\ AvailableIsWhole /\ LeftClean /\ UpRuns /\ wire \in Wires
  BY DEF DiskInv
<1>2. /\ UNCHANGED <<registered, disk, row, alive, damaged>>
      /\ faults' \in Nat
      /\ up' = up \ {<<d, e>>, <<e, d>>}
  BY <1>1 DEF Disconnect, Fault, Broken, TypeOK
<1>3. wire' \in Wires
  <2>1. \A s, f \in Device : wire[s][f] \in Seq(GoodFrame)
    BY <1>1 DEF Wires
  <2>2. <<>> \in Seq(GoodFrame)
    BY Empty
  <2>3. wire' = [s \in Device |-> [f \in Device |->
                  IF <<s, f>> \in {<<d, e>>, <<e, d>>} THEN <<>> ELSE wire[s][f]]]
    BY DEF Disconnect, Broken
  <2>4. QED
    BY <2>1, <2>2, <2>3 DEF Wires
<1>4. TypeOK'
  <2>1. GoodFrame \subseteq Frame
    BY DEF GoodFrame
  <2>2. Seq(GoodFrame) \subseteq Seq(Frame)
    BY <2>1
  <2>3. wire' \in [Device -> [Device -> Seq(Frame)]]
    BY <1>3, <2>2 DEF Wires
  <2>4. QED
    BY <1>1, <1>2, <2>3 DEF TypeOK
<1>5. AvailableIsWhole' /\ LeftClean'
  BY <1>1, <1>2 DEF AvailableIsWhole, LeftClean, Known, Complete, Verified
<1>6. UpRuns'
  BY <1>1, <1>2 DEF UpRuns, Runs
<1>7. QED
  BY <1>3, <1>4, <1>5, <1>6 DEF DiskInv

LEMMA FrameFields ==
  ASSUME NEW m \in GoodFrame
  PROVE  /\ m.type = "request" => m.resource \in Resource /\ m.chunks \in SUBSET Chunk
         /\ m.type = "chunk" => /\ m.resource \in Resource /\ m.index \in Chunk
                                /\ m.bytes = "good"
         /\ m.type \in {"digest", "batch"} => m.events \in SUBSET Resource
BY DEF GoodFrame, Frame

LEMMA ArrivesTyped ==
  ASSUME DiskInv, NEW d \in Device, NEW e \in Device, NEW type, Arrives(d, e, type)
  PROVE  /\ Runs(d) /\ d \in alive /\ Head(wire[e][d]) \in GoodFrame
         /\ Head(wire[e][d]).type = type /\ wire[e][d] # <<>>
         /\ registered' \subseteq Resource /\ damaged' = damaged
<1>1. wire[e][d] \in Seq(GoodFrame) /\ wire[e][d] # <<>>
  BY Typed DEF Arrives
<1>2. Head(wire[e][d]) \in GoodFrame
  BY <1>1
<1>3. QED
  BY <1>1, <1>2, Typed DEF Arrives, DiskInv, UpRuns, Runs

LEMMA DigestInv ==
  ASSUME DiskInv, NEW d \in Device, NEW e \in Device, ReceiveDigest(d, e)
  PROVE  DiskInv' /\ Kept(d)
<1> DEFINE missing == Events(d) \ Head(wire[e][d]).events
           sends == IF missing = {} THEN Nothing ELSE To(e, <<BatchFrame(missing)>>)
<1>1. Arrives(d, e, "digest") /\ Handles(d, e, <<>>, row[d].status, sends)
  BY DEF ReceiveDigest
<1>2. /\ Runs(d) /\ d \in alive /\ wire[e][d] # <<>>
      /\ registered' \subseteq Resource /\ damaged' = damaged
  BY <1>1, ArrivesTyped
<1>3. disk[d] \in Files /\ row[d].status \in [Resource -> Status]
  BY Typed
<1>4. Gentle(disk[d], <<>>) /\ Run(disk[d], <<>>) = disk[d]
  BY <1>3, NoOps
<1>5. missing \in SUBSET Resource
  BY DEF Events
<1>6. sends \in [Device -> Seq(GoodFrame)]
  BY <1>5, BatchGood, SendsGood, ZenonT(40)
<1> HIDE DEF sends
<1>7. \A r \in Resource :
        row[d].status[r] = "available" /\ <<d, Object(r)>> \notin damaged =>
          Known(disk[d], r) /\ Complete(disk[d], r)
  BY <1>2 DEF DiskInv, AvailableIsWhole
<1>8. QED
  BY <1>1, <1>2, <1>3, <1>4, <1>6, <1>7, HandlesInv

LEMMA BatchInv ==
  ASSUME DiskInv, NEW d \in Device, NEW e \in Device, ReceiveBatch(d, e)
  PROVE  DiskInv' /\ Kept(d)
<1> DEFINE new == Head(wire[e][d]).events \ Events(d)
           begun == Records(disk[d], new)
           D1 == Run(disk[d], begun)
           statuses == [r \in Resource |->
                          IF r \in new THEN Settled(D1, r) ELSE row[d].status[r]]
           resumed == Resumes(D1, Pending(statuses))
           D2 == Run(D1, resumed)
           st == Asked(D2, statuses, Pending(statuses))
           sends == To(e, Requests(D2, Pending(statuses)))
<1>1. Arrives(d, e, "batch") /\ Handles(d, e, begun \o resumed, st, sends)
  BY ZenonT(40) DEF ReceiveBatch, ForEach, Records, Resumes
<1>2. /\ Runs(d) /\ d \in alive /\ wire[e][d] # <<>>
      /\ Head(wire[e][d]) \in GoodFrame /\ Head(wire[e][d]).type = "batch"
      /\ registered' \subseteq Resource /\ damaged' = damaged
  BY <1>1, ArrivesTyped
<1>3. disk[d] \in Files /\ row[d].status \in [Resource -> Status]
  BY Typed
<1>4. new \in SUBSET Resource
  BY <1>2, FrameFields
<1> HIDE DEF new
<1>5. Gentle(disk[d], begun) /\ \A r \in new : Known(D1, r)
  BY <1>3, <1>4, RecordsDo
<1>6. D1 \in Files /\ Keeps(disk[d], D1)
  BY <1>5 DEF Gentle, Keeps
<1> HIDE DEF begun, D1
<1>7. statuses \in [Resource -> Status] /\ Pending(statuses) \in SUBSET Resource
  BY <1>3 DEF Status, Settled, Pending
<1>8. \A r \in Resource : statuses[r] = "available" /\ <<d, Object(r)>> \notin damaged =>
         Known(D1, r) /\ Complete(D1, r)
  <2>1. ASSUME NEW r \in Resource, statuses[r] = "available", <<d, Object(r)>> \notin damaged
        PROVE  Known(D1, r) /\ Complete(D1, r)
    <3>1. CASE r \in new
      BY <1>5, <2>1, <3>1 DEF Settled
    <3>2. CASE r \notin new
      <4>1. row[d].status[r] = "available"
        BY <2>1, <3>2
      <4>2. QED
        BY <1>2, <1>6, <2>1, <4>1, StillWhole
    <3>3. QED
      BY <3>1, <3>2
  <2>2. QED
    BY <2>1
<1> HIDE DEF statuses
<1>9. Gentle(D1, resumed)
  BY <1>6, <1>7, ResumesOps, TidyOnly
<1>10. Keeps(D1, D2)
  BY <1>9 DEF Gentle
<1> HIDE DEF resumed, D2
<1>11. \A r \in Resource : statuses[r] = "available" /\ <<d, Object(r)>> \notin damaged =>
          Known(D2, r) /\ Complete(D2, r)
  BY <1>6, <1>8, <1>10, KeepsWhat
<1>12. /\ st \in [Resource -> Status]
       /\ \A r \in Resource : st[r] = "available" /\ <<d, Object(r)>> \notin damaged =>
            Known(D2, r) /\ Complete(D2, r)
  BY <1>7, <1>11, AskedWhole
<1>13. sends \in [Device -> Seq(GoodFrame)]
  BY <1>7, RequestsGood, SendsGood
<1> HIDE DEF st, sends
<1>14. Gentle(disk[d], begun \o resumed) /\ Run(disk[d], begun \o resumed) = D2
  BY <1>3, <1>5, <1>9, GentleConcat DEF D1, D2
<1>15. QED
  BY <1>1, <1>2, <1>12, <1>13, <1>14, HandlesInv, SMTT(30)

LEMMA RequestInv ==
  ASSUME DiskInv, NEW d \in Device, NEW e \in Device, ReceiveRequest(d, e)
  PROVE  DiskInv' /\ Kept(d)
<1> DEFINE frame == Head(wire[e][d])
           r == frame.resource
           ops == Resume(disk[d], r)
           D == Run(disk[d], ops)
           sends == IF Known(D, r) /\ Complete(D, r)
                    THEN To(e, ChunkFrames(r, frame.chunks, D[Object(r)]))
                    ELSE Nothing
<1>1. Arrives(d, e, "request") /\ Handles(d, e, ops, row[d].status, sends)
  BY DEF ReceiveRequest, Each, ChunkFrames
<1>2. /\ Runs(d) /\ d \in alive /\ wire[e][d] # <<>>
      /\ frame \in GoodFrame /\ frame.type = "request"
      /\ registered' \subseteq Resource /\ damaged' = damaged
  BY <1>1, ArrivesTyped
<1>3. disk[d] \in Files /\ row[d].status \in [Resource -> Status]
  BY Typed
<1>4. r \in Resource /\ frame.chunks \in SUBSET Chunk
  BY <1>2, FrameFields
<1> HIDE DEF frame
<1>5. Gentle(disk[d], ops)
  BY <1>3, <1>4, ResumeOps, TidyOnly
<1> HIDE DEF ops, r
<1>6. sends \in [Device -> Seq(GoodFrame)]
  <2>1. CASE Known(D, r) /\ Complete(D, r)
    <3>1. D[Object(r)] = "good"
      BY <2>1 DEF Complete, Verified
    <3> HIDE DEF D
    <3>2. ChunkFrames(r, frame.chunks, D[Object(r)]) \in Seq(GoodFrame)
      BY <1>4, <3>1, ChunksGood
    <3>3. QED
      BY <2>1, <3>2, SendsGood
  <2>2. CASE ~(Known(D, r) /\ Complete(D, r))
    <3>1. Nothing \in [Device -> Seq(GoodFrame)]
      BY Empty DEF Nothing
    <3>2. QED
      BY <2>2, <3>1
  <2>3. QED
    BY <2>1, <2>2
<1> HIDE DEF sends
<1>7. \A s \in Resource :
        row[d].status[s] = "available" /\ <<d, Object(s)>> \notin damaged =>
          Known(D, s) /\ Complete(D, s)
  BY <1>2, <1>5, StillWhole DEF Gentle
<1>8. QED
  BY <1>1, <1>2, <1>3, <1>5, <1>6, <1>7, HandlesInv

LEMMA ChunkInv ==
  ASSUME DiskInv, NEW d \in Device, NEW e \in Device, ReceiveChunk(d, e)
  PROVE  DiskInv' /\ Kept(d)
<1> DEFINE frame == Head(wire[e][d])
           r == frame.resource
<1>1. /\ Arrives(d, e, "chunk")
      /\ \/ Known(disk[d], r) /\ TakeChunk(d, e, r, frame.index, frame.bytes)
         \/ Handles(d, e, <<>>, row[d].status, Nothing)
  BY DEF ReceiveChunk
<1>2. /\ Runs(d) /\ d \in alive /\ wire[e][d] # <<>>
      /\ frame \in GoodFrame /\ frame.type = "chunk"
      /\ registered' \subseteq Resource /\ damaged' = damaged
  BY <1>1, ArrivesTyped
<1>3. disk[d] \in Files /\ row[d].status \in [Resource -> Status]
  BY Typed
<1>4. r \in Resource /\ frame.index \in Chunk /\ frame.bytes = "good"
  BY <1>2, FrameFields
<1>5. Nothing \in [Device -> Seq(GoodFrame)]
  BY Empty DEF Nothing
<1> HIDE DEF frame
<1>6. CASE Handles(d, e, <<>>, row[d].status, Nothing)
  <2>1. Gentle(disk[d], <<>>) /\ Run(disk[d], <<>>) = disk[d]
    BY <1>3, NoOps
  <2>2. \A s \in Resource :
          row[d].status[s] = "available" /\ <<d, Object(s)>> \notin damaged =>
            Known(disk[d], s) /\ Complete(disk[d], s)
    BY <1>2 DEF DiskInv, AvailableIsWhole
  <2>3. QED
    BY <1>2, <1>3, <1>5, <1>6, <2>1, <2>2, HandlesInv
<1>7. CASE Known(disk[d], r) /\ TakeChunk(d, e, r, frame.index, frame.bytes)
  <2> DEFINE i == frame.index
             ops == Takes(disk[d], r, i)
             D2 == Taken(disk[d], r, i)
             c == Finishes(D2, r)
             s0 == Settled(Run(D2, c), r)
             st == [row[d].status EXCEPT ![r] = IF @ = "none" THEN @ ELSE s0]
  <2>1. Handles(d, e, ops, st, Nothing)
    BY <1>4, <1>7 DEF TakeChunk, Finishes, Takes, Taken
  <2>2. /\ Gentle(disk[d], ops)
        /\ Run(disk[d], ops) = Run(D2, c)
    BY <1>3, <1>4, ChunkDoes
  <2> HIDE DEF ops, D2, c
  <2>3. st \in [Resource -> Status]
    BY <1>3 DEF Status, Settled
  <2>4. \A s \in Resource : st[s] = "available" /\ <<d, Object(s)>> \notin damaged =>
           Known(Run(disk[d], ops), s) /\ Complete(Run(disk[d], ops), s)
    <3>1. ASSUME NEW s \in Resource, st[s] = "available", <<d, Object(s)>> \notin damaged
          PROVE  Known(Run(disk[d], ops), s) /\ Complete(Run(disk[d], ops), s)
      <4>1. Keeps(disk[d], Run(disk[d], ops))
        BY <2>2 DEF Gentle
      <4>2. CASE row[d].status[s] = "available"
        BY <1>2, <3>1, <4>1, <4>2, StillWhole
      <4>3. CASE row[d].status[s] # "available"
        <5>1. s = r /\ s0 = "available"
          BY <1>3, <1>4, <3>1, <4>3
        <5>2. Complete(Run(disk[d], ops), r)
          BY <2>2, <5>1 DEF Settled
        <5>3. Known(Run(disk[d], ops), r)
          BY <1>3, <1>4, <1>7, <4>1, KeepsWhat
        <5>4. QED
          BY <5>1, <5>2, <5>3
      <4>4. QED
        BY <4>2, <4>3
    <3>2. QED
      BY <3>1
  <2> HIDE DEF st
  <2>5. QED
    BY <1>2, <1>5, <2>1, <2>2, <2>3, <2>4, HandlesInv
<1>8. QED
  BY <1>1, <1>6, <1>7

LEMMA NoRemains ==
  ASSUME NEW D
  PROVE  Remains(D, <<>>) = {D}
BY DEF Remains

LEMMA BeginsNone ==
  ASSUME NEW D
  PROVE  Begins(D, {}) = <<>>
<1> DEFINE g == [r \in {} |-> Begin(D, r)]
<1>1. IsFiniteSet({})
  BY FS_EmptySet
<1>2. g \in [{} -> Seq({})]
  OBVIOUS
<1>3. Begins(D, {}) = InTurn({}, g)
  BY <1>1, OrderOf DEF Begins, InTurn
<1> HIDE DEF g
<1>4. InTurn({}, g) \in Seq({})
  BY <1>1, <1>2, InTurnRange
<1>5. \A s \in Seq({}) : s = <<>>
  OBVIOUS
<1>6. QED
  BY <1>3, <1>4, <1>5

LEMMA RestartInv ==
  ASSUME DiskInv, NEW d \in Device, Restart(d)
  PROVE  DiskInv' /\ Kept(d)
<1> DEFINE kept == Restarted(d)
           ops == Begins(disk[d], kept)
           X == Run(disk[d], ops)
           st == [r \in Resource |-> IF r \in kept THEN Settled(X, r) ELSE row[d].status[r]]
<1>1. /\ disk[d] \in Files /\ row[d].status \in [Resource -> Status]
      /\ registered' \subseteq Resource /\ up \subseteq Device \X Device
      /\ damaged' = damaged
  BY Typed DEF Restart
<1>2. kept \in SUBSET Resource
  BY DEF Restarted, Listed
<1>3. ~row[d].member => kept = {} /\ ops = <<>> /\ X = disk[d] /\ st = row[d].status
  <2>1. SUFFICES ASSUME ~row[d].member
                 PROVE  kept = {} /\ ops = <<>> /\ X = disk[d] /\ st = row[d].status
    OBVIOUS
  <2>2. kept = {}
    BY <2>1 DEF DiskInv, LeftClean, Restarted, Listed
  <2> HIDE DEF kept
  <2>3. ops = <<>>
    BY <2>2, BeginsNone
  <2> HIDE DEF ops
  <2>4. X = disk[d]
    BY <1>1, <2>3, NoOps
  <2>5. st = row[d].status
    BY <1>1, <2>2
  <2>6. QED
    BY <2>2, <2>3, <2>4, <2>5
<1>4. \/ Dies(d, ops)
      \/ /\ disk' = [disk EXCEPT ![d] = X]
         /\ row' = [row EXCEPT ![d].status =
               [r \in Resource |-> IF r \in kept THEN Settled(X, r) ELSE @[r]]]
         /\ alive' = alive \cup {d}
         /\ UNCHANGED <<up, wire, faults>>
  BY DEF Restart, ForEach, Begins
<1>5. Gentle(disk[d], ops) /\ \A r \in kept : Known(X, r)
  BY <1>1, <1>2, BeginsDo
<1>6. X \in Files /\ \A Y \in Remains(disk[d], ops) : Y \in Files
  BY <1>5 DEF Gentle, Keeps
<1>7. row[d].member \/ Remains(disk[d], ops) = {disk[d]}
  BY <1>3, NoRemains
<1>8. \A r \in Resource : st[r] = "available" => Known(X, r) /\ Complete(X, r)
  <2>1. ASSUME NEW r \in Resource, st[r] = "available"
        PROVE  Known(X, r) /\ Complete(X, r)
    <3>1. r \in kept
      BY <2>1 DEF Restarted, Listed
    <3>2. QED
      BY <1>5, <2>1, <3>1 DEF Settled
  <2>2. QED
    BY <2>1
<1>9. st \in [Resource -> Status]
  BY <1>1 DEF Status, Settled
<1> HIDE DEF ops, X, kept
<1>10. CASE Dies(d, ops)
  BY <1>1, <1>5, <1>6, <1>7, <1>10, DiesInv, DiesKept
<1>11. CASE /\ disk' = [disk EXCEPT ![d] = X]
            /\ row' = [row EXCEPT ![d].status =
                  [r \in Resource |-> IF r \in kept THEN Settled(X, r) ELSE @[r]]]
            /\ alive' = alive \cup {d}
            /\ UNCHANGED <<up, wire, faults>>
  <2>1. row' = [row EXCEPT ![d].status = st]
    BY <1>11
  <2>4. alive' = alive \/ alive' = alive \cup {d}
    BY <1>11
  <2>5. row[d].member \/ (X = disk[d] /\ st = row[d].status)
    BY <1>3
  <2>6. \A f, g \in Device : <<f, g>> \in up' => <<f, g>> \in up \/ (Runs(f) /\ Runs(g))
    BY <1>11
  <2>7. disk' = [disk EXCEPT ![d] = X]
    BY <1>11
  <2>2. wire' \in Wires /\ faults' \in Nat /\ up' = up
    BY <1>11, Typed DEF DiskInv
  <2> HIDE DEF st
  <2>3. QED
    <3>1. DiskInv'
      BY <1>1, <1>6, <1>8, <1>9, <2>1, <2>2, <2>4, <2>5, <2>6, <2>7, Acts, ZenonT(40)
    <3>2. Kept(d)
      BY <1>5, <2>7, ActsKept DEF Gentle, X
    <3>3. QED
      BY <3>1, <3>2
<1>12. QED
  BY <1>4, <1>10, <1>11

LEMMA CrashInv ==
  ASSUME DiskInv, NEW d \in Device, Crash(d)
  PROVE  DiskInv' /\ Kept(d)
<1>1. Dies(d, <<>>) /\ registered' \subseteq Resource /\ damaged' = damaged
  BY Typed DEF Crash
<1>2. Remains(disk[d], <<>>) = {disk[d]} /\ disk[d] \in Files
  BY NoRemains, Typed
<1>3. QED
  BY <1>1, <1>2, NoOps, DiesInv, DiesKept

LEMMA DamageInv ==
  ASSUME DiskInv, NEW d \in Device, NEW f \in File, Damage(d, f)
  PROVE  DiskInv'
<1>1. TypeOK /\ AvailableIsWhole /\ LeftClean /\ UpRuns /\ wire \in Wires
  BY DEF DiskInv
<1>2. /\ UNCHANGED <<registered, row, alive, up, wire>>
      /\ damaged' = damaged \cup {<<d, f>>}
      /\ faults' \in Nat
      /\ disk[d][f] = "good"
  BY <1>1 DEF Damage, Fault, TypeOK
<1>3. /\ disk' \in [Device -> Files]
      /\ \A e \in Device : \A g \in File :
           disk'[e][g] = IF e = d /\ g = f THEN "bad" ELSE disk[e][g]
  <2>1. disk \in [Device -> Files] /\ disk[d] \in Files
    BY <1>1 DEF TypeOK
  <2>2. disk' = [disk EXCEPT ![d] = [disk[d] EXCEPT ![f] = "bad"]]
    BY DEF Damage
  <2>3. [disk[d] EXCEPT ![f] = "bad"] \in Files
    BY <2>1 DEF Files
  <2>4. \A g \in File : [disk[d] EXCEPT ![f] = "bad"][g] = IF g = f THEN "bad" ELSE disk[d][g]
    BY <2>1 DEF Files
  <2> HIDE DEF Files
  <2>5. QED
    BY <2>1, <2>2, <2>3, <2>4
<1>4. \A r \in Resource : /\ f # Manifest(r) /\ Manifest(r) \in File /\ Object(r) \in File
  BY FileKinds DEF Damage
<1>5. /\ \A e \in Device, r \in Resource : Known(disk'[e], r) <=> Known(disk[e], r)
      /\ \A e \in Device, r \in Resource :
           disk'[e][Object(r)] # "none" => disk[e][Object(r)] # "none"
      /\ \A e \in Device, r \in Resource :
           <<e, Object(r)>> \notin damaged' =>
             <<e, Object(r)>> \notin damaged /\ disk'[e][Object(r)] = disk[e][Object(r)]
  BY <1>2, <1>3, <1>4 DEF Known
<1>6. TypeOK'
  BY <1>1, <1>2, <1>3 DEF TypeOK
<1>7. AvailableIsWhole'
  <2>1. ASSUME NEW e \in alive, NEW r \in Resource,
               row[e].status[r] = "available", <<e, Object(r)>> \notin damaged'
        PROVE  Known(disk'[e], r) /\ Complete(disk'[e], r)
    <3>1. e \in Device
      BY <1>1 DEF TypeOK
    <3>2. Known(disk[e], r) /\ Complete(disk[e], r)
      BY <1>1, <1>5, <2>1, <3>1 DEF AvailableIsWhole
    <3>3. QED
      BY <1>5, <2>1, <3>1, <3>2 DEF Complete, Verified
  <2>2. QED
    BY <1>2, <2>1 DEF AvailableIsWhole, Known, Complete, Verified
<1>8. LeftClean'
  <2>1. ASSUME NEW e \in Device, ~row[e].member, NEW r \in Resource,
               disk'[e][Object(r)] # "none"
        PROVE  \E s \in Resource : Object(s) = Object(r) /\ Known(disk'[e], s)
    <3>1. PICK s \in Resource : Object(s) = Object(r) /\ Known(disk[e], s)
      BY <1>1, <1>5, <2>1 DEF LeftClean
    <3>2. QED
      BY <1>5, <3>1
  <2>2. QED
    BY <1>1, <1>2, <2>1 DEF LeftClean, Known
<1>9. UpRuns' /\ wire' \in Wires
  BY <1>1, <1>2 DEF UpRuns, Runs
<1>10. QED
  BY <1>6, <1>7, <1>8, <1>9 DEF DiskInv

LEMMA InitInv ==
  Init => DiskInv
<1>1. SUFFICES ASSUME Init PROVE DiskInv
  OBVIOUS
<1>2. TypeOK /\ wire \in Wires
  <2>1. Fresh \in Row
    BY DEF Fresh, Row, Status
  <2>2. <<>> \in Seq(GoodFrame) /\ <<>> \in Seq(Frame)
    BY Empty
  <2>3. [f \in File |-> "none"] \in Files
    BY DEF Files
  <2>4. QED
    BY <1>1, <2>1, <2>2, <2>3 DEF Init, TypeOK, Wires
<1>3. AvailableIsWhole /\ LeftClean /\ UpRuns
  BY <1>1 DEF Init, AvailableIsWhole, LeftClean, UpRuns, Fresh
<1>4. QED
  BY <1>2, <1>3 DEF DiskInv

LEMMA NextInv ==
  DiskInv /\ [Next]_vars => DiskInv'
<1>1. SUFFICES ASSUME DiskInv, [Next]_vars PROVE DiskInv'
  OBVIOUS
<1>2. CASE UNCHANGED vars
  BY <1>1, <1>2 DEF vars, DiskInv, TypeOK, Wires, AvailableIsWhole, LeftClean, UpRuns,
                    Runs, Known, Complete, Verified
<1>3. ASSUME NEW d \in Device, NEW r \in Resource,
             RegisterMedia(d, r) \/ CancelResource(d, r) \/ RetryResource(d, r)
      PROVE  DiskInv'
  BY <1>1, <1>3, RegisterInv, CancelInv, RetryInv
<1>4. ASSUME NEW d \in Device, Leave(d) \/ Rejoin(d) \/ Crash(d) \/ Restart(d)
      PROVE  DiskInv'
  BY <1>1, <1>4, LeaveInv, RejoinInv, CrashInv, RestartInv
<1>5. ASSUME NEW d \in Device, NEW e \in Device,
             Authenticate(d, e) \/ Disconnect(d, e) \/ Receive(d, e)
      PROVE  DiskInv'
  BY <1>1, <1>5, AuthenticateInv, DisconnectInv, DigestInv, BatchInv, RequestInv, ChunkInv
     DEF Receive
<1>6. ASSUME NEW d \in Device, NEW f \in File, Damage(d, f)
      PROVE  DiskInv'
  BY <1>1, <1>6, DamageInv
<1>7. QED
  BY <1>1, <1>2, <1>3, <1>4, <1>5, <1>6 DEF Next

(* What the disk invariant says for the runs.                                *)
LEMMA DiskInvGives ==
  DiskInv => DiskSound /\ ServedIsGood
<1>1. SUFFICES ASSUME DiskInv PROVE DiskSound /\ ServedIsGood
  OBVIOUS
<1>2. TypeOK /\ AvailableIsWhole /\ LeftClean /\ wire \in Wires
  BY <1>1 DEF DiskInv
<1>3. NoOrphanObject
  BY <1>2 DEF NoOrphanObject, LeftClean, TypeOK
<1>4. ServedIsGood
  <2>1. ASSUME NEW d \in Device, NEW e \in Device, NEW k \in DOMAIN wire[d][e],
               wire[d][e][k].type = "chunk"
        PROVE  wire[d][e][k].bytes = "good"
    <3>1. wire[d][e] \in Seq(GoodFrame)
      BY <1>2 DEF Wires
    <3>2. wire[d][e][k] \in GoodFrame
      BY <3>1
    <3>3. QED
      BY <2>1, <3>2 DEF GoodFrame
  <2>2. QED
    BY <2>1 DEF ServedIsGood
<1>5. QED
  BY <1>2, <1>3, <1>4 DEF DiskSound

LEMMA AlwaysInv ==
  Spec => []DiskInv
<1>1. Init => DiskInv
  BY InitInv
<1>2. DiskInv /\ [Next]_vars => DiskInv'
  BY NextInv
<1>3. QED
  BY <1>1, <1>2, PTL DEF Spec

(* Whatever is imported, cancelled, interrupted, damaged or lost: what a     *)
(* running device shows as available is whole on its disk, and whoever has   *)
(* left keeps no object without a manifest.                                  *)
THEOREM DisksAreSound ==
  Spec => []DiskSound
<1>1. DiskInv => DiskSound
  BY DiskInvGives
<1>2. QED
  BY <1>1, AlwaysInv, PTL

(* Only good bytes are on the wire, although objects go bad on disk.         *)
THEOREM OnlyGoodIsServed ==
  Spec => []ServedIsGood
<1>1. DiskInv => ServedIsGood
  BY DiskInvGives
<1>2. QED
  BY <1>1, AlwaysInv, PTL

(* No step but cancelling, leaving and damage takes away bytes a device has, *)
(* also when the process dies in the middle of it.                           *)
LEMMA StepsKeep ==
  ASSUME DiskInv, [Next]_vars, NEW d \in Device, NEW r \in Resource
  PROVE  \/ \A i \in Chunk : Has(d, r, i) => Has(d, r, i)'
         \/ Leave(d) \/ \E s \in Resource : CancelResource(d, s)
         \/ \E f \in File : Damage(d, f)
<1> DEFINE Safe == \A i \in Chunk : Has(d, r, i) => Has(d, r, i)'
<1>1. ASSUME NEW e \in Device, Kept(e) PROVE Safe
  BY <1>1, KeptHas
<1>2. ASSUME disk'[d] = disk[d] PROVE Safe
  BY <1>2 DEF Has, Complete, Verified
<1> HIDE DEF Safe
<1>3. ASSUME UNCHANGED vars PROVE Safe
  BY <1>2, <1>3 DEF vars
<1>4. ASSUME NEW e \in Device, NEW s \in Resource,
             RegisterMedia(e, s) \/ RetryResource(e, s)
      PROVE  Safe
  BY <1>1, <1>4, RegisterInv, RetryInv
<1>5. ASSUME NEW e \in Device, Crash(e) \/ Restart(e)
      PROVE  Safe
  BY <1>1, <1>5, CrashInv, RestartInv
<1>6. ASSUME NEW e \in Device, NEW s \in Device, Authenticate(e, s) \/ Receive(e, s)
      PROVE  Safe
  BY <1>1, <1>6, AuthenticateInv, DigestInv, BatchInv, RequestInv, ChunkInv DEF Receive
<1>7. ASSUME NEW e \in Device, Rejoin(e)
      PROVE  Safe
  BY <1>2, <1>7 DEF Rejoin
<1>8. ASSUME NEW e \in Device, NEW s \in Device, Disconnect(e, s)
       PROVE  Safe
  BY <1>2, <1>8 DEF Disconnect
<1>9. disk \in [Device -> Files]
  BY DEF DiskInv, TypeOK
<1>10. ASSUME NEW e \in Device, Leave(e)
      PROVE  Safe \/ Leave(d)
  BY <1>2, <1>9, <1>10 DEF Leave, Dies
<1>11. ASSUME NEW e \in Device, NEW s \in Resource, CancelResource(e, s)
       PROVE  Safe \/ CancelResource(d, s)
  BY <1>2, <1>9, <1>11 DEF CancelResource, Dies
<1>12. ASSUME NEW e \in Device, NEW f \in File, Damage(e, f)
       PROVE  Safe \/ Damage(d, f)
  BY <1>2, <1>9, <1>12 DEF Damage
<1>13. Safe \/ Leave(d) \/ (\E s \in Resource : CancelResource(d, s))
            \/ \E f \in File : Damage(d, f)
  <2>1. CASE UNCHANGED vars
    BY <1>3, <2>1
  <2>2. CASE Next
    <3>1. PICK e \in Device :
            \/ \E s \in Resource : RegisterMedia(e, s) \/ CancelResource(e, s) \/ RetryResource(e, s)
            \/ Leave(e) \/ Rejoin(e) \/ Crash(e) \/ Restart(e)
            \/ \E s \in Device : Authenticate(e, s) \/ Disconnect(e, s) \/ Receive(e, s)
            \/ \E f \in File : Damage(e, f)
      BY <2>2 DEF Next
    <3>2. CASE \E s \in Resource :
                 RegisterMedia(e, s) \/ CancelResource(e, s) \/ RetryResource(e, s)
      BY <1>4, <1>11, <3>2
    <3>3. CASE Leave(e) \/ Rejoin(e) \/ Crash(e) \/ Restart(e)
      BY <1>5, <1>7, <1>10, <3>3
    <3>4. CASE \E s \in Device : Authenticate(e, s) \/ Disconnect(e, s) \/ Receive(e, s)
      BY <1>6, <1>8, <3>4
    <3>5. CASE \E f \in File : Damage(e, f)
      BY <1>12, <3>5
    <3>6. QED
      BY <3>1, <3>2, <3>3, <3>4, <3>5
  <2>3. QED
    BY <2>1, <2>2
<1>14. QED
  BY <1>13 DEF Safe

(* Whatever is interrupted, a device loses chunks it has verified only by    *)
(* cancelling, leaving or damage: recover, begin and finalize keep them.     *)
THEOREM ProgressIsKept ==
  Spec => ProgressKept
<1>1. DiskInv /\ [Next]_vars =>
        \A d \in Device, r \in Resource :
          \/ \A i \in Chunk : Has(d, r, i) => Has(d, r, i)'
          \/ Leave(d) \/ \E s \in Resource : CancelResource(d, s)
          \/ \E f \in File : Damage(d, f)
  BY StepsKeep
<1>2. QED
  BY <1>1, AlwaysInv, PTL DEF Spec, ProgressKept

-----------------------------------------------------------------------------
(* What operations write                                                     *)

Writing(W) == {op \in Op : op.to = "good" => op.files \subseteq W}

Own(r) == {Manifest(r), Event(r), Object(r)} \cup ChunkFiles(r)
Bodies(r) == {Object(r)} \cup ChunkFiles(r)

LEMMA WhoseFile ==
  ASSUME NEW r \in Resource, NEW s \in Resource
  PROVE  /\ Own(r) \subseteq File /\ Bodies(r) \subseteq Own(r)
         /\ Manifest(s) \in Own(r) => s = r
         /\ Event(s) \in Own(r) => s = r
         /\ Manifest(s) \notin Bodies(r) /\ Event(s) \notin Bodies(r)
<1>1. Event(s) = Event(r) => s = r
  BY DEF Event
<1>2. QED
  BY <1>1, FileKinds DEF Own, Bodies

LEMMA NotWritten ==
  ASSUME NEW D \in Files, NEW W, NEW ops \in Seq(Writing(W)), NEW f \in File \ W,
         NEW X \in {Run(D, ops)} \cup Remains(D, ops), X[f] = "good"
  PROVE  D[f] = "good"
<1>1. ops \in Seq(Op) /\ Range(ops) \subseteq Writing(W)
  <2>1. Writing(W) \subseteq Op
    BY DEF Writing
  <2>2. QED
    BY <2>1, RangeOfSeq
<1>2. X[f] = D[f] \/ \E op \in Range(ops) : f \in op.files /\ X[f] = op.to
  BY <1>1, RunValue, RemainsValue
<1>3. QED
  BY <1>1, <1>2 DEF Writing

LEMMA TidyWriting ==
  ASSUME NEW D, NEW W \in SUBSET File, NEW ops \in Seq(Tidying(D) \cup {Write(f) : f \in W})
  PROVE  ops \in Seq(Writing(W))
<1>1. Tidying(D) \cup {Write(f) : f \in W} \subseteq Writing(W)
  BY WriteIs DEF Tidying, Writing
<1>2. QED
  BY <1>1

LEMMA DeleteWriting ==
  ASSUME NEW D, NEW W, NEW ops \in Seq(Tidying(D))
  PROVE  ops \in Seq(Writing(W))
<1>1. Tidying(D) \subseteq Writing(W)
  BY DEF Tidying, Writing
<1>2. QED
  BY <1>1

LEMMA WriteWriting ==
  ASSUME NEW W \in SUBSET File, NEW ops \in Seq({Write(f) : f \in W}),
         NEW V, W \subseteq V
  PROVE  ops \in Seq(Writing(V))
<1>1. {Write(f) : f \in W} \subseteq Writing(V)
  BY WriteIs DEF Writing
<1>2. QED
  BY <1>1

LEMMA FinalizeWriting ==
  ASSUME NEW D, NEW r \in Resource, NEW V, {Object(r)} \subseteq V
  PROVE  Finalize(D, r) \in Seq(Writing(V))
<1>1. Write(Object(r)) \in Writing(V) /\ Delete(ChunkFiles(r)) \in Writing(V)
  BY FileKinds, WriteIs DEF Writing, Delete, Op
<1>2. <<Write(Object(r))>> \in Seq(Writing(V)) /\ <<Delete(ChunkFiles(r))>> \in Seq(Writing(V))
      /\ <<>> \in Seq(Writing(V))
  BY <1>1
<1>3. QED
  BY <1>2 DEF Finalize

LEMMA BeginWriting ==
  ASSUME NEW D \in Files, NEW r \in Resource
  PROVE  Begin(D, r) \in Seq(Writing({Manifest(r)}))
<1>1. {Write(f) : f \in {Manifest(r)}} = {Write(Manifest(r))}
  OBVIOUS
<1>2. {Manifest(r)} \in SUBSET File
  BY FileKinds
<1>3. Begin(D, r) \in Seq(Tidying(D) \cup {Write(f) : f \in {Manifest(r)}})
  BY <1>1, BeginOps
<1>4. QED
  BY <1>2, <1>3, TidyWriting

LEMMA BeginsWriting ==
  ASSUME NEW D \in Files, NEW S \in SUBSET Resource
  PROVE  Begins(D, S) \in Seq(Writing({Manifest(r) : r \in S}))
<1> DEFINE W == {Manifest(r) : r \in S}
<1>1. {Write(f) : f \in W} = {Write(Manifest(r)) : r \in S}
  OBVIOUS
<1>2. W \in SUBSET File
  BY FileKinds
<1>3. Begins(D, S) \in Seq(Tidying(D) \cup {Write(f) : f \in W})
  BY <1>1, BeginsOps
<1> HIDE DEF W
<1>4. Begins(D, S) \in Seq(Writing(W))
  BY <1>2, <1>3, TidyWriting
<1>5. QED
  BY <1>4 DEF W

Announced(S) == {Manifest(r) : r \in S} \cup {Event(r) : r \in S}

LEMMA RecordsWriting ==
  ASSUME NEW D \in Files, NEW S \in SUBSET Resource
  PROVE  Records(D, S) \in Seq(Writing(Announced(S)))
<1>1. Tidying(D) \cup {Write(f) : f \in Announced(S)}
        = Tidying(D) \cup {Write(Manifest(r)) : r \in S} \cup {Write(Event(r)) : r \in S}
  BY DEF Announced
<1>2. Announced(S) \in SUBSET File
  BY FileKinds DEF Announced
<1>3. Records(D, S) \in Seq(Tidying(D) \cup {Write(f) : f \in Announced(S)})
  BY <1>1, RecordsOps
<1>4. QED
  BY <1>2, <1>3, TidyWriting

LEMMA ImportsWriting ==
  ASSUME NEW D \in Files, NEW r \in Resource
  PROVE  Imports(D, r) \in Seq(Writing(Own(r)))
<1> DEFINE begun == Begin(D, r)
           D1 == Run(D, begun)
           accepted == Accepts(D1, r, Missing(D1, r))
           final == Finalize(Run(D1, accepted), r)
           event == <<Write(Event(r))>>
<1>1. begun \in Seq(Writing(Own(r)))
  <2>1. Writing({Manifest(r)}) \subseteq Writing(Own(r))
    BY DEF Writing, Own
  <2>2. QED
    BY <2>1, BeginWriting
<1>2. accepted \in Seq(Writing(Own(r)))
  <2>1. accepted \in Seq({Write(f) : f \in ChunkFiles(r)})
    BY AcceptsOps DEF Missing
  <2>2. ChunkFiles(r) \in SUBSET File /\ ChunkFiles(r) \subseteq Own(r)
    BY FileKinds DEF Own
  <2> HIDE DEF accepted
  <2>3. QED
    BY <2>1, <2>2, WriteWriting
<1>3. final \in Seq(Writing(Own(r)))
  <2>1. {Object(r)} \subseteq Own(r)
    BY DEF Own
  <2>2. QED
    BY <2>1, FinalizeWriting
<1>4. event \in Seq(Writing(Own(r)))
  <2>1. Write(Event(r)) \in Writing(Own(r))
    BY FileKinds, WriteIs DEF Writing, Own
  <2>2. QED
    BY <2>1
<1>5. Imports(D, r) = ((begun \o accepted) \o final) \o event
  BY DEF Imports
<1> HIDE DEF begun, accepted, final, event
<1>6. QED
  BY <1>1, <1>2, <1>3, <1>4, <1>5, Concat

LEMMA TakesWriting ==
  ASSUME NEW D \in Files, NEW r \in Resource, NEW i \in Chunk
  PROVE  Takes(D, r, i) \in Seq(Writing(Bodies(r)))
<1> DEFINE a == Recover(D, r)
           b == Accept(Run(D, a), r, i)
           c == Finishes(Taken(D, r, i), r)
<1>1. a \in Seq(Writing(Bodies(r)))
  BY RecoverOps, DeleteWriting
<1>2. b \in Seq(Writing(Bodies(r)))
  <2>1. b \in Seq({Write(f) : f \in ChunkFiles(r)})
    BY AcceptOps
  <2>2. ChunkFiles(r) \in SUBSET File /\ ChunkFiles(r) \subseteq Bodies(r)
    BY FileKinds DEF Bodies
  <2> HIDE DEF b
  <2>3. QED
    BY <2>1, <2>2, WriteWriting
<1>3. c \in Seq(Writing(Bodies(r)))
  <2>1. {Object(r)} \subseteq Bodies(r)
    BY DEF Bodies
  <2>2. \A X : Finalize(X, r) \in Seq(Writing(Bodies(r)))
    BY <2>1, FinalizeWriting
  <2>3. QED
    BY <2>2, Empty DEF Finishes
<1>4. Takes(D, r, i) = (a \o b) \o c
  BY DEF Takes
<1> HIDE DEF a, b, c
<1>5. QED
  BY <1>1, <1>2, <1>3, <1>4, Concat

LEMMA CancelWriting ==
  ASSUME NEW r \in Resource
  PROVE  Cancel(r) \in Seq(Writing({}))
<1>1. Delete({Manifest(r)} \cup ChunkFiles(r)) \in Writing({})
  BY FileKinds DEF Writing, Delete, Op
<1>2. QED
  BY <1>1 DEF Cancel

LEMMA LeavesWriting ==
  ASSUME NEW D \in Files, NEW S \in SUBSET Resource
  PROVE  Leaves(D, S) \in Seq(Writing({}))
<1> DEFINE D1 == Run(D, Cancels(S))
           kept == {r \in Resource : Known(D1, r)}
           orphans == {Object(r) : r \in Resource} \ {Object(r) : r \in kept}
           g == [r \in S |-> Cancel(r)]
<1>1. Cancels(S) \in Seq(Writing({}))
  <2>1. IsFiniteSet(S)
    BY FiniteResources
  <2>2. g \in [S -> Seq(Writing({}))]
    BY CancelWriting
  <2>3. Cancels(S) = InTurn(S, g)
    BY <2>1, OrderOf DEF Cancels, InTurn
  <2> HIDE DEF g
  <2>4. QED
    BY <2>1, <2>2, <2>3, InTurnRange
<1>2. D1 \in Files
  BY CancelsOps, RunValue
<1> HIDE DEF D1
<1>3. Recovers(D1, kept) \in Seq(Writing({}))
  BY <1>2, RecoversOps, DeleteWriting
<1>4. <<Delete(orphans)>> \in Seq(Writing({}))
  <2>1. orphans \subseteq File
    BY FileKinds
  <2>2. Delete(orphans) \in Writing({})
    BY <2>1 DEF Writing, Delete, Op
  <2>3. QED
    BY <2>2
<1>5. <<Transaction({Event(r) : r \in Resource})>> \in Seq(Writing({}))
  <2>1. Transaction({Event(r) : r \in Resource}) \in Writing({})
    BY FileKinds DEF Writing, Transaction, Op
  <2>2. QED
    BY <2>1
<1>6. Cleanup(D1) = Recovers(D1, kept) \o <<Delete(orphans)>>
  BY DEF Cleanup, Recovers
<1>7. Leaves(D, S) =
        (Cancels(S) \o Cleanup(D1)) \o <<Transaction({Event(r) : r \in Resource})>>
  BY DEF Leaves, D1
<1> HIDE DEF kept, orphans
<1>8. QED
  BY <1>1, <1>3, <1>4, <1>5, <1>6, <1>7, Concat

-----------------------------------------------------------------------------
(* Cancelled transfers stay cancelled                                        *)

(* The transfer is cancelled, and its manifest is back: a process died when  *)
(* it began the transfer again.                                              *)
Dropped(d, r) == row[d].status[r] = "cancelled" /\ Known(disk[d], r)

(* What is on the way from d to e: batches of imported resources, and no     *)
(* request of a cancelled transfer or answer to one, unless the answer will  *)
(* find no manifest.                                                         *)
Allowed(d, e) ==
  {m \in GoodFrame :
     /\ m.type = "batch" => m.events \subseteq registered
     /\ m.type = "request" => ~Dropped(d, m.resource)
     /\ m.type = "chunk" => ~Dropped(e, m.resource)}

QuietInv ==
  /\ \A d \in Device : Events(d) \subseteq registered
  /\ \A d, e \in Device : wire[d][e] \in Seq(Allowed(d, e))

(* Only a retry or leaving ends that a stored transfer is cancelled.         *)
Stays(d) ==
  \A e \in Device, r \in Resource :
    row[e].status[r] = "cancelled" /\ r \in Events(e) =>
      row'[e].status[r] = "cancelled" \/ (e = d /\ (RetryResource(d, r) \/ Leave(d)))

(* A device that has new statuses, and manifests of no other cancelled       *)
(* transfers: what was on the way may be on the way.                         *)
LEMMA StillAllowed ==
  ASSUME DiskInv, QuietInv, NEW d \in Device, NEW X \in Files,
         NEW st \in [Resource -> Status],
         disk' = [disk EXCEPT ![d] = X],
         row'[d].status = st, \A e \in Device : e # d => row'[e] = row[e],
         registered \subseteq registered',
         \A r \in Resource : st[r] = "cancelled" /\ Known(X, r) => Dropped(d, r),
         \A r \in Resource : X[Event(r)] = "good" => r \in registered'
  PROVE  /\ \A e \in Device : Events(e)' \subseteq registered'
         /\ \A e \in Device, r \in Resource : Dropped(e, r)' => Dropped(e, r)
         /\ \A e, f \in Device : Allowed(e, f) \subseteq Allowed(e, f)'
         /\ \A e, f \in Device : wire[e][f] \in Seq(Allowed(e, f)')
<1>1. disk'[d] = X /\ \A e \in Device : e # d => disk'[e] = disk[e]
  BY DEF DiskInv, TypeOK
<1>2. \A e \in Device : Events(e)' \subseteq registered'
  <2>1. ASSUME NEW e \in Device, NEW r \in Resource, disk'[e][Event(r)] = "good"
        PROVE  r \in registered'
    <3>1. CASE e = d
      BY <1>1, <2>1, <3>1
    <3>2. CASE e # d
      BY <1>1, <2>1, <3>2 DEF QuietInv, Events
    <3>3. QED
      BY <3>1, <3>2
  <2>2. QED
    BY <2>1 DEF Events
<1>3. ASSUME NEW e \in Device, NEW r \in Resource, Dropped(e, r)'
      PROVE  Dropped(e, r)
  <2>1. CASE e = d
    BY <1>1, <1>3, <2>1 DEF Dropped, Known
  <2>2. CASE e # d
    BY <1>1, <1>3, <2>2 DEF Dropped, Known
  <2>3. QED
    BY <2>1, <2>2
<1>4. ASSUME NEW e \in Device, NEW f \in Device, NEW m \in Allowed(e, f)
      PROVE  m \in Allowed(e, f)'
  <2>1. /\ m \in GoodFrame
        /\ m.type = "request" => m.resource \in Resource
        /\ m.type = "chunk" => m.resource \in Resource
    BY <1>4, FrameFields DEF Allowed
  <2>2. QED
    BY <1>3, <1>4, <2>1 DEF Allowed
<1>5. \A e, f \in Device : wire[e][f] \in Seq(Allowed(e, f)')
  <2>1. ASSUME NEW e \in Device, NEW f \in Device
        PROVE  wire[e][f] \in Seq(Allowed(e, f)')
    <3>1. wire[e][f] \in Seq(Allowed(e, f)) /\ Allowed(e, f) \subseteq Allowed(e, f)'
      BY <1>4 DEF QuietInv
    <3>2. \A S, T : S \subseteq T => Seq(S) \subseteq Seq(T)
      OBVIOUS
    <3> HIDE DEF Allowed
    <3>3. QED
      BY <3>1, <3>2
  <2>2. QED
    BY <2>1
<1>6. QED
  BY <1>2, <1>3, <1>4, <1>5

(* The process dies: its connections take their frames with them.            *)
LEMMA DiesQuiet ==
  ASSUME DiskInv, QuietInv, NEW d \in Device, NEW W, NEW ops \in Seq(Writing(W)),
         Dies(d, ops), registered \subseteq registered',
         \A r \in Resource : Event(r) \in W => r \in registered'
  PROVE  QuietInv' /\ Stays(d)
<1>1. PICK X \in Remains(disk[d], ops) : disk' = [disk EXCEPT ![d] = X]
  BY DEF Dies
<1>2. disk[d] \in Files /\ ops \in Seq(Op)
  <2>1. Writing(W) \subseteq Op
    BY DEF Writing
  <2>2. QED
    BY <2>1, Typed
<1>3. /\ row' = row
      /\ wire' = [e \in Device |-> [f \in Device |->
                    IF <<e, f>> \in Touching(d) THEN <<>> ELSE wire[e][f]]]
  BY DEF Dies, Broken
<1>4. disk'[d] = X /\ \A e \in Device : e # d => disk'[e] = disk[e]
  BY <1>1 DEF DiskInv, TypeOK
<1>5. \A e \in Device : Events(e)' \subseteq registered'
  <2>1. ASSUME NEW e \in Device, NEW r \in Resource, disk'[e][Event(r)] = "good"
        PROVE  r \in registered'
    <3>1. CASE e = d /\ Event(r) \notin W
      <4>1. Event(r) \in File \ W
        BY <3>1, FileKinds
      <4>2. disk[d][Event(r)] = "good"
        BY <1>1, <1>2, <1>4, <2>1, <3>1, <4>1, NotWritten
      <4>3. QED
        BY <4>2 DEF QuietInv, Events
    <3>2. CASE e # d
      BY <1>4, <2>1, <3>2 DEF QuietInv, Events
    <3>3. QED
      BY <3>1, <3>2
  <2>2. QED
    BY <2>1 DEF Events
<1>6. ASSUME NEW e \in Device, NEW f \in Device
      PROVE  wire'[e][f] \in Seq(Allowed(e, f)')
  <2>1. CASE e = d \/ f = d
    <3>1. wire'[e][f] = <<>>
      BY <1>3, <2>1 DEF Touching
    <3>2. QED
      BY <3>1, Empty
  <2>2. CASE e # d /\ f # d
    <3>1. wire'[e][f] = wire[e][f]
      BY <1>3, <2>2 DEF Touching
    <3>2. \A r : (Dropped(e, r)' <=> Dropped(e, r)) /\ (Dropped(f, r)' <=> Dropped(f, r))
      BY <1>3, <1>4, <2>2 DEF Dropped, Known
    <3>3. Allowed(e, f) \subseteq Allowed(e, f)'
      BY <3>2 DEF Allowed
    <3>4. wire[e][f] \in Seq(Allowed(e, f))
      BY DEF QuietInv
    <3>5. \A S, T : S \subseteq T => Seq(S) \subseteq Seq(T)
      OBVIOUS
    <3>6. QED
      BY <3>1, <3>3, <3>4, <3>5
  <2>3. QED
    BY <2>1, <2>2
<1>7. QED
  BY <1>3, <1>5, <1>6 DEF QuietInv, Stays

(* What a handler of d may send to e when it has written statuses st and R   *)
(* is what has been imported.                                                *)
Sendable(e, st, R) ==
  {m \in GoodFrame :
     /\ m.type = "batch" => m.events \subseteq R
     /\ m.type = "request" => st[m.resource] # "cancelled"
     /\ m.type = "chunk" => ~Dropped(e, m.resource)}

LEMMA SendableAllowed ==
  ASSUME NEW d \in Device, NEW e \in Device, NEW st, NEW frames \in Seq(Sendable(e, st, registered')),
         row'[d].status = st,
         \A r \in Resource : Dropped(e, r)' => Dropped(e, r)
  PROVE  frames \in Seq(Allowed(d, e)')
<1>1. ASSUME NEW m \in Sendable(e, st, registered')
      PROVE  m \in Allowed(d, e)'
  <2>1. /\ m \in GoodFrame
        /\ m.type = "chunk" => m.resource \in Resource
    BY <1>1, FrameFields DEF Sendable
  <2>2. QED
    BY <1>1, <2>1 DEF Sendable, Allowed, Dropped
<1>2. \A S, T : S \subseteq T => Seq(S) \subseteq Seq(T)
  OBVIOUS
<1>3. Sendable(e, st, registered') \subseteq Allowed(d, e)'
  BY <1>1
<1>4. QED
  BY <1>2, <1>3

LEMMA HandlesQuiet ==
  ASSUME DiskInv, QuietInv, NEW d \in Device, NEW from \in Device, NEW W,
         NEW ops \in Seq(Writing(W)), NEW st \in [Resource -> Status], NEW sends,
         Handles(d, from, ops, st, sends),
         from = d \/ wire[from][d] # <<>>,
         registered \subseteq registered',
         \A e \in Device : sends[e] \in Seq(Sendable(e, st, registered')),
         \A r \in Resource : st[r] = "cancelled" =>
           row[d].status[r] = "cancelled" /\ Manifest(r) \notin W,
         \A r \in Resource : Event(r) \in W => r \in registered',
         \A r \in Resource : row[d].status[r] = "cancelled" /\ r \in Events(d) =>
           st[r] = "cancelled"
  PROVE  QuietInv' /\ Stays(d)
<1>1. CASE Dies(d, ops)
  BY <1>1, DiesQuiet
<1>2. CASE /\ disk' = [disk EXCEPT ![d] = Run(@, ops)]
           /\ row' = [row EXCEPT ![d].status = st]
           /\ wire' = [s \in Device |->
                IF s = d THEN [e \in Device |-> wire[d][e] \o sends[e]]
                ELSE IF s = from THEN [wire[s] EXCEPT ![d] = Tail(@)]
                ELSE wire[s]]
           /\ UNCHANGED <<alive, up, faults>>
  <2> DEFINE X == Run(disk[d], ops)
  <2>1. disk' = [disk EXCEPT ![d] = X] /\ disk[d] \in Files
    BY <1>2, Typed
  <2>2. X \in Files
    <3>1. Writing(W) \subseteq Op
      BY DEF Writing
    <3>2. ops \in Seq(Op)
      BY <3>1
    <3>3. QED
      BY <2>1, <3>2, RunValue
  <2>3. row'[d].status = st /\ \A e \in Device : e # d => row'[e] = row[e]
    BY <1>2 DEF DiskInv, TypeOK, Row
  <2>4. \A r \in Resource : st[r] = "cancelled" /\ Known(X, r) => Dropped(d, r)
    <3>1. ASSUME NEW r \in Resource, st[r] = "cancelled", X[Manifest(r)] = "good"
          PROVE  disk[d][Manifest(r)] = "good"
      <4>1. Manifest(r) \in File \ W
        BY <3>1, FileKinds
      <4>2. QED
        BY <2>1, <3>1, <4>1, NotWritten
    <3>2. QED
      BY <3>1 DEF Dropped, Known
  <2>5. \A r \in Resource : X[Event(r)] = "good" => r \in registered'
    <3>1. ASSUME NEW r \in Resource, X[Event(r)] = "good", Event(r) \notin W
          PROVE  r \in registered'
      <4>1. Event(r) \in File \ W
        BY <3>1, FileKinds
      <4>2. disk[d][Event(r)] = "good"
        BY <2>1, <3>1, <4>1, NotWritten
      <4>3. QED
        BY <4>2 DEF QuietInv, Events
    <3>2. QED
      BY <3>1
  <2> HIDE DEF X
  <2>6. /\ \A e \in Device : Events(e)' \subseteq registered'
        /\ \A e \in Device, r \in Resource : Dropped(e, r)' => Dropped(e, r)
        /\ \A e, f \in Device : wire[e][f] \in Seq(Allowed(e, f)')
    BY <2>1, <2>2, <2>3, <2>4, <2>5, StillAllowed, ZenonT(40)
  <2>7. ASSUME NEW e \in Device, NEW f \in Device
        PROVE  wire'[e][f] \in Seq(Allowed(e, f)')
    <3>1. wire[e] \in [Device -> Seq(GoodFrame)]
      BY Typed
    <3>2. CASE e = d
      <4>1. wire'[e][f] = wire[d][f] \o sends[f]
        BY <1>2, <3>2
      <4>2. sends[f] \in Seq(Allowed(d, f)')
        BY <2>3, <2>6, SendableAllowed
      <4>3. wire[d][f] \in Seq(Allowed(d, f)')
        BY <2>6
      <4>4. QED
        BY <3>2, <4>1, <4>2, <4>3, Concat
    <3>3. CASE e # d /\ e = from /\ f = d
      <4>1. wire'[e][f] = Tail(wire[e][f]) /\ wire[e][f] # <<>>
        BY <1>2, <3>1, <3>3
      <4>2. wire[e][f] \in Seq(Allowed(e, f)')
        BY <2>6
      <4>3. \A T : \A s \in Seq(T) : s # <<>> => Tail(s) \in Seq(T)
        OBVIOUS
      <4>4. QED
        BY <4>1, <4>2, <4>3
    <3>4. CASE e # d /\ ~(e = from /\ f = d)
      <4>1. wire'[e][f] = wire[e][f]
        BY <1>2, <3>1, <3>4
      <4>2. QED
        BY <2>6, <4>1
    <3>5. QED
      BY <3>2, <3>3, <3>4
  <2>8. Stays(d)
    BY <2>3 DEF Stays
  <2>9. QED
    BY <2>6, <2>7, <2>8 DEF QuietInv
<1>3. QED
  BY <1>1, <1>2 DEF Handles

LEMMA RequestsSendable ==
  ASSUME NEW D, NEW S \in SUBSET Resource, NEW st, NEW e, NEW R,
         \A r \in S : st[r] # "cancelled"
  PROVE  Requests(D, S) \in Seq(Sendable(e, st, R))
<1> DEFINE q == Requests(D, S)
<1>1. /\ q \in Seq(GoodFrame)
      /\ \A k \in 1..Len(q) : \E r \in S : q[k] = Request(r, Missing(D, r))
  BY RequestsGood
<1> HIDE DEF q
<1>2. ASSUME NEW k \in 1..Len(q)
      PROVE  q[k] \in Sendable(e, st, R)
  <2>1. PICK r \in S : q[k] = Request(r, Missing(D, r))
    BY <1>1
  <2>2. q[k].type = "request" /\ q[k].resource = r /\ q[k] \in GoodFrame
    BY <1>1, <2>1 DEF Request
  <2>3. QED
    BY <2>2 DEF Sendable
<1>3. q \in Seq(Sendable(e, st, R))
  BY <1>1, <1>2
<1>4. QED
  BY <1>3 DEF q

LEMMA BatchSendable ==
  ASSUME NEW S \in SUBSET Resource, NEW R, S \subseteq R, NEW st, NEW e
  PROVE  /\ <<BatchFrame(S)>> \in Seq(Sendable(e, st, R))
         /\ <<DigestFrame(S)>> \in Seq(Sendable(e, st, R))
<1>1. BatchFrame(S) \in Sendable(e, st, R) /\ DigestFrame(S) \in Sendable(e, st, R)
  BY DEF BatchFrame, DigestFrame, GoodFrame, Frame, Sendable
<1>2. QED
  BY <1>1

LEMMA RegisterQuiet ==
  ASSUME DiskInv, QuietInv, NEW d \in Device, NEW r \in Resource, RegisterMedia(d, r)
  PROVE  QuietInv' /\ Stays(d)
<1> DEFINE ops == Imports(disk[d], r)
           st == [row[d].status EXCEPT ![r] = "available"]
           sends == ToAll(d, <<BatchFrame({r})>>)
<1>1. Handles(d, d, ops, st, sends)
  BY DEF RegisterMedia, ForEach, Imports, Accepts
<1>2. r \notin registered /\ registered' = registered \cup {r}
  BY DEF RegisterMedia
<1>3. disk[d] \in Files /\ row[d].status \in [Resource -> Status]
  BY Typed
<1>4. ops \in Seq(Writing(Own(r)))
  BY <1>3, ImportsWriting
<1> HIDE DEF ops
<1>5. st \in [Resource -> Status]
  BY <1>3 DEF Status
<1>6. ASSUME NEW e \in Device PROVE sends[e] \in Seq(Sendable(e, st, registered'))
  <2>1. <<BatchFrame({r})>> \in Seq(Sendable(e, st, registered'))
    BY <1>2, BatchSendable
  <2>2. QED
    BY <2>1, Empty DEF ToAll
<1>7. \A s \in Resource : st[s] = "cancelled" =>
        row[d].status[s] = "cancelled" /\ Manifest(s) \notin Own(r)
  BY <1>3, WhoseFile
<1>8. \A s \in Resource : Event(s) \in Own(r) => s \in registered'
  BY <1>2, WhoseFile
<1>9. \A s \in Resource : row[d].status[s] = "cancelled" /\ s \in Events(d) =>
        st[s] = "cancelled"
  BY <1>2, <1>3 DEF QuietInv
<1> HIDE DEF st, sends
<1>10. QED
  BY <1>1, <1>2, <1>4, <1>5, <1>6, <1>7, <1>8, <1>9, HandlesQuiet

(* A handler that writes no manifests or events and cancels nothing.         *)
LEMMA PlainQuiet ==
  ASSUME DiskInv, QuietInv, NEW d \in Device, NEW e \in Device, NEW W,
         NEW ops \in Seq(Writing(W)), NEW sends,
         Handles(d, e, ops, row[d].status, sends),
         e = d \/ wire[e][d] # <<>>, registered' = registered,
         \A f \in Device : sends[f] \in Seq(Sendable(f, row[d].status, registered)),
         \A r \in Resource : Manifest(r) \notin W /\ Event(r) \notin W
  PROVE  QuietInv' /\ Stays(d)
<1>1. row[d].status \in [Resource -> Status]
  BY Typed
<1>2. QED
  BY <1>1, HandlesQuiet

LEMMA NoWrites ==
  \E W : /\ <<>> \in Seq(Writing(W))
         /\ \A r \in Resource : Manifest(r) \notin W /\ Event(r) \notin W
<1>1. PICK W : W = {}
  OBVIOUS
<1>2. <<>> \in Seq(Writing(W))
  BY Empty
<1>3. \A r \in Resource : Manifest(r) \notin W /\ Event(r) \notin W
  BY <1>1
<1>4. QED
  BY <1>2, <1>3

LEMMA DigestQuiet ==
  ASSUME DiskInv, QuietInv, NEW d \in Device, NEW e \in Device, ReceiveDigest(d, e)
  PROVE  QuietInv' /\ Stays(d)
<1> DEFINE missing == Events(d) \ Head(wire[e][d]).events
           sends == IF missing = {} THEN Nothing ELSE To(e, <<BatchFrame(missing)>>)
<1>1. Arrives(d, e, "digest") /\ Handles(d, e, <<>>, row[d].status, sends)
  BY DEF ReceiveDigest
<1>2. wire[e][d] # <<>> /\ registered' = registered
  BY <1>1 DEF Arrives
<1>3. missing \in SUBSET Resource /\ missing \subseteq registered
  BY DEF Events, QuietInv
<1>4. ASSUME NEW f \in Device
      PROVE  sends[f] \in Seq(Sendable(f, row[d].status, registered))
  <2> HIDE DEF missing
  <2>1. <<BatchFrame(missing)>> \in Seq(Sendable(f, row[d].status, registered))
    BY <1>3, BatchSendable
  <2>2. QED
    BY <2>1, Empty DEF To, Nothing
<1> HIDE DEF sends
<1>5. PICK W : /\ <<>> \in Seq(Writing(W))
               /\ \A r \in Resource : Manifest(r) \notin W /\ Event(r) \notin W
  BY NoWrites
<1>6. QED
  BY <1>1, <1>2, <1>4, <1>5, PlainQuiet

LEMMA RequestQuiet ==
  ASSUME DiskInv, QuietInv, NEW d \in Device, NEW e \in Device, ReceiveRequest(d, e)
  PROVE  QuietInv' /\ Stays(d)
<1> DEFINE frame == Head(wire[e][d])
           r == frame.resource
           ops == Resume(disk[d], r)
           D == Run(disk[d], ops)
           sends == IF Known(D, r) /\ Complete(D, r)
                    THEN To(e, ChunkFrames(r, frame.chunks, D[Object(r)]))
                    ELSE Nothing
<1>1. Arrives(d, e, "request") /\ Handles(d, e, ops, row[d].status, sends)
  BY DEF ReceiveRequest, Each, ChunkFrames
<1>2. /\ wire[e][d] # <<>> /\ registered' = registered
      /\ frame \in GoodFrame /\ frame.type = "request"
  BY <1>1, ArrivesTyped DEF Arrives
<1>3. frame \in Allowed(e, d)
  <2>1. wire[e][d] \in Seq(Allowed(e, d)) /\ wire[e][d] # <<>>
    BY <1>2 DEF QuietInv
  <2>2. QED
    BY <2>1
<1>4. ~Dropped(e, r)
  BY <1>2, <1>3 DEF Allowed
<1>5. r \in Resource /\ frame.chunks \in SUBSET Chunk
  BY <1>2, FrameFields
<1> HIDE DEF frame
<1>6. ops \in Seq(Writing({}))
  <2>1. disk[d] \in Files
    BY Typed
  <2>2. ops \in Seq(Tidying(disk[d]))
    BY <1>5, <2>1, ResumeOps
  <2> HIDE DEF ops
  <2>3. QED
    BY <2>2, DeleteWriting
<1> HIDE DEF ops, r, D
<1>7. ASSUME NEW f \in Device
      PROVE  sends[f] \in Seq(Sendable(f, row[d].status, registered))
  <2>1. CASE f = e /\ Known(D, r) /\ Complete(D, r)
    <3> DEFINE c == ChunkFrames(r, frame.chunks, "good")
    <3>1. sends[f] = c
      BY <2>1 DEF To, Nothing, Complete, Verified
    <3>2. /\ c \in Seq(GoodFrame)
          /\ \A k \in 1..Len(c) : c[k].type = "chunk" /\ c[k].resource = r
      BY <1>5, ChunksGood
    <3> HIDE DEF c
    <3>3. \A k \in 1..Len(c) : c[k] \in Sendable(f, row[d].status, registered)
      BY <1>4, <2>1, <3>2 DEF Sendable
    <3>4. c \in Seq(Sendable(f, row[d].status, registered))
      BY <3>2, <3>3
    <3> HIDE DEF sends
    <3>5. QED
      BY <3>1, <3>4
  <2>2. CASE ~(f = e /\ Known(D, r) /\ Complete(D, r))
    <3>1. sends[f] = <<>>
      BY <2>2 DEF To, Nothing
    <3>2. QED
      BY <3>1, Empty, ZenonT(40)
  <2>3. QED
    BY <2>1, <2>2
<1> HIDE DEF sends
<1>8. QED
  BY <1>1, <1>2, <1>6, <1>7, PlainQuiet

LEMMA BatchQuiet ==
  ASSUME DiskInv, QuietInv, NEW d \in Device, NEW e \in Device, ReceiveBatch(d, e)
  PROVE  QuietInv' /\ Stays(d)
<1> DEFINE new == Head(wire[e][d]).events \ Events(d)
           begun == Records(disk[d], new)
           D1 == Run(disk[d], begun)
           statuses == [r \in Resource |->
                          IF r \in new THEN Settled(D1, r) ELSE row[d].status[r]]
           resumed == Resumes(D1, Pending(statuses))
           D2 == Run(D1, resumed)
           st == Asked(D2, statuses, Pending(statuses))
           sends == To(e, Requests(D2, Pending(statuses)))
<1>1. Arrives(d, e, "batch") /\ Handles(d, e, begun \o resumed, st, sends)
  BY ZenonT(40) DEF ReceiveBatch, ForEach, Records, Resumes
<1>2. /\ wire[e][d] # <<>> /\ registered' = registered
      /\ Head(wire[e][d]) \in GoodFrame /\ Head(wire[e][d]).type = "batch"
  BY <1>1, ArrivesTyped DEF Arrives
<1>3. disk[d] \in Files /\ row[d].status \in [Resource -> Status]
  BY Typed
<1>4. /\ new \in SUBSET Resource /\ new \subseteq registered
      /\ \A r \in Events(d) : r \notin new
  <2>1. wire[e][d] \in Seq(Allowed(e, d)) /\ wire[e][d] # <<>>
    BY <1>2 DEF QuietInv
  <2>2. Head(wire[e][d]) \in Allowed(e, d)
    BY <2>1
  <2>3. QED
    BY <1>2, <2>2, FrameFields DEF Allowed
<1> HIDE DEF new
<1>5. Gentle(disk[d], begun) /\ begun \in Seq(Writing(Announced(new)))
  BY <1>3, <1>4, RecordsDo, RecordsWriting
<1>6. D1 \in Files
  BY <1>5 DEF Gentle, Keeps
<1> HIDE DEF begun, D1
<1>7. /\ statuses \in [Resource -> Status] /\ Pending(statuses) \in SUBSET Resource
      /\ \A r \in Resource : statuses[r] = "cancelled" =>
           row[d].status[r] = "cancelled" /\ r \notin new
      /\ \A r \in Events(d) : statuses[r] = row[d].status[r]
  BY <1>3, <1>4 DEF Status, Settled, Pending, Events
<1>8. \A r \in Pending(statuses) : statuses[r] = "pending"
  BY DEF Pending
<1> HIDE DEF statuses
<1>9. resumed \in Seq(Writing(Announced(new)))
  BY <1>6, <1>7, ResumesOps, DeleteWriting
<1> HIDE DEF resumed, D2
<1>10. /\ st \in [Resource -> Status]
       /\ \A r \in Resource : st[r] = "cancelled" => statuses[r] = "cancelled"
       /\ \A r \in Resource : statuses[r] = "cancelled" => st[r] = "cancelled"
       /\ \A r \in Pending(statuses) : st[r] # "cancelled"
  BY <1>7, <1>8 DEF Asked, Status
<1> HIDE DEF st
<1>11. ASSUME NEW f \in Device PROVE sends[f] \in Seq(Sendable(f, st, registered'))
  <2>1. Requests(D2, Pending(statuses)) \in Seq(Sendable(f, st, registered'))
    BY <1>7, <1>10, RequestsSendable
  <2>2. sends[f] = Requests(D2, Pending(statuses)) \/ sends[f] = <<>>
    BY DEF To, Nothing
  <2> HIDE DEF sends
  <2>3. QED
    BY <2>1, <2>2, Empty
<1> HIDE DEF sends
<1>12. begun \o resumed \in Seq(Writing(Announced(new)))
  BY <1>5, <1>9, Concat
<1>13. \A r \in Resource : st[r] = "cancelled" =>
         row[d].status[r] = "cancelled" /\ Manifest(r) \notin Announced(new)
  BY <1>4, <1>7, <1>10, FileKinds DEF Announced
<1>14. \A r \in Resource : Event(r) \in Announced(new) => r \in registered'
  <2>1. ASSUME NEW r \in Resource, Event(r) \in Announced(new)
        PROVE  r \in new
    BY <1>4, <2>1, FileKinds, WhoseFile DEF Announced, Own
  <2>2. QED
    BY <1>2, <1>4, <2>1
<1>15. \A r \in Resource : row[d].status[r] = "cancelled" /\ r \in Events(d) =>
         st[r] = "cancelled"
  BY <1>7, <1>10
<1>16. QED
  BY <1>1, <1>2, <1>10, <1>11, <1>12, <1>13, <1>14, <1>15, HandlesQuiet, ZenonT(40)

LEMMA ChunkQuiet ==
  ASSUME DiskInv, QuietInv, NEW d \in Device, NEW e \in Device, ReceiveChunk(d, e)
  PROVE  QuietInv' /\ Stays(d)
<1> DEFINE frame == Head(wire[e][d])
           r == frame.resource
<1>1. /\ Arrives(d, e, "chunk")
      /\ \/ Known(disk[d], r) /\ TakeChunk(d, e, r, frame.index, frame.bytes)
         \/ Handles(d, e, <<>>, row[d].status, Nothing)
  BY DEF ReceiveChunk
<1>2. /\ wire[e][d] # <<>> /\ registered' = registered
      /\ frame \in GoodFrame /\ frame.type = "chunk"
  BY <1>1, ArrivesTyped DEF Arrives
<1>3. disk[d] \in Files /\ row[d].status \in [Resource -> Status]
  BY Typed
<1>4. r \in Resource /\ frame.index \in Chunk /\ frame.bytes = "good"
  BY <1>2, FrameFields
<1>5. ~Dropped(d, r)
  <2>1. wire[e][d] \in Seq(Allowed(e, d)) /\ wire[e][d] # <<>>
    BY <1>2 DEF QuietInv
  <2>2. frame \in Allowed(e, d)
    BY <2>1
  <2>3. QED
    BY <1>2, <2>2 DEF Allowed
<1>6. \A f \in Device : \A st, R : Nothing[f] \in Seq(Sendable(f, st, R))
  BY Empty DEF Nothing
<1> HIDE DEF frame
<1>7. CASE Handles(d, e, <<>>, row[d].status, Nothing)
  <2>1. PICK W : /\ <<>> \in Seq(Writing(W))
                 /\ \A s \in Resource : Manifest(s) \notin W /\ Event(s) \notin W
    BY NoWrites
  <2>2. \A f \in Device : Nothing[f] \in Seq(Sendable(f, row[d].status, registered))
    BY <1>6
  <2>3. QED
    BY <1>2, <1>7, <2>1, <2>2, PlainQuiet
<1>8. CASE Known(disk[d], r) /\ TakeChunk(d, e, r, frame.index, frame.bytes)
  <2> DEFINE i == frame.index
             ops == Takes(disk[d], r, i)
             D2 == Taken(disk[d], r, i)
             s0 == Settled(Run(D2, Finishes(D2, r)), r)
             st == [row[d].status EXCEPT ![r] = IF @ = "none" THEN @ ELSE s0]
  <2>1. Handles(d, e, ops, st, Nothing)
    BY <1>4, <1>8 DEF TakeChunk, Finishes, Takes, Taken
  <2>2. ops \in Seq(Writing(Bodies(r)))
    BY <1>3, <1>4, TakesWriting
  <2> HIDE DEF ops
  <2>3. s0 \in {"available", "pending"}
    BY DEF Settled
  <2> HIDE DEF s0
  <2>4. row[d].status[r] # "cancelled"
    BY <1>5, <1>8 DEF Dropped
  <2>5. /\ st \in [Resource -> Status]
        /\ \A s \in Resource : st[s] = "cancelled" <=> row[d].status[s] = "cancelled"
    BY <1>3, <1>4, <2>3, <2>4 DEF Status
  <2> HIDE DEF st
  <2>6. \A s \in Resource : Manifest(s) \notin Bodies(r) /\ Event(s) \notin Bodies(r)
    BY <1>4, WhoseFile
  <2>7. QED
    BY <1>2, <1>6, <2>1, <2>2, <2>5, <2>6, HandlesQuiet
<1>9. QED
  BY <1>1, <1>7, <1>8

(* What a device has on disk after operations, of what they do not write, it *)
(* had before.                                                               *)
LEMMA OldFiles ==
  ASSUME DiskInv, QuietInv, NEW d \in Device, NEW W, NEW ops \in Seq(Writing(W)),
         \A r \in Resource : Event(r) \notin W
  PROVE  /\ Run(disk[d], ops) \in Files
         /\ \A r \in Resource : Run(disk[d], ops)[Event(r)] = "good" => r \in registered
         /\ \A r \in Resource : Manifest(r) \notin W /\ Known(Run(disk[d], ops), r) =>
              Known(disk[d], r)
<1> DEFINE X == Run(disk[d], ops)
<1>1. disk[d] \in Files /\ ops \in Seq(Op)
  <2>1. Writing(W) \subseteq Op
    BY DEF Writing
  <2>2. QED
    BY <2>1, Typed
<1>2. X \in Files
  BY <1>1, RunValue
<1>3. ASSUME NEW f \in File \ W, X[f] = "good"
      PROVE  disk[d][f] = "good"
  BY <1>1, <1>3, NotWritten
<1> HIDE DEF X
<1>4. ASSUME NEW r \in Resource, X[Event(r)] = "good"
      PROVE  r \in registered
  <2>1. Event(r) \in File \ W
    BY FileKinds
  <2>2. disk[d][Event(r)] = "good"
    BY <1>3, <1>4, <2>1
  <2>3. QED
    BY <2>2 DEF QuietInv, Events
<1>5. ASSUME NEW r \in Resource, Manifest(r) \notin W, Known(X, r)
      PROVE  Known(disk[d], r)
  <2>1. Manifest(r) \in File \ W
    BY <1>5, FileKinds
  <2>2. QED
    BY <1>3, <1>5, <2>1 DEF Known
<1>6. QED
  BY <1>2, <1>4, <1>5 DEF X

(* An action of d outside the handlers: connections may lose their frames,   *)
(* and d may send.                                                           *)
LEMMA ActsQuiet ==
  ASSUME DiskInv, QuietInv, NEW d \in Device, NEW X \in Files,
         NEW st \in [Resource -> Status],
         disk' = [disk EXCEPT ![d] = X],
         row'[d].status = st, \A e \in Device : e # d => row'[e] = row[e],
         registered' = registered,
         \A r \in Resource : st[r] = "cancelled" /\ Known(X, r) => Dropped(d, r),
         \A r \in Resource : X[Event(r)] = "good" => r \in registered,
         \A e, f \in Device :
           \/ wire'[e][f] = wire[e][f]
           \/ wire'[e][f] = <<>>
           \/ e = d /\ \E q \in Seq(Sendable(f, st, registered)) : wire'[e][f] = wire[e][f] \o q,
         \A r \in Resource : row[d].status[r] = "cancelled" /\ r \in Events(d) =>
           st[r] = "cancelled" \/ RetryResource(d, r) \/ Leave(d)
  PROVE  QuietInv' /\ Stays(d)
<1>1. /\ \A e \in Device : Events(e)' \subseteq registered'
      /\ \A e \in Device, r \in Resource : Dropped(e, r)' => Dropped(e, r)
      /\ \A e, f \in Device : wire[e][f] \in Seq(Allowed(e, f)')
  BY StillAllowed
<1>2. ASSUME NEW e \in Device, NEW f \in Device
      PROVE  wire'[e][f] \in Seq(Allowed(e, f)')
  <2>1. CASE wire'[e][f] = wire[e][f]
    BY <1>1, <2>1
  <2>2. CASE wire'[e][f] = <<>>
    BY <2>2, Empty
  <2>3. ASSUME e = d, NEW q \in Seq(Sendable(f, st, registered)),
               wire'[e][f] = wire[e][f] \o q
        PROVE  wire'[e][f] \in Seq(Allowed(e, f)')
    <3>1. q \in Seq(Sendable(f, st, registered'))
      BY <2>3
    <3>2. q \in Seq(Allowed(d, f)')
      BY <1>1, <3>1, SendableAllowed
    <3>3. wire[d][f] \in Seq(Allowed(d, f)')
      BY <1>1
    <3>4. QED
      BY <2>3, <3>2, <3>3, Concat
  <2>4. QED
    BY <2>1, <2>2, <2>3
<1>3. QED
  BY <1>1, <1>2 DEF QuietInv, Stays

LEMMA CancelQuiet ==
  ASSUME DiskInv, QuietInv, NEW d \in Device, NEW r \in Resource, CancelResource(d, r)
  PROVE  QuietInv' /\ Stays(d)
<1> DEFINE st == [row[d].status EXCEPT ![r] = "cancelled"]
           X == Run(disk[d], Cancel(r))
<1>1. disk[d] \in Files /\ row[d].status \in [Resource -> Status]
  BY Typed
<1>2. registered' = registered
  BY DEF CancelResource
<1>3. PICK W : W = {}
  OBVIOUS
<1>4. Cancel(r) \in Seq(Writing(W))
  BY <1>3, CancelWriting
<1>5. /\ X \in Files
      /\ \A s \in Resource : X[Event(s)] = "good" => s \in registered
      /\ \A s \in Resource : Known(X, s) => Known(disk[d], s)
  BY <1>3, <1>4, OldFiles
<1>6. ~Known(X, r)
  BY <1>1, CancelOps
<1>7. CASE Dies(d, Cancel(r))
  BY <1>2, <1>3, <1>4, <1>7, DiesQuiet
<1>8. CASE /\ disk' = [disk EXCEPT ![d] = Run(@, Cancel(r))]
           /\ row' = [row EXCEPT ![d].status[r] = "cancelled"]
           /\ wire' = wire
  <2>1. disk' = [disk EXCEPT ![d] = X]
    BY <1>8
  <2>2. row'[d].status = st /\ \A e \in Device : e # d => row'[e] = row[e]
    BY <1>8 DEF DiskInv, TypeOK, Row
  <2>3. /\ st \in [Resource -> Status]
        /\ \A s \in Resource : s # r => st[s] = row[d].status[s]
        /\ \A s \in Resource : row[d].status[s] = "cancelled" => st[s] = "cancelled"
    BY <1>1 DEF Status
  <2> HIDE DEF st, X
  <2>4. \A s \in Resource : st[s] = "cancelled" /\ Known(X, s) => Dropped(d, s)
    BY <1>5, <1>6, <2>3 DEF Dropped
  <2>5. \A e, f \in Device : wire'[e][f] = wire[e][f]
    BY <1>8
  <2>6. QED
    BY <1>2, <1>5, <2>1, <2>2, <2>3, <2>4, <2>5, ActsQuiet, ZenonT(40)
<1>9. QED
  BY <1>7, <1>8 DEF CancelResource

LEMMA RetryQuiet ==
  ASSUME DiskInv, QuietInv, NEW d \in Device, NEW r \in Resource, RetryResource(d, r)
  PROVE  QuietInv' /\ Stays(d)
<1> DEFINE ops == Begin(disk[d], r)
           X == Run(disk[d], ops)
           st == [row[d].status EXCEPT ![r] = Settled(X, r)]
           sends == ToAll(d, Requests(X, {r}))
           W == {Manifest(r)}
<1>1. disk[d] \in Files /\ row[d].status \in [Resource -> Status]
  BY Typed
<1>2. registered' = registered
  BY DEF RetryResource
<1>3. ops \in Seq(Writing(W))
  BY <1>1, BeginWriting
<1>4. \A s \in Resource : Event(s) \notin W /\ (s # r => Manifest(s) \notin W)
  BY FileKinds, WhoseFile DEF Own
<1>5. \/ Dies(d, ops)
      \/ /\ disk' = [disk EXCEPT ![d] = X]
         /\ row' = [row EXCEPT ![d].status[r] = Settled(X, r)]
         /\ wire' = [wire EXCEPT ![d] = [e \in Device |-> @[e] \o sends[e]]]
  BY DEF RetryResource
<1> HIDE DEF ops, W
<1>6. /\ X \in Files
      /\ \A s \in Resource : X[Event(s)] = "good" => s \in registered
      /\ \A s \in Resource : s # r /\ Known(X, s) => Known(disk[d], s)
  BY <1>3, <1>4, OldFiles
<1> HIDE DEF X
<1>7. CASE Dies(d, ops)
  BY <1>2, <1>3, <1>4, <1>7, DiesQuiet
<1>8. CASE /\ disk' = [disk EXCEPT ![d] = X]
           /\ row' = [row EXCEPT ![d].status[r] = Settled(X, r)]
           /\ wire' = [wire EXCEPT ![d] = [e \in Device |-> @[e] \o sends[e]]]
  <2>1. row'[d].status = st /\ \A e \in Device : e # d => row'[e] = row[e]
    BY <1>8 DEF DiskInv, TypeOK, Row
  <2>2. /\ st \in [Resource -> Status] /\ st[r] # "cancelled"
        /\ \A s \in Resource : s # r => st[s] = row[d].status[s]
    BY <1>1 DEF Status, Settled
  <2> HIDE DEF st
  <2>3. \A s \in Resource : st[s] = "cancelled" /\ Known(X, s) => Dropped(d, s)
    BY <1>6, <2>2 DEF Dropped
  <2>4. ASSUME NEW f \in Device
        PROVE  sends[f] \in Seq(Sendable(f, st, registered))
    <3>1. {r} \in SUBSET Resource /\ \A s \in {r} : st[s] # "cancelled"
      BY <2>2
    <3>2. Requests(X, {r}) \in Seq(Sendable(f, st, registered))
      BY <3>1, RequestsSendable
    <3>3. QED
      BY <3>2, Empty DEF ToAll
  <2> HIDE DEF sends
  <2>5. ASSUME NEW e \in Device, NEW f \in Device
        PROVE  \/ wire'[e][f] = wire[e][f]
               \/ wire'[e][f] = <<>>
               \/ e = d /\ \E q \in Seq(Sendable(f, st, registered)) :
                             wire'[e][f] = wire[e][f] \o q
    <3>1. CASE e = d
      <4>1. wire'[d] = [g \in Device |-> wire[d][g] \o sends[g]]
        BY <1>8 DEF DiskInv, Wires
      <4>2. wire'[d][f] = wire[d][f] \o sends[f]
        BY <4>1
      <4>3. QED
        BY <2>4, <3>1, <4>2
    <3>2. CASE e # d
      BY <1>8, <3>2 DEF DiskInv, Wires
    <3>3. QED
      BY <3>1, <3>2
  <2>6. \A s \in Resource : row[d].status[s] = "cancelled" /\ s \in Events(d) =>
           st[s] = "cancelled" \/ RetryResource(d, s) \/ Leave(d)
    BY <2>2
  <2>7. QED
    BY <1>2, <1>6, <1>8, <2>1, <2>2, <2>3, <2>5, <2>6, ActsQuiet
<1>9. QED
  BY <1>5, <1>7, <1>8

LEMMA LeaveQuiet ==
  ASSUME DiskInv, QuietInv, NEW d \in Device, Leave(d)
  PROVE  QuietInv' /\ Stays(d)
<1> DEFINE ops == Leaves(disk[d], Listed(d))
           X == Run(disk[d], ops)
           gone == [Fresh EXCEPT !.member = FALSE]
           st == gone.status
<1>1. disk[d] \in Files /\ Listed(d) \in SUBSET Resource
  BY Typed DEF Listed
<1>2. registered' = registered
  BY DEF Leave
<1>3. PICK W : W = {}
  OBVIOUS
<1>4. ops \in Seq(Writing(W))
  BY <1>1, <1>3, LeavesWriting
<1>5. \/ Dies(d, ops)
      \/ /\ disk' = [disk EXCEPT ![d] = X]
         /\ row' = [row EXCEPT ![d] = gone]
         /\ Broken(Touching(d))
  BY DEF Leave, ForEach, Leaves, Cancels
<1> HIDE DEF ops
<1>6. /\ X \in Files
      /\ \A s \in Resource : X[Event(s)] = "good" => s \in registered
  BY <1>3, <1>4, OldFiles
<1> HIDE DEF X
<1>7. CASE Dies(d, ops)
  BY <1>2, <1>3, <1>4, <1>7, DiesQuiet
<1>8. CASE /\ disk' = [disk EXCEPT ![d] = X]
           /\ row' = [row EXCEPT ![d] = gone]
           /\ Broken(Touching(d))
  <2>1. st \in [Resource -> Status] /\ \A r \in Resource : st[r] = "none"
    BY DEF Fresh, Status
  <2> HIDE DEF gone
  <2>2. row'[d].status = st /\ \A e \in Device : e # d => row'[e] = row[e]
    BY <1>8 DEF DiskInv, TypeOK
  <2> HIDE DEF st
  <2>3. \A e, f \in Device : wire'[e][f] = wire[e][f] \/ wire'[e][f] = <<>>
    BY <1>8 DEF Broken
  <2>4. \A r \in Resource : st[r] = "cancelled" /\ Known(X, r) => Dropped(d, r)
    BY <2>1
  <2>5. disk' = [disk EXCEPT ![d] = X]
    BY <1>8
  <2>6. \A r \in Resource : row[d].status[r] = "cancelled" /\ r \in Events(d) =>
          st[r] = "cancelled" \/ RetryResource(d, r) \/ Leave(d)
    OBVIOUS
  <2>7. st \in [Resource -> Status]
    BY <2>1
  <2>8. \A e, f \in Device :
          \/ wire'[e][f] = wire[e][f]
          \/ wire'[e][f] = <<>>
          \/ e = d /\ \E q \in Seq(Sendable(f, st, registered)) : wire'[e][f] = wire[e][f] \o q
    BY <2>3
  <2>9. QED
    BY <1>2, <1>6, <2>2, <2>4, <2>5, <2>6, <2>7, <2>8, ActsQuiet
<1>9. QED
  BY <1>5, <1>7, <1>8

(* A step that leaves disks and statuses as they are, and at most empties    *)
(* connections.                                                              *)
LEMMA StillQuiet ==
  ASSUME DiskInv, QuietInv, NEW d \in Device, disk' = disk, registered' = registered,
         \A e \in Device : row'[e].status = row[e].status,
         \A e, f \in Device : wire'[e][f] = wire[e][f] \/ wire'[e][f] = <<>>
  PROVE  QuietInv' /\ Stays(d)
<1>1. \A e \in Device : \A r : Dropped(e, r)' <=> Dropped(e, r)
  BY DEF Dropped, Known
<1>2. ASSUME NEW e \in Device, NEW f \in Device
      PROVE  wire'[e][f] \in Seq(Allowed(e, f)')
  <2>1. Allowed(e, f)' = Allowed(e, f)
    BY <1>1 DEF Allowed
  <2>2. wire[e][f] \in Seq(Allowed(e, f))
    BY DEF QuietInv
  <2>3. QED
    BY <2>1, <2>2, Empty
<1>3. \A e \in Device : Events(e)' \subseteq registered'
  BY DEF QuietInv, Events
<1>4. QED
  BY <1>2, <1>3 DEF QuietInv, Stays

LEMMA RejoinQuiet ==
  ASSUME DiskInv, QuietInv, NEW d \in Device, Rejoin(d)
  PROVE  QuietInv' /\ Stays(d)
<1>1. \A e \in Device : row'[e].status = row[e].status
  BY DEF Rejoin, DiskInv, TypeOK, Row
<1>2. QED
  BY <1>1, StillQuiet DEF Rejoin

LEMMA DisconnectQuiet ==
  ASSUME DiskInv, QuietInv, NEW d \in Device, NEW e \in Device, Disconnect(d, e)
  PROVE  QuietInv' /\ Stays(d)
<1>1. \A f, g \in Device : wire'[f][g] = wire[f][g] \/ wire'[f][g] = <<>>
  BY DEF Disconnect, Broken
<1>2. QED
  BY <1>1, StillQuiet DEF Disconnect

LEMMA CrashQuiet ==
  ASSUME DiskInv, QuietInv, NEW d \in Device, Crash(d)
  PROVE  QuietInv' /\ Stays(d)
<1>1. PICK W : W = {}
  OBVIOUS
<1>2. <<>> \in Seq(Writing(W))
  BY Empty
<1>3. Dies(d, <<>>) /\ registered \subseteq registered'
  BY DEF Crash
<1>4. \A r \in Resource : Event(r) \in W => r \in registered'
  BY <1>1
<1>5. QED
  BY <1>2, <1>3, <1>4, DiesQuiet

LEMMA DamageQuiet ==
  ASSUME DiskInv, QuietInv, NEW d \in Device, NEW f \in File, Damage(d, f)
  PROVE  QuietInv' /\ Stays(d)
<1> DEFINE X == [disk[d] EXCEPT ![f] = "bad"]
<1>1. disk[d] \in Files /\ row[d].status \in [Resource -> Status]
  BY Typed
<1>2. disk' = [disk EXCEPT ![d] = X] /\ UNCHANGED <<registered, row, wire>>
  BY DEF Damage
<1>3. X \in Files /\ \A g \in File : X[g] = "good" => disk[d][g] = "good"
  BY <1>1 DEF Files
<1> HIDE DEF X
<1>4. \A r \in Resource : /\ Known(X, r) => Known(disk[d], r)
                          /\ X[Event(r)] = "good" => r \in Events(d)
  BY <1>3, FileKinds DEF Known, Events
<1>5. /\ \A r \in Resource : X[Event(r)] = "good" => r \in registered
      /\ \A r \in Resource : row[d].status[r] = "cancelled" /\ Known(X, r) => Dropped(d, r)
  BY <1>4 DEF QuietInv, Dropped
<1>6. QED
  BY <1>1, <1>2, <1>3, <1>5, ActsQuiet

LEMMA AuthenticateQuiet ==
  ASSUME DiskInv, QuietInv, NEW d \in Device, NEW e \in Device, Authenticate(d, e)
  PROVE  QuietInv' /\ Stays(d)
<1> DEFINE waiting == Pending(row[d].status)
           ops == Resumes(disk[d], waiting)
           X == Run(disk[d], ops)
           st == Asked(X, row[d].status, waiting)
           q == <<DigestFrame(Events(d))>> \o Requests(X, waiting)
<1>1. disk[d] \in Files /\ row[d].status \in [Resource -> Status]
  BY Typed
<1>2. registered' = registered
  BY SMTT(30) DEF Authenticate
<1>3. /\ waiting \in SUBSET Resource
      /\ \A r \in waiting : row[d].status[r] = "pending"
  BY SMTT(30) DEF Pending
<1>4. \/ Dies(d, ops)
      \/ /\ disk' = [disk EXCEPT ![d] = X]
         /\ row' = [row EXCEPT ![d].status = Asked(X, @, waiting)]
         /\ wire' = [wire EXCEPT ![d][e] =
                       @ \o <<DigestFrame(Events(d))>> \o Requests(X, waiting)]
  BY DEF Authenticate, ForEach, Resumes
<1> HIDE DEF waiting
<1>5. PICK W : W = {}
  OBVIOUS
<1>6. ops \in Seq(Writing(W))
  BY <1>1, <1>3, ResumesOps, DeleteWriting
<1> HIDE DEF ops
<1>7. /\ X \in Files
      /\ \A r \in Resource : X[Event(r)] = "good" => r \in registered
      /\ \A r \in Resource : Known(X, r) => Known(disk[d], r)
  BY <1>5, <1>6, OldFiles
<1> HIDE DEF X
<1>8. CASE Dies(d, ops)
  BY <1>2, <1>5, <1>6, <1>8, DiesQuiet
<1>9. CASE /\ disk' = [disk EXCEPT ![d] = X]
           /\ row' = [row EXCEPT ![d].status = Asked(X, @, waiting)]
           /\ wire' = [wire EXCEPT ![d][e] =
                         @ \o <<DigestFrame(Events(d))>> \o Requests(X, waiting)]
  <2>1. row'[d].status = st /\ \A f \in Device : f # d => row'[f] = row[f]
    BY <1>9 DEF DiskInv, TypeOK, Row
  <2>2. /\ st \in [Resource -> Status]
        /\ \A r \in Resource : st[r] = "cancelled" <=> row[d].status[r] = "cancelled"
    BY <1>1, <1>3 DEF Asked, Status
  <2>3. \A r \in waiting : st[r] # "cancelled"
    BY <1>3, <2>2
  <2> HIDE DEF st
  <2>4. q \in Seq(Sendable(e, st, registered))
    <3>1. Events(d) \in SUBSET Resource /\ Events(d) \subseteq registered
      BY DEF Events, QuietInv
    <3>2. <<DigestFrame(Events(d))>> \in Seq(Sendable(e, st, registered))
      BY <3>1, BatchSendable
    <3>3. Requests(X, waiting) \in Seq(Sendable(e, st, registered))
      BY <1>3, <2>3, RequestsSendable
    <3>4. QED
      BY <3>2, <3>3, Concat
  <2>5. wire'[d][e] = wire[d][e] \o q
    <3>1. wire'[d][e] = wire[d][e] \o <<DigestFrame(Events(d))>> \o Requests(X, waiting)
      BY <1>9 DEF DiskInv, Wires
    <3>2. /\ wire[d][e] \in Seq(GoodFrame)
          /\ <<DigestFrame(Events(d))>> \in Seq(GoodFrame)
          /\ Requests(X, waiting) \in Seq(GoodFrame)
      BY <1>3, Typed, BatchGood, RequestsGood DEF Events
    <3>3. \A a, b, c \in Seq(GoodFrame) : (a \o b) \o c = a \o (b \o c)
      OBVIOUS
    <3>4. QED
      BY <3>1, <3>2, <3>3
  <2> HIDE DEF q
  <2>6. \A f, g \in Device : f # d \/ g # e => wire'[f][g] = wire[f][g]
    BY <1>9 DEF DiskInv, Wires
  <2>7. \A f, g \in Device :
          \/ wire'[f][g] = wire[f][g]
          \/ wire'[f][g] = <<>>
          \/ f = d /\ \E p \in Seq(Sendable(g, st, registered)) : wire'[f][g] = wire[f][g] \o p
    BY <2>4, <2>5, <2>6
  <2>8. \A r \in Resource : st[r] = "cancelled" /\ Known(X, r) => Dropped(d, r)
    BY <1>7, <2>2 DEF Dropped
  <2>9. \A r \in Resource : row[d].status[r] = "cancelled" /\ r \in Events(d) =>
          st[r] = "cancelled" \/ RetryResource(d, r) \/ Leave(d)
    BY <2>2
  <2>10. disk' = [disk EXCEPT ![d] = X] /\ st \in [Resource -> Status]
    BY <1>9, <2>2
  <2>11. QED
    BY <1>2, <1>7, <2>1, <2>7, <2>8, <2>9, <2>10, ActsQuiet
<1>10. QED
  BY <1>4, <1>8, <1>9

LEMMA RestartQuiet ==
  ASSUME DiskInv, QuietInv, NEW d \in Device, Restart(d)
  PROVE  QuietInv' /\ Stays(d)
<1> DEFINE kept == Restarted(d)
           ops == Begins(disk[d], kept)
           X == Run(disk[d], ops)
           st == [r \in Resource |-> IF r \in kept THEN Settled(X, r) ELSE row[d].status[r]]
           W == {Manifest(r) : r \in kept}
<1>1. disk[d] \in Files /\ row[d].status \in [Resource -> Status]
  BY Typed
<1>2. registered' = registered
  BY DEF Restart
<1>3. /\ kept \in SUBSET Resource
      /\ \A r \in kept : row[d].status[r] # "cancelled"
  BY DEF Restarted, Listed
<1>4. \/ Dies(d, ops)
      \/ /\ disk' = [disk EXCEPT ![d] = X]
         /\ row' = [row EXCEPT ![d].status =
               [r \in Resource |-> IF r \in kept THEN Settled(X, r) ELSE @[r]]]
         /\ wire' = wire
  BY DEF Restart, ForEach, Begins
<1> HIDE DEF kept
<1>5. ops \in Seq(Writing(W))
  BY <1>1, <1>3, BeginsWriting
<1>6. \A r \in Resource : Event(r) \notin W /\ (Manifest(r) \in W => r \in kept)
  BY <1>3, FileKinds, WhoseFile DEF Own
<1> HIDE DEF ops, W
<1>7. /\ X \in Files
      /\ \A r \in Resource : X[Event(r)] = "good" => r \in registered
      /\ \A r \in Resource : r \notin kept /\ Known(X, r) => Known(disk[d], r)
  BY <1>5, <1>6, OldFiles
<1>8. CASE Dies(d, ops)
  BY <1>2, <1>5, <1>6, <1>8, DiesQuiet
<1> HIDE DEF X
<1>9. CASE /\ disk' = [disk EXCEPT ![d] = X]
           /\ row' = [row EXCEPT ![d].status =
                 [r \in Resource |-> IF r \in kept THEN Settled(X, r) ELSE @[r]]]
           /\ wire' = wire
  <2>1. row'[d].status = st /\ \A e \in Device : e # d => row'[e] = row[e]
    BY <1>9 DEF DiskInv, TypeOK, Row
  <2>2. /\ st \in [Resource -> Status]
        /\ \A r \in Resource : r \notin kept => st[r] = row[d].status[r]
        /\ \A r \in kept : st[r] # "cancelled"
    BY <1>1, <1>3 DEF Settled, Status
  <2> HIDE DEF st
  <2>3. \A r \in Resource : st[r] = "cancelled" <=> row[d].status[r] = "cancelled"
    BY <1>3, <2>2
  <2>4. \A r \in Resource : st[r] = "cancelled" /\ Known(X, r) => Dropped(d, r)
    BY <1>7, <2>2, <2>3 DEF Dropped
  <2>5. \A e, f \in Device : wire'[e][f] = wire[e][f]
    BY <1>9
  <2>6. \A r \in Resource : row[d].status[r] = "cancelled" /\ r \in Events(d) =>
          st[r] = "cancelled" \/ RetryResource(d, r) \/ Leave(d)
    BY <2>3
  <2>7. disk' = [disk EXCEPT ![d] = X] /\ st \in [Resource -> Status]
    BY <1>9, <2>2
  <2>8. QED
    BY <1>2, <1>7, <2>1, <2>4, <2>5, <2>6, <2>7, ActsQuiet
<1>10. QED
  BY <1>4, <1>8, <1>9

LEMMA InitQuiet ==
  Init => QuietInv
<1>1. SUFFICES ASSUME Init PROVE QuietInv
  OBVIOUS
<1>2. \A d, e \in Device : wire[d][e] = <<>>
  BY <1>1 DEF Init
<1>3. \A d, e \in Device : wire[d][e] \in Seq(Allowed(d, e))
  BY <1>2, Empty
<1>4. \A d \in Device : Events(d) = {}
  BY <1>1, FileKinds DEF Init, Events
<1>5. QED
  BY <1>3, <1>4 DEF QuietInv

LEMMA NextQuiet ==
  ASSUME DiskInv, QuietInv, [Next]_vars
  PROVE  /\ QuietInv'
         /\ UNCHANGED vars \/ \E d \in Device : Stays(d)
<1>1. CASE UNCHANGED vars
  BY <1>1 DEF vars, QuietInv, Events, Allowed, Dropped, Known
<1>2. ASSUME NEW d \in Device, NEW r \in Resource,
             RegisterMedia(d, r) \/ CancelResource(d, r) \/ RetryResource(d, r)
      PROVE  QuietInv' /\ Stays(d)
  BY <1>2, RegisterQuiet, CancelQuiet, RetryQuiet
<1>3. ASSUME NEW d \in Device, Leave(d) \/ Rejoin(d) \/ Crash(d) \/ Restart(d)
      PROVE  QuietInv' /\ Stays(d)
  BY <1>3, LeaveQuiet, RejoinQuiet, CrashQuiet, RestartQuiet
<1>4. ASSUME NEW d \in Device, NEW e \in Device,
             Authenticate(d, e) \/ Disconnect(d, e) \/ Receive(d, e)
      PROVE  QuietInv' /\ Stays(d)
  BY <1>4, AuthenticateQuiet, DisconnectQuiet, DigestQuiet, BatchQuiet, RequestQuiet, ChunkQuiet
     DEF Receive
<1>5. ASSUME NEW d \in Device, NEW f \in File, Damage(d, f)
      PROVE  QuietInv' /\ Stays(d)
  BY <1>5, DamageQuiet
<1>6. QED
  BY <1>1, <1>2, <1>3, <1>4, <1>5 DEF Next

LEMMA QuietGives ==
  ASSUME DiskInv, QuietInv, [Next]_vars, NEW d \in Device, NEW r \in Resource,
         row[d].status[r] = "cancelled", r \in Events(d)
  PROVE  row'[d].status[r] = "cancelled" \/ RetryResource(d, r) \/ Leave(d)
<1>1. CASE UNCHANGED vars
  BY <1>1 DEF vars
<1>2. ASSUME NEW e \in Device, Stays(e)
      PROVE  row'[d].status[r] = "cancelled" \/ RetryResource(d, r) \/ Leave(d)
  BY <1>2 DEF Stays
<1>3. QED
  BY <1>1, <1>2, NextQuiet

(* A cancelled transfer whose event is stored stays cancelled, whatever late *)
(* frames, connections and restarts come, until the user starts it again or  *)
(* leaves.                                                                   *)
THEOREM CancelledStay ==
  Spec => CancelledStays
<1>1. Init => QuietInv
  BY InitQuiet
<1>2. DiskInv /\ QuietInv /\ [Next]_vars => QuietInv'
  BY NextQuiet
<1>3. DiskInv /\ QuietInv /\ [Next]_vars =>
        \A d \in Device, r \in Resource :
          row[d].status[r] = "cancelled" /\ r \in Events(d) =>
            \/ row'[d].status[r] = "cancelled"
            \/ RetryResource(d, r)
            \/ Leave(d)
  BY QuietGives
<1>4. QED
  BY <1>1, <1>2, <1>3, AlwaysInv, PTL DEF Spec, CancelledStays
=============================================================================
