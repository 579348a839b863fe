------------------------- MODULE WeakRegistry_proofs -------------------------
(***************************************************************************)
(* WeakRegistry, for every finite memory: its counts, its lists and its    *)
(* records (CountsOwners, RegistryAgrees, RecordsFiled), that a target     *)
(* seen in a job stays (SeenStays), and that nothing is released twice     *)
(* (ReleasedOnce), of the programs that drop no WeakMap with a value that  *)
(* holds one of its keys.                                                  *)
(*                                                                         *)
(* RegistryInv is inductive. To the properties it adds what the stack of   *)
(* calls may be: walks of dead objects and drops of objects above a base   *)
(* that is one of a few (Stacked), of which a walk's or a drop's part can  *)
(* be replaced by others (a deal) while the base waits; the lists during   *)
(* a walk, where the head node outlives its entry by one call; and, under  *)
(* the drop of a map, a set of objects that has all that dies in it and no *)
(* key (Separate), without which an entry of that map could go twice.      *)
(***************************************************************************)
EXTENDS WeakRegistry, Filtering_proofs

-----------------------------------------------------------------------------
(* Counting.                                                               *)

\* A truth value counts once or not at all.
LEMMA OneNat == \A b \in BOOLEAN : One(b) \in {0, 1} /\ (One(b) = 0 <=> ~b)
  BY DEF One

\* Sets that differ in one element at most.
LEMMA CountPut ==
  ASSUME NEW A, NEW B, NEW a, IsFiniteSet(A), A \ {a} = B \ {a}
  PROVE  /\ IsFiniteSet(B) /\ Cardinality(A) \in Nat /\ Cardinality(B) \in Nat
         /\ Cardinality(A) + One(a \in B) = Cardinality(B) + One(a \in A)
<1>. DEFINE C == A \ {a}
<1>1. IsFiniteSet(C) /\ a \notin C
  BY FS_Subset
<1>2. /\ IsFiniteSet(C \cup {a}) /\ Cardinality(C \cup {a}) = Cardinality(C) + 1
      /\ Cardinality(C) \in Nat /\ Cardinality(C \cup {a}) \in Nat
  BY <1>1, FS_AddElement, FS_CardinalityType
<1>3. /\ A = IF a \in A THEN C \cup {a} ELSE C
      /\ B = IF a \in B THEN C \cup {a} ELSE C
  OBVIOUS
<1>. HIDE DEF C
<1>4. /\ Cardinality(A) = IF a \in A THEN Cardinality(C) + 1 ELSE Cardinality(C)
      /\ Cardinality(B) = IF a \in B THEN Cardinality(C) + 1 ELSE Cardinality(C)
      /\ IsFiniteSet(B)
  BY <1>1, <1>2, <1>3
<1>. QED
  BY <1>2, <1>4 DEF One

\* Occurrences of one value are entries of a set of one.
LEMMA TimesIn == \A c, s : Times(c, s) = CountIn(s, {c})
  BY DEF Times, CountIn

\* How often a value occurs in a sequence is a number, zero when it does not.
LEMMA TimesNat ==
  ASSUME NEW S, NEW s \in Seq(S), NEW c
  PROVE  /\ Times(c, s) \in Nat
         /\ Times(c, s) = 0 <=> \A i \in DOMAIN s : s[i] # c
         /\ Times(c, <<>>) = 0
  BY TimesIn, CountNat, CountEmpty

\* In a sequence of one.
LEMMA TimesOne ==
  ASSUME NEW e, NEW c
  PROVE  Times(c, <<e>>) = One(e = c)
<1>1. DOMAIN <<e>> = {1} /\ <<e>>[1] = e
  OBVIOUS
<1>2. CASE e = c
  <2>1. {i \in DOMAIN <<e>> : <<e>>[i] = c} = {1}
    BY <1>1, <1>2
  <2>. QED
    BY <1>2, <2>1, FS_Singleton DEF Times, One
<1>3. CASE e # c
  <2>1. {i \in DOMAIN <<e>> : <<e>>[i] = c} = {}
    BY <1>1, <1>3
  <2>. QED
    BY <1>3, <2>1, FS_EmptySet DEF Times, One
<1>. QED
  BY <1>2, <1>3

\* In two sequences, one behind the other.
LEMMA TimesConcat ==
  ASSUME NEW S, NEW s \in Seq(S), NEW t \in Seq(S), NEW c
  PROVE  Times(c, s \o t) = Times(c, s) + Times(c, t)
  BY TimesIn, CountConcat

\* With one more at the end.
LEMMA TimesAppend ==
  ASSUME NEW S, NEW s \in Seq(S), NEW e \in S, NEW c
  PROVE  Times(c, Append(s, e)) = Times(c, s) + One(e = c)
<1>1. <<e>> \in Seq(S)
  OBVIOUS
<1>2. Times(c, s \o <<e>>) = Times(c, s) + Times(c, <<e>>)
  BY <1>1, TimesConcat
<1>3. s \o <<e>> = Append(s, e)
  BY AppendOne
<1>. QED
  BY <1>2, <1>3, TimesOne

\* With the head gone.
LEMMA TimesTail ==
  ASSUME NEW S, NEW s \in Seq(S), s # <<>>, NEW c
  PROVE  Times(c, s) = Times(c, Tail(s)) + One(Head(s) = c)
<1>. DEFINE h == <<Head(s)>>
            t == Tail(s)
<1>1. h \in Seq(S) /\ t \in Seq(S) /\ s = h \o t
  OBVIOUS
<1>2. Times(c, h) = One(Head(s) = c)
  BY TimesOne
<1>. HIDE DEF h, t
<1>3. Times(c, h \o t) = Times(c, h) + Times(c, t)
  BY <1>1, TimesConcat
<1>4. Times(c, h) \in Nat /\ Times(c, t) \in Nat
  BY <1>1, TimesNat
<1>5. Times(c, s) = Times(c, h \o t)
  BY <1>1
<1>6. Times(c, s) = Times(c, t) + Times(c, h)
  BY <1>3, <1>4, <1>5
<1>. QED
  BY <1>2, <1>6 DEF t

\* A filter keeps as many as there were of what it keeps.
LEMMA TimesFilter ==
  ASSUME NEW S, NEW s \in Seq(S), NEW K, NEW c \in K
  PROVE  Times(c, Filter(s, K)) = Times(c, s)
<1>. DEFINE G == {r \in Seq(S) : Times(c, Filter(r, K)) = Times(c, r)}
<1>1. <<>> \in G
  BY FilterEmpty
<1>2. ASSUME NEW r \in Seq(S), NEW x \in S, r \in G
      PROVE  Append(r, x) \in G
  <2>1. Filter(r, K) \in Seq(S) /\ Append(r, x) \in Seq(S)
    BY FilterSeq
  <2>2. Filter(Append(r, x), K) = IF x \in K THEN Append(Filter(r, K), x) ELSE Filter(r, K)
    BY FilterAppend
  <2>3. Times(c, Append(r, x)) = Times(c, r) + One(x = c)
    BY TimesAppend
  <2>4. Times(c, Append(Filter(r, K), x)) = Times(c, Filter(r, K)) + One(x = c)
    BY <2>1, TimesAppend
  <2>5. Times(c, Filter(r, K)) = Times(c, r) /\ Times(c, r) \in Nat
    BY <1>2, TimesNat
  <2>6. x \notin K => One(x = c) = 0
    BY DEF One
  <2>7. Times(c, Filter(Append(r, x), K)) = Times(c, Append(r, x))
    BY <2>2, <2>3, <2>4, <2>5, <2>6
  <2>. QED
    BY <2>1, <2>7
<1>. HIDE DEF G
<1>3. Seq(S) \subseteq G
  BY <1>1, <1>2, SequenceInduction
<1>. QED
  BY <1>3 DEF G

\* Nothing is there twice.
Once(s) == \A i, j \in DOMAIN s : s[i] = s[j] => i = j

\* In a sequence that repeats nothing.
LEMMA TimesOnce ==
  ASSUME NEW S, NEW s \in Seq(S), Once(s), NEW c
  PROVE  Times(c, s) = One(\E i \in DOMAIN s : s[i] = c)
<1>1. CASE \E i \in DOMAIN s : s[i] = c
  <2>1. PICK i \in DOMAIN s : s[i] = c
    BY <1>1
  <2>2. {j \in DOMAIN s : s[j] = c} = {i}
    BY <2>1 DEF Once
  <2>. QED
    BY <1>1, <2>2, FS_Singleton DEF Times, One
<1>2. CASE ~\E i \in DOMAIN s : s[i] = c
  BY <1>2, TimesNat DEF One
<1>. QED
  BY <1>1, <1>2

-----------------------------------------------------------------------------
(* The invariant.                                                          *)

Word == Object \cup {None}
Value == Object \cup {Primitive}
NodeSet == {Node("ref", w) : w \in Ref} \cup {Node("map", m) : m \in WMap}
           \cup {Node("target", r) : r \in Record} \cup {Node("token", r) : r \in Record}
RecordSet == [state : {"free", "live", "pending"}, of : Reg \cup {None}, target : Word,
              held : Value, token : Word, idx : Nat]
Ops == {"drop", "walk", "next", "entries", "entryDropped", "store", "deregister", "sweep"}
CallSet == [op : Ops, cell : Cell, key : Word, value : Value \cup {None}]

Types == /\ TypeOK
         /\ nodes \in [Object -> Seq(NodeSet)]
         /\ rec \in [Record -> RecordSet]
         /\ cells \in [Reg -> Seq(Record)]
         /\ pending \in [Reg -> Seq(Record)]
         /\ work \in Seq(CallSet)
         /\ phase \in {"job", "boundary", "drain", "callback", "cleaned"}

Has(s, x) == \E i \in DOMAIN s : s[i] = x

\* A record is in the vector of its state, once, and owed a cleanup if it is due.
LiveAt(r) == /\ rec[r].of \in Reg /\ rec[r].target \in Object
             /\ rec[r].idx \in DOMAIN cells[rec[r].of]
             /\ cells[rec[r].of][rec[r].idx] = r
Due(r) == /\ rec[r].of \in Reg /\ rec[r].target = None
          /\ Has(pending[rec[r].of], r)
          /\ cleaning = rec[r].of \/ Has(queue, rec[r].of) \/ rec[r].of \in stopped

Placed == \A r \in Record : /\ rec[r].state = "free" => rec[r] = Unused
                            /\ rec[r].state = "live" => LiveAt(r)
                            /\ rec[r].state = "pending" => Due(r)
LiveCells == \A f \in Reg : \A i \in DOMAIN cells[f] :
                /\ rec[cells[f][i]].state = "live"
                /\ rec[cells[f][i]].of = f /\ rec[cells[f][i]].idx = i
DueCells == \A f \in Reg : \A i \in DOMAIN pending[f] :
               rec[pending[f][i]].state = "pending" /\ rec[pending[f][i]].of = f
Filed == /\ Placed /\ LiveCells /\ DueCells
         /\ \A f \in Reg : Once(pending[f])
         /\ Once(queue)

\* The calls on the stack, by what they do and to what.
Calls(s, op, c) == \E i \in DOMAIN s : s[i].op = op /\ s[i].cell = c
CallsOn(s, op, c, k) == \E i \in DOMAIN s : s[i].op = op /\ s[i].cell = c /\ s[i].key = k

\* An object's nodes are its observers', once each, but for the entry a walk or
\* a deletion has just unlinked.
Leaves(m, t) == CallsOn(work, "deregister", m, t)
Nexts(m, t) == /\ nodes[t] # <<>> /\ Head(nodes[t]) = Node("map", m)
               /\ Calls(work, "next", t)

NodesOnce == \A t \in Object : Once(nodes[t])
RefNodes == \A t \in Object : \A w \in Ref :
               Has(nodes[t], Node("ref", w)) <=> target[w] = t
TargetNodes == \A t \in Object : \A r \in Record :
                  Has(nodes[t], Node("target", r)) <=> rec[r].target = t
TokenNodes == \A t \in Object : \A r \in Record :
                  Has(nodes[t], Node("token", r)) <=> rec[r].token = t
MapNodes == \A t \in Object : \A m \in WMap :
               /\ entry[m][t] # None => Has(nodes[t], Node("map", m))
               /\ Has(nodes[t], Node("map", m)) =>
                     entry[m][t] # None \/ Leaves(m, t) \/ Nexts(m, t)
Listed == NodesOnce /\ RefNodes /\ TargetNodes /\ TokenNodes /\ MapNodes

\* What is dead has nothing to observe or to be observed by.
Vacant(t) == nodes[t] = <<>> \/ Calls(work, "walk", t) \/ Calls(work, "next", t)
Gone == /\ \A t \in Object : rc[t] = 0 => Vacant(t)
        /\ \A w \in Ref : rc[w] = 0 => target[w] = None

\* The calls on the stack, by their kinds.
Plain == \A i \in DOMAIN work : /\ work[i].op # "store" => work[i].value = None
                                /\ work[i].op = "drop" => work[i] = Drop(work[i].cell)
DropsOK == \A i \in DOMAIN work : work[i].op = "drop" /\ work[i].cell \notin Object =>
              i = Len(work) /\ (work[i].cell \in Reg \/ Len(work) = 1)
WalksOK == \A i \in DOMAIN work : work[i].op \in {"walk", "next"} =>
              work[i].cell \in Object /\ rc[work[i].cell] = 0
NextsOK == \A i \in DOMAIN work : work[i].op = "next" =>
              /\ nodes[work[i].cell] # <<>>
              /\ \E m \in WMap : /\ Head(nodes[work[i].cell]) = Node("map", m)
                                 /\ entry[m][work[i].cell] = None
EntriesOK == \A i \in DOMAIN work : work[i].op = "entries" =>
                i = Len(work) /\ work[i].cell \in WMap
DroppingOK == \A i \in DOMAIN work : work[i].op = "entryDropped" =>
                 /\ i = Len(work) - 1
                 /\ work[i + 1].op = "entries" /\ work[i + 1].cell = work[i].cell
                 /\ work[i].cell \in WMap /\ work[i].key \in Object
                 /\ entry[work[i].cell][work[i].key] # None
StoresOK == \A i \in DOMAIN work : work[i].op = "store" =>
               /\ i = Len(work) /\ work[i].cell \in WMap /\ work[i].key \in owned \cap Object
               /\ entry[work[i].cell][work[i].key] # None /\ work[i].value # None
LeavingOK == \A i \in DOMAIN work : work[i].op = "deregister" =>
                /\ i = Len(work) /\ work[i].cell \in WMap /\ work[i].key \in owned \cap Object
                /\ entry[work[i].cell][work[i].key] = None
SweepsOK == \A i \in DOMAIN work : work[i].op = "sweep" =>
               /\ i = 1 /\ work[i].cell \in Reg /\ work[i].key \in Object
               /\ \A j \in DOMAIN work : j # 1 => work[j].op = "drop" /\ work[j].cell \in Object
OneWalk == \A i, j \in DOMAIN work :
              /\ work[i].op \in {"walk", "next"} /\ work[j].op \in {"walk", "next"}
              /\ work[i].cell = work[j].cell
              => i = j
Stacked == /\ Plain /\ DropsOK /\ WalksOK /\ NextsOK /\ EntriesOK /\ DroppingOK
           /\ StoresOK /\ LeavingOK /\ SweepsOK /\ OneWalk

\* What dies in the drop of a map is no key of it.
Under(m, s) == \A j \in DOMAIN work :
                  work[j].op \in {"drop", "walk", "next"} /\ work[j].cell # m =>
                     work[j].cell \in s
Separate == \A i \in DOMAIN work :
               work[i].op \in {"drop", "entries"} /\ work[i].cell \in WMap =>
                  \E s \in SUBSET Object : Apart(work[i].cell, s) /\ Under(work[i].cell, s)

\* The references there are to a cell, by who holds them.
Own(c) == One(c \in owned)
Fields(c) == Cardinality({o \in Object : field[o] = c})
Entries(c) == Cardinality({mk \in WMap \X Object :
                 entry[mk[1]][mk[2]] = c /\ ~Spent(mk[1], mk[2])})
Helds(c) == Cardinality({r \in Record : rec[r].held = c})
Keeps(c) == Times(c, kept)
Queues(c) == Times(c, queue)
Cleans(c) == One(cleaning = c)
Gives(c) == One(given = c)
Owed(c) == Times(Drop(c), work)
Values(c) == Cardinality({i \in DOMAIN work : work[i].value = c})
Roots(c) == Own(c) + Keeps(c) + Queues(c) + Cleans(c) + Gives(c)
Heap(c) == Fields(c) + Entries(c) + Helds(c)
Stack(c) == Owed(c) + Values(c)
Owing(c) == Roots(c) + Heap(c) + Stack(c)
Counted == \A c \in Cell : rc[c] = Owing(c)

\* What is held to be given is held in a callback only.
Giving == given # Primitive => phase = "callback"

RegistryInv == /\ Types /\ Filed /\ Listed /\ Gone /\ Stacked /\ Separate
               /\ Counted /\ Giving

-----------------------------------------------------------------------------
(* Lists of nodes.                                                         *)

\* A node is its kind and its owner.
LEMMA NodeIs ==
  /\ \A k, a, l, b : Node(k, a) = Node(l, b) <=> k = l /\ a = b
  /\ \A k, a : Node(k, a).kind = k /\ Node(k, a).owner = a
  BY DEF Node

\* Every node is of one of four kinds.
LEMMA NodeKinds ==
  ASSUME NEW n \in NodeSet
  PROVE  \/ n.kind = "ref" /\ n.owner \in Ref /\ n = Node("ref", n.owner)
         \/ n.kind = "map" /\ n.owner \in WMap /\ n = Node("map", n.owner)
         \/ n.kind = "target" /\ n.owner \in Record /\ n = Node("target", n.owner)
         \/ n.kind = "token" /\ n.owner \in Record /\ n = Node("token", n.owner)
  BY DEF NodeSet, Node

\* The nodes there may be.
LEMMA NodeIn ==
  /\ \A w \in Ref : Node("ref", w) \in NodeSet
  /\ \A m \in WMap : Node("map", m) \in NodeSet
  /\ \A r \in Record : Node("target", r) \in NodeSet /\ Node("token", r) \in NodeSet
  BY DEF NodeSet

\* A node is put at the head of a list that has not got it.
LEMMA NodePut ==
  ASSUME NEW s \in Seq(NodeSet), NEW n \in NodeSet
  PROVE  /\ <<n>> \o s \in Seq(NodeSet) /\ <<n>> \o s # <<>> /\ Head(<<n>> \o s) = n
         /\ \A x : Has(<<n>> \o s, x) <=> Has(s, x) \/ x = n
         /\ Once(s) /\ ~Has(s, n) => Once(<<n>> \o s)
<1>. DEFINE t == <<n>> \o s
<1>1. /\ t \in Seq(NodeSet) /\ Len(s) \in Nat /\ DOMAIN s = 1 .. Len(s)
      /\ DOMAIN t = 1 .. Len(s) + 1 /\ t[1] = n /\ Head(t) = n /\ t # <<>>
      /\ \A i \in 1 .. Len(s) : t[i + 1] = s[i]
      /\ \A i \in 2 .. Len(s) + 1 : t[i] = s[i - 1] /\ i - 1 \in 1 .. Len(s)
  OBVIOUS
<1>. HIDE DEF t
<1>2. ASSUME NEW x PROVE Has(t, x) <=> Has(s, x) \/ x = n
  <2>1. Has(s, x) => Has(t, x)
    <3>1. \A i \in 1 .. Len(s) : i + 1 \in 1 .. Len(s) + 1
      BY <1>1
    <3>. QED
      BY <1>1, <3>1 DEF Has
  <2>2. n = x => Has(t, x)
    <3>1. 1 \in 1 .. Len(s) + 1
      BY <1>1
    <3>. QED
      BY <1>1, <3>1 DEF Has
  <2>3. ASSUME NEW i \in 1 .. Len(s) + 1 PROVE t[i] = n \/ Has(s, t[i])
    <3>1. i = 1 \/ i \in 2 .. Len(s) + 1
      BY <1>1
    <3>. QED
      BY <1>1, <3>1 DEF Has
  <2>. QED
    BY <1>1, <2>1, <2>2, <2>3 DEF Has
<1>3. Once(s) /\ ~Has(s, n) => Once(t)
  <2>. SUFFICES ASSUME Once(s), ~Has(s, n), NEW i \in 1 .. Len(s) + 1,
                       NEW j \in 1 .. Len(s) + 1, t[i] = t[j]
                PROVE  i = j
    BY <1>1 DEF Once
  <2>1. i = 1 \/ i \in 2 .. Len(s) + 1
    BY <1>1
  <2>2. j = 1 \/ j \in 2 .. Len(s) + 1
    BY <1>1
  <2>3. CASE i = 1 \/ j = 1
    BY <1>1, <2>1, <2>2, <2>3, SMTT(60) DEF Has
  <2>4. CASE i # 1 /\ j # 1
    <3>1. i - 1 = j - 1
      BY <1>1, <2>1, <2>2, <2>4 DEF Once
    <3>. QED
      BY <3>1, <1>1
  <2>. QED
    BY <2>3, <2>4
<1>. QED
  BY <1>1, <1>2, <1>3 DEF t

\* The head of a list is freed.
LEMMA NodeFreed ==
  ASSUME NEW s \in Seq(NodeSet), s # <<>>, Once(s)
  PROVE  /\ Tail(s) \in Seq(NodeSet) /\ Head(s) \in NodeSet /\ Once(Tail(s))
         /\ Has(s, Head(s))
         /\ \A x : Has(Tail(s), x) <=> Has(s, x) /\ x # Head(s)
<1>1. /\ Tail(s) \in Seq(NodeSet) /\ Head(s) \in NodeSet
      /\ DOMAIN s = 1 .. Len(s) /\ Len(s) \in Nat /\ Len(s) > 0
      /\ DOMAIN Tail(s) = 1 .. Len(s) - 1
      /\ \A i \in 1 .. Len(s) - 1 : Tail(s)[i] = s[i + 1]
      /\ Head(s) = s[1]
  BY TailAt
<1>. DEFINE t == Tail(s)
            h == Head(s)
<1>. HIDE DEF t, h
<1>2. Once(t)
  <2>1. \A i \in 1 .. Len(s) - 1 : i + 1 \in 1 .. Len(s)
    BY <1>1
  <2>2. \A i, j \in 1 .. Len(s) - 1 : t[i] = t[j] => i + 1 = j + 1
    BY <1>1, <2>1 DEF Once, t
  <2>3. \A i, j \in 1 .. Len(s) - 1 : i + 1 = j + 1 => i = j
    BY <1>1
  <2>. QED
    BY <1>1, <2>2, <2>3 DEF Once, t
<1>3. 1 \in 1 .. Len(s)
  BY <1>1
<1>4. Has(s, h)
  BY <1>1, <1>3 DEF Has, h
<1>5. ASSUME NEW x, Has(s, x), x # h PROVE Has(t, x)
  <2>1. PICK i \in 1 .. Len(s) : s[i] = x
    BY <1>1, <1>5 DEF Has
  <2>2. i # 1
    BY <2>1, <1>1, <1>5 DEF h
  <2>3. i - 1 \in 1 .. Len(s) - 1 /\ (i - 1) + 1 = i
    BY <1>1, <2>2
  <2>4. t[i - 1] = x
    BY <1>1, <2>1, <2>3 DEF t
  <2>. QED
    BY <1>1, <2>3, <2>4 DEF Has, t
<1>6. ASSUME NEW x, Has(t, x) PROVE Has(s, x) /\ x # h
  <2>1. PICK i \in 1 .. Len(s) - 1 : t[i] = x
    BY <1>1, <1>6 DEF Has, t
  <2>2. i + 1 \in 1 .. Len(s) /\ i + 1 # 1 /\ s[i + 1] = x
    BY <1>1, <2>1 DEF t
  <2>. QED
    BY <1>1, <1>3, <2>2 DEF Has, Once, h
<1>. QED
  BY <1>1, <1>2, <1>4, <1>5, <1>6 DEF t, h

\* What a list keeps when some nodes leave it.
LEMMA NodesLeft ==
  ASSUME NEW s \in Seq(NodeSet), NEW gone
  PROVE  LET t == Filter(s, Range(s) \ gone)
         IN /\ t \in Seq(NodeSet)
            /\ Once(s) => Once(t)
            /\ \A x : Has(t, x) <=> Has(s, x) /\ x \notin gone
            /\ s = <<>> => t = <<>>
<1>. DEFINE K == Range(s) \ gone
            t == Filter(s, K)
<1>1. t \in Seq(NodeSet) /\ \A j \in DOMAIN t : t[j] \in K
  BY FilterSeq
<1>2. Once(s) => Once(t)
  BY FilterDistinct DEF Once
<1>3. \A x \in K : Has(s, x) /\ x \notin gone
  BY DEF Range, Has
<1>4. ASSUME NEW i \in DOMAIN s, s[i] \notin gone PROVE Has(t, s[i])
  <2>1. s[i] \in K
    BY <1>4 DEF Range
  <2>. HIDE DEF K
  <2>. QED
    BY <2>1, FilterKeeps DEF Has
<1>5. s = <<>> => t = <<>>
  BY FilterEmpty
<1>. HIDE DEF K, t
<1>6. \A x : Has(t, x) => Has(s, x) /\ x \notin gone
  BY <1>1, <1>3 DEF Has
<1>7. \A x : Has(s, x) /\ x \notin gone => Has(t, x)
  BY <1>4 DEF Has
<1>. QED
  BY <1>1, <1>2, <1>5, <1>6, <1>7 DEF K, t

-----------------------------------------------------------------------------
(* The stack, when some calls take the place of its head.                  *)

\* Where the calls behind the head are once others take its place.
LEMMA ShiftAt ==
  ASSUME NEW S, NEW s \in Seq(S), s # <<>>, NEW new \in Seq(S), NEW d, d = Len(new) - 1,
         NEW t, t = new \o Tail(s)
  PROVE  /\ t \in Seq(S) /\ d \in Int /\ Len(new) = d + 1 /\ Len(new) \in Nat
         /\ Len(s) \in Nat /\ Len(s) > 0 /\ Len(t) = Len(s) + d
         /\ DOMAIN s = 1 .. Len(s) /\ DOMAIN t = 1 .. Len(t) /\ DOMAIN new = 1 .. Len(new)
         /\ Head(s) = s[1] /\ s[1] \in S
         /\ \A i \in DOMAIN new : i \in DOMAIN t /\ t[i] = new[i]
         /\ \A i \in DOMAIN s : i # 1 =>
               i + d \in DOMAIN t /\ t[i + d] = s[i] /\ (i + d) - d = i /\ i + d \notin DOMAIN new
         /\ \A j \in DOMAIN t : j \in DOMAIN new \/
               (j - d \in DOMAIN s /\ j - d # 1 /\ t[j] = s[j - d] /\ (j - d) + d = j)
<1>1. /\ Tail(s) \in Seq(S) /\ Head(s) \in S
      /\ DOMAIN s = 1 .. Len(s) /\ Len(s) \in Nat /\ Len(s) > 0
      /\ DOMAIN Tail(s) = 1 .. Len(s) - 1 /\ Len(Tail(s)) = Len(s) - 1
      /\ \A i \in 1 .. Len(s) - 1 : Tail(s)[i] = s[i + 1]
      /\ Head(s) = s[1]
  BY TailAt
<1>. DEFINE r == Tail(s)
<1>2. /\ t \in Seq(S) /\ Len(new) \in Nat /\ DOMAIN new = 1 .. Len(new)
      /\ DOMAIN t = 1 .. Len(new) + (Len(s) - 1)
      /\ \A i \in 1 .. Len(new) : t[i] = new[i]
      /\ \A i \in 1 .. Len(s) - 1 : t[Len(new) + i] = r[i]
  <2>1. r \in Seq(S) /\ Len(r) = Len(s) - 1 /\ t = new \o r
    BY <1>1
  <2>. HIDE DEF r
  <2>2. /\ t \in Seq(S) /\ Len(new) \in Nat /\ DOMAIN new = 1 .. Len(new)
        /\ DOMAIN t = 1 .. Len(new) + Len(r)
        /\ \A i \in 1 .. Len(new) : t[i] = new[i]
        /\ \A i \in 1 .. Len(r) : t[Len(new) + i] = r[i]
    BY <2>1, ConcatAt
  <2>. QED
    BY <2>1, <2>2
<1>3. Len(t) = Len(s) + d /\ d \in Int /\ Len(new) = d + 1
  BY <1>1, <1>2
<1>4. ASSUME NEW i \in DOMAIN s, i # 1
      PROVE  i + d \in DOMAIN t /\ t[i + d] = s[i] /\ (i + d) - d = i /\ i + d \notin DOMAIN new
  <2>1. i - 1 \in 1 .. Len(s) - 1 /\ (i - 1) + 1 = i /\ Len(new) + (i - 1) = i + d
    BY <1>1, <1>2, <1>4
  <2>2. t[i + d] = r[i - 1] /\ r[i - 1] = s[i]
    BY <1>1, <1>2, <2>1
  <2>3. i + d \in DOMAIN t /\ (i + d) - d = i /\ i + d \notin DOMAIN new
    BY <1>1, <1>2, <1>4
  <2>. QED
    BY <2>2, <2>3
<1>5. ASSUME NEW j \in DOMAIN t, j \notin DOMAIN new
      PROVE  j - d \in DOMAIN s /\ j - d # 1 /\ t[j] = s[j - d] /\ (j - d) + d = j
  <2>1. j - d \in DOMAIN s /\ j - d # 1 /\ (j - d) + d = j
    BY <1>1, <1>2, <1>5
  <2>2. t[(j - d) + d] = s[j - d]
    BY <1>4, <2>1
  <2>. QED
    BY <2>1, <2>2
<1>. HIDE DEF r
<1>6. \A i \in DOMAIN new : i \in DOMAIN t /\ t[i] = new[i]
  BY <1>1, <1>2
<1>7. /\ s[1] \in S /\ DOMAIN t = 1 .. Len(t)
      /\ t \in Seq(S) /\ Len(new) \in Nat /\ DOMAIN new = 1 .. Len(new)
  BY <1>1, <1>2
<1>8. /\ Len(s) \in Nat /\ Len(s) > 0 /\ DOMAIN s = 1 .. Len(s) /\ Head(s) = s[1]
  BY <1>1
<1>. QED
  BY <1>3, <1>4, <1>5, <1>6, <1>7, <1>8, Zenon

\* The calls of a cascade of deaths.
Light(e) == /\ e \in CallSet /\ e.cell \in Object /\ e.value = None
            /\ e.op \in {"drop", "walk", "next"}
            /\ e.op = "drop" => e = Drop(e.cell)
Walks(e) == e.op \in {"walk", "next"}

\* A light call at the head gives way to others.
Deals(new) == /\ work # <<>> /\ Light(Head(work))
              /\ new \in Seq(CallSet) /\ \A i \in DOMAIN new : Light(new[i])
              /\ work' = new \o Tail(work)

\* The same of the stack, when a light call is at its head.
LEMMA DealtAt ==
  ASSUME Types, NEW new, Deals(new), NEW d, d = Len(new) - 1
  PROVE  /\ work' \in Seq(CallSet) /\ d \in Int /\ Len(new) = d + 1 /\ Len(new) \in Nat
         /\ Len(work) \in Nat /\ Len(work) > 0 /\ Len(work') = Len(work) + d
         /\ DOMAIN work = 1 .. Len(work) /\ DOMAIN work' = 1 .. Len(work')
         /\ DOMAIN new = 1 .. Len(new)
         /\ 1 \in DOMAIN work /\ Head(work) = work[1] /\ Light(work[1])
         /\ \A i \in DOMAIN work : work[i] \in CallSet
         /\ \A i \in DOMAIN new : i \in DOMAIN work' /\ work'[i] = new[i]
         /\ \A i \in DOMAIN work : i # 1 =>
               i + d \in DOMAIN work' /\ work'[i + d] = work[i] /\ (i + d) - d = i
               /\ i + d \notin DOMAIN new
         /\ \A j \in DOMAIN work' : j \in DOMAIN new \/
               (j - d \in DOMAIN work /\ j - d # 1 /\ work'[j] = work[j - d] /\ (j - d) + d = j)
<1>1. work \in Seq(CallSet) /\ work # <<>> /\ new \in Seq(CallSet)
  BY DEF Types, Deals
<1>2. work' = new \o Tail(work) /\ Light(Head(work))
  BY DEF Deals
<1>3. \A i \in DOMAIN work : work[i] \in CallSet
  BY <1>1
<1>. DEFINE t == work'
<1>4. t = new \o Tail(work)
  BY <1>2
<1>. HIDE DEF t
<1>5. /\ t \in Seq(CallSet) /\ d \in Int /\ Len(new) = d + 1 /\ Len(new) \in Nat
      /\ Len(work) \in Nat /\ Len(work) > 0 /\ Len(t) = Len(work) + d
      /\ DOMAIN work = 1 .. Len(work) /\ DOMAIN t = 1 .. Len(t) /\ DOMAIN new = 1 .. Len(new)
      /\ Head(work) = work[1] /\ work[1] \in CallSet
      /\ \A i \in DOMAIN new : i \in DOMAIN t /\ t[i] = new[i]
      /\ \A i \in DOMAIN work : i # 1 =>
            i + d \in DOMAIN t /\ t[i + d] = work[i] /\ (i + d) - d = i /\ i + d \notin DOMAIN new
      /\ \A j \in DOMAIN t : j \in DOMAIN new \/
            (j - d \in DOMAIN work /\ j - d # 1 /\ t[j] = work[j - d] /\ (j - d) + d = j)
  BY <1>1, <1>4, ShiftAt, SMTT(60)
<1>6. 1 \in DOMAIN work /\ Light(work[1])
  BY <1>2, <1>5
<1>. QED
  BY <1>3, <1>5, <1>6 DEF t

\* What the calls see of the heap stays.
Frames(new) ==
  /\ owned' = owned
  /\ \A t \in Object : rc[t] = 0 => rc'[t] = 0
  /\ \A m \in WMap, k \in Object : entry[m][k] = None => entry'[m][k] = None
  /\ \A i \in DOMAIN work : i # 1 =>
        /\ work[i].op = "next" => nodes'[work[i].cell] = nodes[work[i].cell]
        /\ work[i].op \in {"entryDropped", "store"} => entry'[work[i].cell][work[i].key] # None

\* What the new calls say of it is so.
Founded(new) ==
  /\ \A i \in DOMAIN new : Walks(new[i]) =>
        /\ rc'[new[i].cell] = 0
        /\ \A j \in DOMAIN new : Walks(new[j]) => i = j
        /\ \A j \in DOMAIN work : j # 1 /\ Walks(work[j]) => work[j].cell # new[i].cell
  /\ \A i \in DOMAIN new : new[i].op = "next" =>
        /\ nodes'[new[i].cell] # <<>>
        /\ \E m \in WMap : /\ Head(nodes'[new[i].cell]) = Node("map", m)
                           /\ entry'[m][new[i].cell] = None

\* A deal leaves the calls on the stack such as they may be.
LEMMA LightStacked ==
  ASSUME Types, Stacked, NEW new, Deals(new), Frames(new), Founded(new)
  PROVE  Stacked'
<1>0. PICK d : d = Len(new) - 1
  OBVIOUS
<1>. DEFINE t == work'
            Old(j) == j - d \in DOMAIN work /\ j - d # 1 /\ t[j] = work[j - d]
                      /\ (j - d) + d = j
<1>1. /\ t \in Seq(CallSet) /\ d \in Int /\ Len(new) = d + 1 /\ Len(new) \in Nat
      /\ Len(work) \in Nat /\ Len(work) > 0 /\ Len(t) = Len(work) + d
      /\ DOMAIN work = 1 .. Len(work) /\ DOMAIN t = 1 .. Len(t) /\ DOMAIN new = 1 .. Len(new)
      /\ 1 \in DOMAIN work /\ Head(work) = work[1] /\ Light(work[1])
      /\ \A i \in DOMAIN work : work[i] \in CallSet
      /\ \A i \in DOMAIN new : i \in DOMAIN t /\ t[i] = new[i]
      /\ \A i \in DOMAIN work : i # 1 =>
            i + d \in DOMAIN t /\ t[i + d] = work[i] /\ (i + d) - d = i
            /\ i + d \notin DOMAIN new
      /\ \A j \in DOMAIN t : j \in DOMAIN new \/ Old(j)
  <2>. HIDE DEF t, Old
  <2>1. \A j \in DOMAIN t : j \in DOMAIN new \/ Old(j)
    BY <1>0, DealtAt DEF t, Old
  <2>2. /\ d \in Int /\ Len(new) = d + 1 /\ Len(new) \in Nat
        /\ Len(work) \in Nat /\ Len(work) > 0 /\ Len(t) = Len(work) + d
    <3>1. Len(t) = Len(work) + d
      <4>1. work \in Seq(CallSet) /\ work # <<>> /\ new \in Seq(CallSet)
            /\ t = new \o Tail(work)
        BY DEF Deals, Types, t
      <4>. QED
        BY <1>0, <4>1, ShiftAt
    <3>2. Len(new) \in Nat /\ Len(work) \in Nat
      BY DEF Deals, Types
    <3>3. Len(work) > 0
      BY DEF Deals, Types
    <3>. QED
      BY <1>0, <3>1, <3>2, <3>3
  <2>5. t \in Seq(CallSet)
    BY <1>0, DealtAt DEF t
  <2>6. DOMAIN work = 1 .. Len(work) /\ DOMAIN new = 1 .. Len(new)
    BY <1>0, DealtAt
  <2>7. DOMAIN t = 1 .. Len(t)
    BY <1>0, DealtAt DEF t
  <2>3. /\ 1 \in DOMAIN work /\ Head(work) = work[1] /\ Light(work[1])
        /\ \A i \in DOMAIN work : work[i] \in CallSet
        /\ \A i \in DOMAIN new : i \in DOMAIN t /\ t[i] = new[i]
    BY <1>0, DealtAt DEF t
  <2>4. \A i \in DOMAIN work : i # 1 =>
           i + d \in DOMAIN t /\ t[i + d] = work[i] /\ (i + d) - d = i
           /\ i + d \notin DOMAIN new
    BY <1>0, DealtAt, SMTT(60) DEF t
  <2>. QED
    BY <2>1, <2>2, <2>3, <2>4, <2>5, <2>6, <2>7
<1>2. \A i \in DOMAIN new : Light(t[i]) /\ t[i].op \in {"drop", "walk", "next"}
  BY <1>1 DEF Deals, Light
<1>3. /\ Plain /\ DropsOK /\ WalksOK /\ NextsOK /\ EntriesOK /\ DroppingOK
      /\ StoresOK /\ LeavingOK /\ SweepsOK /\ OneWalk
  BY DEF Stacked
<1>4. Plain'
  <2>. SUFFICES ASSUME NEW j \in DOMAIN t
                PROVE  /\ t[j].op # "store" => t[j].value = None
                       /\ t[j].op = "drop" => t[j] = Drop(t[j].cell)
    BY DEF Plain
  <2>1. CASE j \in DOMAIN new
    BY <1>2, <2>1 DEF Light
  <2>2. CASE Old(j)
    BY <1>3, <2>2 DEF Plain
  <2>. QED
    BY <1>1, <2>1, <2>2
<1>5. DropsOK'
  <2>. SUFFICES ASSUME NEW j \in DOMAIN t, t[j].op = "drop", t[j].cell \notin Object
                PROVE  j = Len(t) /\ (t[j].cell \in Reg \/ Len(t) = 1)
    BY DEF DropsOK
  <2>1. Old(j)
    BY <1>1, <1>2 DEF Light
  <2>2. j - d = Len(work) /\ (t[j].cell \in Reg \/ Len(work) = 1)
    BY <1>3, <2>1 DEF DropsOK
  <2>. QED
    BY <1>1, <2>1, <2>2
<1>6. WalksOK'
  <2>. SUFFICES ASSUME NEW j \in DOMAIN t, Walks(t[j])
                PROVE  t[j].cell \in Object /\ rc'[t[j].cell] = 0
    BY DEF WalksOK, Walks
  <2>1. CASE j \in DOMAIN new
    <3>1. Light(new[j]) /\ t[j] = new[j]
      BY <1>1, <1>2, <2>1
    <3>. QED
      BY <2>1, <3>1 DEF Founded, Light
  <2>2. CASE Old(j)
    BY <1>3, <2>2 DEF WalksOK, Walks, Frames
  <2>. QED
    BY <1>1, <2>1, <2>2
<1>7. NextsOK'
  <2>. SUFFICES ASSUME NEW j \in DOMAIN t, t[j].op = "next"
                PROVE  /\ nodes'[t[j].cell] # <<>>
                       /\ \E m \in WMap : /\ Head(nodes'[t[j].cell]) = Node("map", m)
                                          /\ entry'[m][t[j].cell] = None
    BY DEF NextsOK
  <2>1. CASE j \in DOMAIN new
    BY <1>1, <2>1 DEF Founded
  <2>2. CASE Old(j)
    <3>1. /\ nodes[t[j].cell] # <<>> /\ nodes'[t[j].cell] = nodes[t[j].cell]
          /\ t[j].cell \in Object
      BY <1>3, <2>2 DEF NextsOK, Frames, WalksOK
    <3>2. PICK m \in WMap : Head(nodes[t[j].cell]) = Node("map", m) /\ entry[m][t[j].cell] = None
      BY <1>3, <2>2 DEF NextsOK
    <3>3. entry'[m][t[j].cell] = None
      BY <3>1, <3>2 DEF Frames
    <3>. QED
      BY <3>1, <3>2, <3>3
  <2>. QED
    BY <1>1, <2>1, <2>2
<1>8. EntriesOK'
  <2>. SUFFICES ASSUME NEW j \in DOMAIN t, t[j].op = "entries"
                PROVE  j = Len(t) /\ t[j].cell \in WMap
    BY DEF EntriesOK
  <2>1. Old(j)
    BY <1>1, <1>2
  <2>2. j - d = Len(work) /\ t[j].cell \in WMap
    BY <1>3, <2>1 DEF EntriesOK
  <2>. QED
    BY <1>1, <2>1, <2>2
<1>9. DroppingOK'
  <2>. SUFFICES ASSUME NEW j \in DOMAIN t, t[j].op = "entryDropped"
                PROVE  /\ j = Len(t) - 1
                       /\ t[j + 1].op = "entries" /\ t[j + 1].cell = t[j].cell
                       /\ t[j].cell \in WMap /\ t[j].key \in Object
                       /\ entry'[t[j].cell][t[j].key] # None
    BY DEF DroppingOK
  <2>1. Old(j)
    BY <1>1, <1>2
  <2>2. /\ j - d = Len(work) - 1
        /\ work[(j - d) + 1].op = "entries" /\ work[(j - d) + 1].cell = t[j].cell
        /\ t[j].cell \in WMap /\ t[j].key \in Object
        /\ entry'[t[j].cell][t[j].key] # None
    BY <1>3, <2>1 DEF DroppingOK, Frames
  <2>3. (j - d) + 1 \in DOMAIN work /\ (j - d) + 1 # 1 /\ ((j - d) + 1) + d = j + 1
    BY <1>1, <2>1, <2>2, SMTT(60)
  <2>4. t[j + 1] = work[(j - d) + 1]
    BY <1>1, <2>3
  <2>. QED
    BY <1>1, <2>1, <2>2, <2>4
<1>10. StoresOK'
  <2>. SUFFICES ASSUME NEW j \in DOMAIN t, t[j].op = "store"
                PROVE  /\ j = Len(t) /\ t[j].cell \in WMap /\ t[j].key \in owned' \cap Object
                       /\ entry'[t[j].cell][t[j].key] # None /\ t[j].value # None
    BY DEF StoresOK
  <2>1. Old(j)
    BY <1>1, <1>2
  <2>2. /\ j - d = Len(work) /\ t[j].cell \in WMap /\ t[j].key \in owned \cap Object
        /\ entry'[t[j].cell][t[j].key] # None /\ t[j].value # None /\ owned' = owned
    BY <1>3, <2>1 DEF StoresOK, Frames
  <2>. QED
    BY <1>1, <2>1, <2>2
<1>11. LeavingOK'
  <2>. SUFFICES ASSUME NEW j \in DOMAIN t, t[j].op = "deregister"
                PROVE  /\ j = Len(t) /\ t[j].cell \in WMap /\ t[j].key \in owned' \cap Object
                       /\ entry'[t[j].cell][t[j].key] = None
    BY DEF LeavingOK
  <2>1. Old(j)
    BY <1>1, <1>2
  <2>2. /\ j - d = Len(work) /\ t[j].cell \in WMap /\ t[j].key \in owned \cap Object
        /\ entry[t[j].cell][t[j].key] = None /\ owned' = owned
    BY <1>3, <2>1 DEF LeavingOK, Frames
  <2>3. entry'[t[j].cell][t[j].key] = None
    BY <2>2 DEF Frames
  <2>. QED
    BY <1>1, <2>1, <2>2, <2>3
<1>12. SweepsOK'
  <2>1. ASSUME NEW j \in DOMAIN t, t[j].op = "sweep" PROVE FALSE
    <3>1. Old(j)
      BY <1>1, <1>2, <2>1
    <3>. QED
      BY <1>3, <2>1, <3>1 DEF SweepsOK
  <2>. QED
    BY <2>1 DEF SweepsOK
<1>13. OneWalk'
  <2>. SUFFICES ASSUME NEW i \in DOMAIN t, NEW j \in DOMAIN t, Walks(t[i]), Walks(t[j]),
                       t[i].cell = t[j].cell
                PROVE  i = j
    BY DEF OneWalk, Walks
  <2>1. CASE i \in DOMAIN new /\ j \in DOMAIN new
    BY <1>1, <2>1 DEF Founded
  <2>2. CASE i \in DOMAIN new /\ Old(j)
    BY <1>1, <2>2 DEF Founded
  <2>3. CASE Old(i) /\ j \in DOMAIN new
    BY <1>1, <2>3 DEF Founded
  <2>4. CASE Old(i) /\ Old(j)
    <3>1. i - d = j - d
      BY <1>3, <2>4 DEF OneWalk, Walks
    <3>. QED
      BY <1>1, <2>4, <3>1
  <2>. QED
    BY <1>1, <2>1, <2>2, <2>3, <2>4
<1>. QED
  BY <1>4, <1>5, <1>6, <1>7, <1>8, <1>9, <1>10, <1>11, <1>12, <1>13 DEF Stacked

\* The separation of a dropped map's values from its keys.
LEMMA LightSeparate ==
  ASSUME Types, Separate, NEW new, Deals(new),
         \A m \in WMap, s \in SUBSET Object : Apart(m, s) /\ Under(m, s) =>
            Apart(m, s)' /\ \A i \in DOMAIN new : new[i].cell \in s
  PROVE  Separate'
<1>0. PICK d : d = Len(new) - 1
  OBVIOUS
<1>. DEFINE t == work'
            Old(j) == j - d \in DOMAIN work /\ j - d # 1 /\ t[j] = work[j - d]
                      /\ (j - d) + d = j
<1>1. /\ DOMAIN new = 1 .. Len(new)
      /\ \A i \in DOMAIN new : i \in DOMAIN t /\ t[i] = new[i]
      /\ \A j \in DOMAIN t : j \in DOMAIN new \/ Old(j)
  BY <1>0, DealtAt, SMTT(60)
<1>2. \A i \in DOMAIN new : Light(t[i])
  BY <1>1 DEF Deals
<1>. SUFFICES ASSUME NEW j \in DOMAIN t, t[j].op \in {"drop", "entries"},
                     NEW m \in WMap, m = t[j].cell
              PROVE  \E s \in SUBSET Object : Apart(m, s)' /\ Under(m, s)'
  BY DEF Separate
<1>3. Old(j)
  BY <1>1, <1>2, CellAssumption DEF Light
<1>4. PICK s \in SUBSET Object : Apart(m, s) /\ Under(m, s)
  BY <1>3 DEF Separate
<1>5. Apart(m, s)' /\ \A i \in DOMAIN new : new[i].cell \in s
  BY <1>4
<1>6. Under(m, s)'
  <2>. SUFFICES ASSUME NEW i \in DOMAIN t, t[i].op \in {"drop", "walk", "next"}, t[i].cell # m
                PROVE  t[i].cell \in s
    BY DEF Under
  <2>1. CASE i \in DOMAIN new
    BY <1>1, <1>5, <2>1
  <2>2. CASE Old(i)
    BY <1>4, <2>2 DEF Under
  <2>. QED
    BY <1>1, <2>1, <2>2
<1>. QED
  BY <1>5, <1>6

-----------------------------------------------------------------------------
(* The references there are.                                               *)

\* Memory is finite.
LEMMA FiniteParts == /\ IsFiniteSet(Object) /\ IsFiniteSet(WMap) /\ IsFiniteSet(Record)
                     /\ IsFiniteSet(WMap \X Object)
<1>1. Object \subseteq Cell /\ WMap \subseteq Cell
  BY DEF Cell
<1>2. IsFiniteSet(Object) /\ IsFiniteSet(WMap) /\ IsFiniteSet(Record)
  BY <1>1, CellAssumption, FS_Subset
<1>. QED
  BY <1>2, FS_Product

\* Every term of the sum is a number.
LEMMA TermsNat ==
  ASSUME Types, NEW c
  PROVE  /\ Own(c) \in Nat /\ Fields(c) \in Nat /\ Entries(c) \in Nat
         /\ Helds(c) \in Nat /\ Keeps(c) \in Nat /\ Queues(c) \in Nat
         /\ Cleans(c) \in Nat /\ Gives(c) \in Nat /\ Owed(c) \in Nat /\ Values(c) \in Nat
         /\ Roots(c) \in Nat /\ Heap(c) \in Nat /\ Stack(c) \in Nat
<1>1. Fields(c) \in Nat
  <2>1. {o \in Object : field[o] = c} \subseteq Object
    OBVIOUS
  <2>. QED
    BY <2>1, FiniteParts, FS_Subset, FS_CardinalityType DEF Fields
<1>2. Entries(c) \in Nat
  <2>. DEFINE E == {mk \in WMap \X Object : entry[mk[1]][mk[2]] = c /\ ~Spent(mk[1], mk[2])}
  <2>1. E \subseteq WMap \X Object
    OBVIOUS
  <2>. HIDE DEF E
  <2>2. Cardinality(E) \in Nat
    BY <2>1, FiniteParts, FS_Subset, FS_CardinalityType
  <2>. QED
    BY <2>2 DEF E, Entries
<1>3. Helds(c) \in Nat
  <2>1. {r \in Record : rec[r].held = c} \subseteq Record
    OBVIOUS
  <2>. QED
    BY <2>1, FiniteParts, FS_Subset, FS_CardinalityType DEF Helds
<1>4. kept \in Seq(Object) /\ queue \in Seq(Reg) /\ work \in Seq(CallSet)
  BY DEF Types, TypeOK
<1>5. Times(c, kept) \in Nat /\ Times(c, queue) \in Nat /\ Times(Drop(c), work) \in Nat
  BY <1>4, TimesNat
<1>6. Values(c) \in Nat
  <2>1. {i \in DOMAIN work : work[i].value = c} \subseteq 1 .. Len(work) /\ Len(work) \in Nat
    BY <1>4
  <2>2. IsFiniteSet(1 .. Len(work))
    BY <2>1, FS_Interval
  <2>. QED
    BY <2>1, <2>2, FS_Subset, FS_CardinalityType DEF Values
<1>7. /\ Own(c) \in Nat /\ Keeps(c) \in Nat /\ Queues(c) \in Nat
      /\ Cleans(c) \in Nat /\ Gives(c) \in Nat /\ Owed(c) \in Nat
  BY <1>5 DEF One, Own, Keeps, Queues, Cleans, Gives, Owed
<1>8. Roots(c) \in Nat
  BY <1>7 DEF Roots
<1>9. Heap(c) \in Nat
  BY <1>1, <1>2, <1>3 DEF Heap
<1>10. Stack(c) \in Nat
  BY <1>6, <1>7 DEF Stack
<1>. QED
  BY <1>1, <1>2, <1>3, <1>6, <1>7, <1>8, <1>9, <1>10

\* A cell somebody holds is alive.
LEMMA Alive ==
  ASSUME Types, Counted, Plain
  PROVE  /\ \A c \in owned : rc[c] \in Nat \ {0}
         /\ \A i \in DOMAIN kept : rc[kept[i]] \in Nat \ {0}
         /\ \A i \in DOMAIN work : work[i].op = "drop" => rc[work[i].cell] \in Nat \ {0}
<1>1. ASSUME NEW c \in Cell
      PROVE  /\ rc[c] \in Nat /\ Own(c) \in Nat /\ Keeps(c) \in Nat /\ Owed(c) \in Nat
             /\ Own(c) <= rc[c] /\ Keeps(c) <= rc[c] /\ Owed(c) <= rc[c]
  <2>1. rc[c] = Owing(c)
    BY DEF Counted
  <2>2. /\ Own(c) \in Nat /\ Keeps(c) \in Nat /\ Queues(c) \in Nat
        /\ Cleans(c) \in Nat /\ Gives(c) \in Nat /\ Owed(c) \in Nat /\ Values(c) \in Nat
        /\ Roots(c) \in Nat /\ Heap(c) \in Nat /\ Stack(c) \in Nat
    BY TermsNat
  <2>3. Own(c) <= Roots(c) /\ Keeps(c) <= Roots(c)
    BY <2>2 DEF Roots
  <2>4. Owed(c) <= Stack(c)
    BY <2>2 DEF Stack
  <2>5. rc[c] = Roots(c) + Heap(c) + Stack(c)
    BY <2>1 DEF Owing
  <2>. QED
    BY <2>2, <2>3, <2>4, <2>5
<1>2. ASSUME NEW c \in owned PROVE rc[c] \in Nat \ {0}
  <2>1. c \in Cell
    BY DEF Types, TypeOK
  <2>2. Own(c) = 1
    BY DEF One, Own
  <2>. QED
    BY <1>1, <2>1, <2>2
<1>3. ASSUME NEW i \in DOMAIN kept PROVE rc[kept[i]] \in Nat \ {0}
  <2>1. kept \in Seq(Object) /\ kept[i] \in Cell
    BY DEF Types, TypeOK, Cell
  <2>2. Keeps(kept[i]) \in Nat /\ Keeps(kept[i]) # 0
    BY <2>1, TimesNat DEF Keeps
  <2>. QED
    BY <1>1, <2>1, <2>2
<1>4. ASSUME NEW i \in DOMAIN work, work[i].op = "drop" PROVE rc[work[i].cell] \in Nat \ {0}
  <2>. DEFINE c == work[i].cell
  <2>1. work \in Seq(CallSet) /\ work[i] = Drop(c) /\ work[i] \in CallSet
    BY <1>4 DEF Types, Plain
  <2>2. c \in Cell
    BY <2>1 DEF CallSet
  <2>3. Owed(c) \in Nat /\ Owed(c) # 0
    BY <2>1, TimesNat DEF Owed
  <2>. HIDE DEF c
  <2>4. rc[c] \in Nat \ {0}
    BY <1>1, <2>2, <2>3
  <2>. QED
    BY <2>4 DEF c
<1>. QED
  BY <1>2, <1>3, <1>4

-----------------------------------------------------------------------------
(* Drops.                                                                  *)

\* A drop is the cell it drops.
LEMMA DropIs ==
  /\ \A c : /\ Drop(c).op = "drop" /\ Drop(c).cell = c /\ Drop(c).key = None
            /\ Drop(c).value = None
  /\ \A c \in Cell : Drop(c) \in CallSet
  /\ \A c, b : Drop(c) = Drop(b) <=> c = b
  /\ \A o \in Object : Light(Drop(o))
<1>1. \A c : Drop(c).op = "drop" /\ Drop(c).cell = c /\ Drop(c).key = None /\ Drop(c).value = None
  BY DEF Drop, Call
<1>2. \A c \in Cell : Drop(c) \in CallSet
  BY DEF Drop, Call, CallSet, Word, Ops
<1>3. \A c, b : Drop(c) = Drop(b) <=> c = b
  <2>. SUFFICES ASSUME NEW c, NEW b, Drop(c) = Drop(b) PROVE c = b
    OBVIOUS
  <2>1. Drop(c).cell = c /\ Drop(b).cell = b
    BY <1>1
  <2>. QED
    BY <2>1
<1>4. \A o \in Object : o \in Cell
  BY DEF Cell
<1>. QED
  BY <1>1, <1>2, <1>3, <1>4 DEF Light

\* The drops of what a sequence has of objects.
LEMMA DropsAre ==
  ASSUME NEW V, NEW s \in Seq(V)
  PROVE  /\ Drops(s) \in Seq(CallSet)
         /\ \A i \in DOMAIN Drops(s) : \E j \in DOMAIN s :
               s[j] \in Object /\ Drops(s)[i] = Drop(s[j])
         /\ \A i \in DOMAIN Drops(s) : Light(Drops(s)[i]) /\ Drops(s)[i].op = "drop"
         /\ \A c \in Cell : Times(Drop(c), Drops(s)) = IF c \in Object THEN Times(c, s) ELSE 0
<1>. DEFINE f == Filter(s, Object)
            t == [i \in DOMAIN f |-> Drop(f[i])]
<1>1. f \in Seq(V) /\ \A i \in DOMAIN f : f[i] \in Object
  BY FilterSeq
<1>2. \A i \in DOMAIN f : \E j \in DOMAIN s : f[i] = s[j]
  BY FilterFrom
<1>3. \A c \in Object : Times(c, f) = Times(c, s)
  BY TimesFilter
<1>. HIDE DEF f
<1>4. /\ DOMAIN t = DOMAIN f /\ \A i \in DOMAIN f : t[i] = Drop(f[i])
  OBVIOUS
<1>5. \A i \in DOMAIN f : Light(Drop(f[i])) /\ Drop(f[i]) \in CallSet /\ Drop(f[i]).op = "drop"
  BY <1>1, DropIs DEF Light
<1>6. t \in Seq(CallSet)
  BY <1>1, <1>5
<1>7. ASSUME NEW c \in Cell
      PROVE  Times(Drop(c), t) = IF c \in Object THEN Times(c, s) ELSE 0
  <2>1. {i \in DOMAIN t : t[i] = Drop(c)} = {i \in DOMAIN f : f[i] = c}
    BY <1>4, DropIs
  <2>2. Times(Drop(c), t) = Times(c, f)
    BY <2>1 DEF Times
  <2>3. c \notin Object => Times(c, f) = 0
    BY <1>1, TimesNat
  <2>. QED
    BY <2>2, <2>3, <1>3
<1>8. Drops(s) = t
  BY DEF Drops, f
<1>. HIDE DEF t
<1>9. \A i \in DOMAIN t : \E j \in DOMAIN s : s[j] \in Object /\ t[i] = Drop(s[j])
  BY <1>1, <1>2, <1>4
<1>. QED
  BY <1>4, <1>5, <1>6, <1>7, <1>8, <1>9

\* The drop of one value, if it is an object.
LEMMA DropOfOne ==
  ASSUME NEW v
  PROVE  /\ Drops(<<v>>) \in Seq(CallSet)
         /\ v \in Object => Drops(<<v>>) = <<Drop(v)>>
         /\ v \notin Object => Drops(<<v>>) = <<>>
         /\ \A i \in DOMAIN Drops(<<v>>) : /\ Light(Drops(<<v>>)[i])
                                           /\ v \in Object /\ Drops(<<v>>)[i] = Drop(v)
         /\ \A c \in Cell : Times(Drop(c), Drops(<<v>>)) = One(c = v /\ c \in Object)
<1>1. <<v>> \in Seq({v}) /\ DOMAIN <<v>> = {1} /\ <<v>>[1] = v
  OBVIOUS
<1>2. Filter(<<v>>, Object) = IF v \in Object THEN <<v>> ELSE <<>>
  <2>1. <<>> \in Seq({v}) /\ Append(<<>>, v) = <<v>>
    OBVIOUS
  <2>2. Filter(Append(<<>>, v), Object) = IF v \in Object THEN Append(Filter(<<>>, Object), v)
                                                          ELSE Filter(<<>>, Object)
    <3>1. PICK S : S = {v}
      OBVIOUS
    <3>2. <<>> \in Seq(S) /\ v \in S
      BY <3>1
    <3>3. PICK e : e \in Seq(S) /\ e = <<>>
      BY <3>2
    <3>4. Filter(Append(e, v), Object) = IF v \in Object THEN Append(Filter(e, Object), v)
                                                        ELSE Filter(e, Object)
      BY <3>2, <3>3, FilterAppend
    <3>. QED
      BY <3>3, <3>4
  <2>. QED
    BY <2>1, <2>2, FilterEmpty
<1>3. v \in Object => Drops(<<v>>) = <<Drop(v)>>
  <2>. SUFFICES ASSUME v \in Object PROVE [i \in DOMAIN <<v>> |-> Drop(<<v>>[i])] = <<Drop(v)>>
    BY <1>2 DEF Drops
  <2>. QED
    BY <1>1
<1>4. v \notin Object => Drops(<<v>>) = <<>>
  <2>. SUFFICES ASSUME v \notin Object PROVE [i \in DOMAIN <<>> |-> Drop(<<>>[i])] = <<>>
    BY <1>2 DEF Drops
  <2>. QED
    OBVIOUS
<1>5. /\ Drops(<<v>>) \in Seq(CallSet)
      /\ \A i \in DOMAIN Drops(<<v>>) : Light(Drops(<<v>>)[i])
      /\ \A i \in DOMAIN Drops(<<v>>) : \E j \in DOMAIN <<v>> :
               <<v>>[j] \in Object /\ Drops(<<v>>)[i] = Drop(<<v>>[j])
      /\ \A c \in Cell : Times(Drop(c), Drops(<<v>>)) = IF c \in Object THEN Times(c, <<v>>) ELSE 0
  BY <1>1, DropsAre
<1>6. \A i \in DOMAIN Drops(<<v>>) : v \in Object /\ Drops(<<v>>)[i] = Drop(v)
  BY <1>1, <1>5
<1>7. ASSUME NEW c \in Cell PROVE Times(Drop(c), Drops(<<v>>)) = One(c = v /\ c \in Object)
  <2>1. Times(c, <<v>>) = One(v = c)
    BY TimesOne
  <2>. QED
    BY <1>5, <2>1 DEF One
<1>. QED
  BY <1>3, <1>4, <1>5, <1>6, <1>7

-----------------------------------------------------------------------------
(* The terms of the sum, where they change.                                *)

\* A term of the sum is the same when what it counts is.
LEMMA SameTerms ==
  ASSUME NEW c
  PROVE  /\ UNCHANGED field => Fields(c)' = Fields(c)
         /\ UNCHANGED <<entry, work>> => Entries(c)' = Entries(c)
         /\ (\A r \in Record : rec'[r].held = rec[r].held) => Helds(c)' = Helds(c)
         /\ UNCHANGED rec => Helds(c)' = Helds(c)
         /\ UNCHANGED work => Values(c)' = Values(c) /\ Owed(c)' = Owed(c)
         /\ UNCHANGED owned => Own(c)' = Own(c)
         /\ UNCHANGED kept => Keeps(c)' = Keeps(c)
         /\ UNCHANGED queue => Queues(c)' = Queues(c)
         /\ UNCHANGED cleaning => Cleans(c)' = Cleans(c)
         /\ UNCHANGED given => Gives(c)' = Gives(c)
         /\ UNCHANGED <<owned, kept, queue, cleaning, given>> => Roots(c)' = Roots(c)
         /\ UNCHANGED <<field, entry, work, rec>> => Heap(c)' = Heap(c)
<1>1. UNCHANGED field => Fields(c)' = Fields(c)
  BY DEF Fields
<1>2. UNCHANGED <<entry, work>> => Entries(c)' = Entries(c)
  BY DEF Entries, Spent
<1>3. ASSUME \A r \in Record : rec'[r].held = rec[r].held PROVE Helds(c)' = Helds(c)
  <2>1. {r \in Record : rec'[r].held = c} = {r \in Record : rec[r].held = c}
    BY <1>3
  <2>. QED
    BY <2>1 DEF Helds
<1>4. UNCHANGED rec => Helds(c)' = Helds(c)
  BY DEF Helds
<1>5. UNCHANGED work => Values(c)' = Values(c) /\ Owed(c)' = Owed(c)
  BY DEF Values, Owed
<1>6. /\ UNCHANGED owned => Own(c)' = Own(c)
      /\ UNCHANGED kept => Keeps(c)' = Keeps(c)
      /\ UNCHANGED queue => Queues(c)' = Queues(c)
      /\ UNCHANGED cleaning => Cleans(c)' = Cleans(c)
      /\ UNCHANGED given => Gives(c)' = Gives(c)
  BY DEF Own, Keeps, Queues, Cleans, Gives
<1>7. UNCHANGED <<owned, kept, queue, cleaning, given>> => Roots(c)' = Roots(c)
  BY <1>6 DEF Roots
<1>8. UNCHANGED <<field, entry, work, rec>> => Heap(c)' = Heap(c)
  BY <1>1, <1>2, <1>4 DEF Heap
<1>. QED
  BY <1>1, <1>2, <1>3, <1>4, <1>5, <1>6, <1>7, <1>8

\* One field changes.
LEMMA FieldPut ==
  ASSUME NEW c, NEW o \in Object, \A p \in Object : p # o => field'[p] = field[p]
  PROVE  /\ Fields(c)' + One(field[o] = c) = Fields(c) + One(field'[o] = c)
         /\ Fields(c)' \in Nat
<1>. DEFINE A == {p \in Object : field[p] = c}
            B == {p \in Object : field'[p] = c}
<1>1. A \ {o} = B \ {o} /\ (o \in A <=> field[o] = c) /\ (o \in B <=> field'[o] = c)
  OBVIOUS
<1>2. IsFiniteSet(A)
  BY FiniteParts, FS_Subset
<1>3. Fields(c) = Cardinality(A) /\ Fields(c)' = Cardinality(B)
  BY DEF Fields
<1>. HIDE DEF A, B
<1>4. /\ Cardinality(A) \in Nat /\ Cardinality(B) \in Nat
      /\ Cardinality(A) + One(o \in B) = Cardinality(B) + One(o \in A)
  BY <1>1, <1>2, CountPut
<1>. QED
  BY <1>1, <1>3, <1>4 DEF One

\* One record changes.
LEMMA HeldPut ==
  ASSUME NEW c, NEW r \in Record, \A p \in Record : p # r => rec'[p].held = rec[p].held
  PROVE  /\ Helds(c)' + One(rec[r].held = c) = Helds(c) + One(rec'[r].held = c)
         /\ Helds(c)' \in Nat
<1>. DEFINE A == {p \in Record : rec[p].held = c}
            B == {p \in Record : rec'[p].held = c}
<1>1. A \ {r} = B \ {r} /\ (r \in A <=> rec[r].held = c) /\ (r \in B <=> rec'[r].held = c)
  OBVIOUS
<1>2. IsFiniteSet(A)
  BY FiniteParts, FS_Subset
<1>3. Helds(c) = Cardinality(A) /\ Helds(c)' = Cardinality(B)
  BY DEF Helds
<1>. HIDE DEF A, B
<1>4. /\ Cardinality(A) \in Nat /\ Cardinality(B) \in Nat
      /\ Cardinality(A) + One(r \in B) = Cardinality(B) + One(r \in A)
  BY <1>1, <1>2, CountPut
<1>. QED
  BY <1>1, <1>3, <1>4 DEF One

\* One entry changes, or is dropped.
LEMMA EntryPut ==
  ASSUME NEW c, NEW m \in WMap, NEW k \in Object,
         \A n \in WMap, o \in Object : <<n, o>> # <<m, k>> =>
            entry'[n][o] = entry[n][o] /\ (Spent(n, o)' <=> Spent(n, o))
  PROVE  /\ Entries(c)' + One(entry[m][k] = c /\ ~Spent(m, k))
               = Entries(c) + One(entry'[m][k] = c /\ ~Spent(m, k)')
         /\ Entries(c)' \in Nat
<1>. DEFINE A == {mk \in WMap \X Object : entry[mk[1]][mk[2]] = c /\ ~Spent(mk[1], mk[2])}
            B == {mk \in WMap \X Object : entry'[mk[1]][mk[2]] = c /\ ~Spent(mk[1], mk[2])'}
            p == <<m, k>>
<1>1. /\ p \in A <=> entry[m][k] = c /\ ~Spent(m, k)
      /\ p \in B <=> entry'[m][k] = c /\ ~Spent(m, k)'
  OBVIOUS
<1>2. A \ {p} = B \ {p}
  <2>1. ASSUME NEW mk \in WMap \X Object, mk # p PROVE mk \in A <=> mk \in B
    <3>1. PICK n \in WMap, o \in Object : mk = <<n, o>>
      OBVIOUS
    <3>2. /\ mk \in A <=> entry[n][o] = c /\ ~Spent(n, o)
          /\ mk \in B <=> entry'[n][o] = c /\ ~Spent(n, o)'
      BY <3>1
    <3>. QED
      BY <2>1, <3>1, <3>2
  <2>2. A \subseteq WMap \X Object /\ B \subseteq WMap \X Object
    OBVIOUS
  <2>. HIDE DEF A, B, p
  <2>. QED
    BY <2>1, <2>2
<1>3. IsFiniteSet(A)
  <2>1. A \subseteq WMap \X Object
    OBVIOUS
  <2>. HIDE DEF A
  <2>. QED
    BY <2>1, FiniteParts, FS_Subset
<1>4. Entries(c) = Cardinality(A) /\ Entries(c)' = Cardinality(B)
  BY DEF Entries
<1>. HIDE DEF A, B, p
<1>5. /\ Cardinality(A) \in Nat /\ Cardinality(B) \in Nat
      /\ Cardinality(A) + One(p \in B) = Cardinality(B) + One(p \in A)
  BY <1>2, <1>3, CountPut
<1>. QED
  BY <1>1, <1>4, <1>5 DEF One

\* The same entries, spent or not.
LEMMA EntriesSame ==
  ASSUME NEW c,
         \A n \in WMap, o \in Object :
            (entry'[n][o] = c /\ ~Spent(n, o)') <=> (entry[n][o] = c /\ ~Spent(n, o))
  PROVE  Entries(c)' = Entries(c)
<1>. DEFINE A == {mk \in WMap \X Object : entry[mk[1]][mk[2]] = c /\ ~Spent(mk[1], mk[2])}
            B == {mk \in WMap \X Object : entry'[mk[1]][mk[2]] = c /\ ~Spent(mk[1], mk[2])'}
<1>1. ASSUME NEW mk \in WMap \X Object PROVE mk \in A <=> mk \in B
  <2>1. PICK n \in WMap, o \in Object : mk = <<n, o>>
    OBVIOUS
  <2>2. /\ mk \in A <=> entry[n][o] = c /\ ~Spent(n, o)
        /\ mk \in B <=> entry'[n][o] = c /\ ~Spent(n, o)'
    BY <2>1
  <2>. QED
    BY <2>2
<1>2. A = B
  BY <1>1
<1>. QED
  BY <1>2 DEF Entries

\* No call holds a value, but a store.
LEMMA NoValues ==
  ASSUME Plain, Types, NEW c \in Cell, \A i \in DOMAIN work : work[i].op # "store"
  PROVE  Values(c) = 0
<1>1. c # None
  BY CellAssumption
<1>2. {i \in DOMAIN work : work[i].value = c} = {}
  BY <1>1 DEF Plain
<1>. QED
  BY <1>2, FS_EmptySet DEF Values


-----------------------------------------------------------------------------
(* A deal, seen by what asks about the calls.                              *)

\* A deal takes the head and brings its own calls, and no more.
LEMMA DealtCalls ==
  ASSUME Types, NEW new, Deals(new)
  PROVE  /\ \A m, k : CallsOn(work', "deregister", m, k) <=> CallsOn(work, "deregister", m, k)
         /\ \A m, k : Spent(m, k)' <=> Spent(m, k)
         /\ \A op, c : Calls(work', op, c) =>
               Calls(new, op, c) \/ \E i \in DOMAIN work : /\ i # 1
                                                           /\ work[i].op = op /\ work[i].cell = c
         /\ \A op, c : Calls(new, op, c) => Calls(work', op, c)
         /\ \A op, c : Calls(work, op, c) /\ ~(Head(work).op = op /\ Head(work).cell = c) =>
               Calls(work', op, c)
<1>0. PICK d : d = Len(new) - 1
  OBVIOUS
<1>. DEFINE t == work'
            Old(j) == j - d \in DOMAIN work /\ j - d # 1 /\ t[j] = work[j - d]
                      /\ (j - d) + d = j
<1>. HIDE DEF t, Old
<1>1. \A j \in DOMAIN t : j \in DOMAIN new \/ Old(j)
  BY <1>0, DealtAt DEF t, Old
<1>2. /\ 1 \in DOMAIN work /\ Head(work) = work[1] /\ Light(work[1])
      /\ \A i \in DOMAIN new : i \in DOMAIN t /\ t[i] = new[i]
  BY <1>0, DealtAt DEF t
<1>3. \A i \in DOMAIN work : i # 1 => i + d \in DOMAIN t /\ t[i + d] = work[i]
  BY <1>0, DealtAt DEF t
<1>4. /\ \A i \in DOMAIN new : t[i].op \in {"drop", "walk", "next"}
      /\ work[1].op \in {"drop", "walk", "next"}
  BY <1>2 DEF Deals, Light
<1>5. ASSUME NEW m, NEW k
      PROVE  CallsOn(t, "deregister", m, k) <=> CallsOn(work, "deregister", m, k)
  <2>1. CallsOn(t, "deregister", m, k) => CallsOn(work, "deregister", m, k)
    BY <1>1, <1>4 DEF CallsOn, Old
  <2>2. CallsOn(work, "deregister", m, k) => CallsOn(t, "deregister", m, k)
    BY <1>3, <1>4 DEF CallsOn
  <2>. QED
    BY <2>1, <2>2
<1>6. ASSUME NEW m, NEW k
      PROVE  Spent(m, k)' <=> Spent(m, k)
  <2>1. Spent(m, k)' => Spent(m, k)
    <3>1. ASSUME NEW j \in DOMAIN t, t[j].op \in {"entryDropped", "store"}, t[j].cell = m,
                 t[j].key = k
          PROVE  Spent(m, k)
      <4>1. Old(j)
        BY <1>1, <1>4, <3>1
      <4>. QED
        BY <3>1, <4>1 DEF Spent, Old
    <3>. QED
      BY <3>1 DEF Spent, t
  <2>2. Spent(m, k) => Spent(m, k)'
    <3>1. ASSUME NEW i \in DOMAIN work, work[i].op \in {"entryDropped", "store"},
                 work[i].cell = m, work[i].key = k
          PROVE  \E j \in DOMAIN t : t[j].op \in {"entryDropped", "store"} /\ t[j].cell = m
                                     /\ t[j].key = k
      <4>1. i # 1
        BY <1>4, <3>1
      <4>. QED
        BY <1>3, <3>1, <4>1
    <3>. QED
      BY <3>1 DEF Spent, t
  <2>. QED
    BY <2>1, <2>2
<1>7. ASSUME NEW op, NEW c, Calls(t, op, c)
      PROVE  Calls(new, op, c) \/ \E i \in DOMAIN work : i # 1 /\ work[i].op = op /\ work[i].cell = c
  BY <1>1, <1>2, <1>7 DEF Calls, Old
<1>8. ASSUME NEW op, NEW c, Calls(new, op, c)
      PROVE  Calls(t, op, c)
  BY <1>2, <1>8 DEF Calls
<1>9. ASSUME NEW op, NEW c, Calls(work, op, c), ~(Head(work).op = op /\ Head(work).cell = c)
      PROVE  Calls(t, op, c)
  BY <1>2, <1>3, <1>9 DEF Calls
<1>. QED
  BY <1>5, <1>6, <1>7, <1>8, <1>9 DEF t

\* And the references it holds.
LEMMA DealtOwing ==
  ASSUME Types, NEW new, Deals(new), NEW c \in Cell
  PROVE  /\ Values(c)' = Values(c)
         /\ Owed(c) \in Nat /\ Owed(c)' \in Nat /\ Times(Drop(c), new) \in Nat
         /\ Now # Drop(c) => Owed(c)' = Owed(c) + Times(Drop(c), new)
         /\ Now = Drop(c) => Owed(c)' + 1 = Owed(c) + Times(Drop(c), new)
         /\ Stack(c) \in Nat /\ Stack(c)' \in Nat
         /\ Now # Drop(c) => Stack(c)' = Stack(c) + Times(Drop(c), new)
         /\ Now = Drop(c) => Stack(c)' + 1 = Stack(c) + Times(Drop(c), new)
<1>. DEFINE s == work
            r == Tail(work)
            t == work'
            K == {e \in CallSet : e.value = c}
<1>1. /\ s \in Seq(CallSet) /\ s # <<>> /\ r \in Seq(CallSet) /\ new \in Seq(CallSet)
      /\ t = new \o r /\ t \in Seq(CallSet) /\ Head(s) = s[1] /\ 1 \in DOMAIN s
  BY DEF Types, Deals
<1>2. c # None
  BY CellAssumption
<1>3. Times(Drop(c), t) = Times(Drop(c), new) + Times(Drop(c), r)
  <2>. HIDE DEF r, t
  <2>. QED
    BY <1>1, TimesConcat
<1>4. Times(Drop(c), s) = Times(Drop(c), r) + One(Head(s) = Drop(c))
  BY <1>1, TimesTail
<1>5. Times(Drop(c), new) \in Nat /\ Times(Drop(c), r) \in Nat
  <2>. HIDE DEF r
  <2>. QED
    BY <1>1, TimesNat
<1>6. /\ Owed(c) \in Nat /\ Owed(c)' \in Nat /\ Times(Drop(c), new) \in Nat
      /\ Now # Drop(c) => Owed(c)' = Owed(c) + Times(Drop(c), new)
      /\ Now = Drop(c) => Owed(c)' + 1 = Owed(c) + Times(Drop(c), new)
  <2>1. Owed(c) = Times(Drop(c), s) /\ Owed(c)' = Times(Drop(c), t)
    BY DEF Owed
  <2>. HIDE DEF s, t, r
  <2>2. Now = Head(s)
    BY DEF Now, s
  <2>. QED
    BY <1>3, <1>4, <1>5, <2>1, <2>2 DEF One
<1>7. \A u \in Seq(CallSet) : {i \in DOMAIN u : u[i].value = c} = {i \in DOMAIN u : u[i] \in K}
  OBVIOUS
<1>8. CountIn(t, K) = CountIn(new, K) + CountIn(r, K)
  <2>. HIDE DEF r, t, K
  <2>. QED
    BY <1>1, CountConcat
<1>9. CountIn(new, K) = 0
  <2>1. \A i \in DOMAIN new : new[i] \notin K
    BY <1>2 DEF Deals, Light
  <2>. HIDE DEF K
  <2>. QED
    BY <1>1, <2>1, CountNat
<1>10. CountIn(s, K) = CountIn(r, K)
  <2>. DEFINE h == <<Head(s)>>
  <2>1. h \in Seq(CallSet) /\ s = h \o r /\ DOMAIN h = {1} /\ h[1] = Head(s)
    BY <1>1
  <2>2. h[1] \notin K
    BY <1>2, <2>1 DEF Deals, Light
  <2>. HIDE DEF h, r, K
  <2>3. CountIn(h, K) = 0
    BY <2>1, <2>2, CountNat
  <2>4. CountIn(h \o r, K) = CountIn(h, K) + CountIn(r, K)
    BY <1>1, <2>1, CountConcat
  <2>6. CountIn(r, K) \in Nat
    BY <1>1, CountNat
  <2>5. CountIn(s, K) = CountIn(h \o r, K)
    BY <2>1
  <2>. QED
    BY <2>3, <2>4, <2>5, <2>6
<1>11. CountIn(r, K) \in Nat
  <2>. HIDE DEF r, K
  <2>. QED
    BY <1>1, CountNat
<1>12. Values(c) = CountIn(s, K) /\ Values(c)' = CountIn(t, K)
  <2>1. Values(c) = Cardinality({i \in DOMAIN s : s[i].value = c})
    BY DEF Values
  <2>2. Values(c)' = Cardinality({i \in DOMAIN t : t[i].value = c})
    BY DEF Values
  <2>. HIDE DEF s, t, K
  <2>. QED
    BY <1>1, <1>7, <2>1, <2>2 DEF CountIn
<1>13. Values(c)' = Values(c) /\ Values(c) \in Nat
  BY <1>8, <1>9, <1>10, <1>11, <1>12
<1>. HIDE DEF s, r, t, K
<1>. QED
  BY <1>6, <1>13 DEF Stack

-----------------------------------------------------------------------------
(* What a step leaves alone.                                               *)

\* The conjuncts of the invariant, and of theirs.
LEMMA Parts ==
  RegistryInv => /\ Types /\ TypeOK /\ Filed /\ Listed /\ Gone /\ Stacked /\ Separate
                 /\ Counted /\ Giving
                 /\ NodesOnce /\ RefNodes /\ TargetNodes /\ TokenNodes /\ MapNodes
                 /\ Plain /\ DropsOK /\ WalksOK /\ NextsOK /\ EntriesOK /\ DroppingOK
                 /\ StoresOK /\ LeavingOK /\ SweepsOK /\ OneWalk
                 /\ Placed /\ LiveCells /\ DueCells
  BY DEF RegistryInv, Types, Listed, Stacked, Filed

\* The records are filed as they were.
LEMMA FiledSame ==
  Filed /\ UNCHANGED <<rec, cells, pending, cleaning, queue, stopped>> => Filed'
  BY DEF Filed, Placed, LiveCells, DueCells, LiveAt, Due, Unused, Once, Has

\* The lists are as they were, but for maps.
LEMMA ListedSame ==
  NodesOnce /\ RefNodes /\ TargetNodes /\ TokenNodes /\ UNCHANGED <<nodes, target, rec>>
     => NodesOnce' /\ RefNodes' /\ TargetNodes' /\ TokenNodes'
  BY DEF NodesOnce, RefNodes, TargetNodes, TokenNodes

\* What is given is as it was.
LEMMA GivingSame == Giving /\ UNCHANGED <<given, phase>> => Giving'
  BY DEF Giving

\* Maps and their nodes are as they were.
LEMMA MapNodesSame ==
  ASSUME MapNodes, UNCHANGED <<nodes, entry>>,
         \A m \in WMap, t \in Object :
            CallsOn(work, "deregister", m, t) => CallsOn(work', "deregister", m, t),
         \A t \in Object : Calls(work, "next", t) => Calls(work', "next", t)
  PROVE  MapNodes'
<1>. SUFFICES ASSUME NEW t \in Object, NEW m \in WMap
              PROVE  /\ entry[m][t] # None => Has(nodes[t], Node("map", m))
                     /\ Has(nodes[t], Node("map", m)) =>
                           entry[m][t] # None \/ Leaves(m, t)' \/ Nexts(m, t)'
  BY DEF MapNodes
<1>1. /\ entry[m][t] # None => Has(nodes[t], Node("map", m))
      /\ Has(nodes[t], Node("map", m)) => entry[m][t] # None \/ Leaves(m, t) \/ Nexts(m, t)
  BY DEF MapNodes
<1>2. Leaves(m, t) => Leaves(m, t)'
  BY DEF Leaves
<1>3. Nexts(m, t) => Nexts(m, t)'
  BY DEF Nexts
<1>. QED
  BY <1>1, <1>2, <1>3

\* Who is dead was, and is still being walked.
LEMMA GoneSame ==
  ASSUME Gone, UNCHANGED <<nodes, target>>,
         \A c \in Cell : rc'[c] = 0 => rc[c] = 0,
         \A t \in Object : Calls(work, "walk", t) \/ Calls(work, "next", t) =>
                              Calls(work', "walk", t) \/ Calls(work', "next", t)
  PROVE  Gone'
<1>1. \A t \in Object : rc'[t] = 0 => Vacant(t)'
  <2>. SUFFICES ASSUME NEW t \in Object, rc'[t] = 0 PROVE Vacant(t)'
    OBVIOUS
  <2>1. Vacant(t)
    BY DEF Gone, Cell
  <2>. QED
    BY <2>1 DEF Vacant
<1>2. \A w \in Ref : rc'[w] = 0 => target'[w] = None
  BY DEF Gone, Cell
<1>. QED
  BY <1>1, <1>2 DEF Gone

\* The calls below the head may stay when what they rest on does.
LEMMA FramesSame ==
  ASSUME Stacked, UNCHANGED <<owned, nodes, entry>>,
         \A t \in Object : rc[t] = 0 => rc'[t] = 0, NEW new
  PROVE  Frames(new)
<1>1. ASSUME NEW i \in DOMAIN work, work[i].op \in {"entryDropped", "store"}
      PROVE  entry[work[i].cell][work[i].key] # None
  BY <1>1 DEF Stacked, DroppingOK, StoresOK
<1>. QED
  BY <1>1 DEF Frames

\* The call at the head.
LEMMA HeadIs ==
  ASSUME Types, work # <<>>
  PROVE  /\ 1 \in DOMAIN work /\ Now = work[1] /\ Now \in CallSet /\ Len(work) \in Nat
         /\ Now.op \in Ops /\ Now.cell \in Cell /\ Now.key \in Word
         /\ Tail(work) \in Seq(CallSet) /\ Len(Tail(work)) = Len(work) - 1
         /\ DOMAIN work = 1 .. Len(work) /\ Len(work) > 0
         /\ work = <<Now>> \o Tail(work)
<1>1. work \in Seq(CallSet) /\ work # <<>>
  BY DEF Types
<1>2. /\ 1 \in DOMAIN work /\ Now = work[1] /\ Now \in CallSet
      /\ Tail(work) \in Seq(CallSet) /\ Len(Tail(work)) = Len(work) - 1
      /\ DOMAIN work = 1 .. Len(work) /\ Len(work) > 0 /\ Len(work) \in Nat
  BY <1>1 DEF Now
<1>3. work = <<Now>> \o Tail(work)
  BY <1>1 DEF Now
<1>4. Now.op \in Ops /\ Now.cell \in Cell /\ Now.key \in Word
  BY <1>2 DEF CallSet
<1>. QED
  BY <1>2, <1>3, <1>4

\* A drop at the head is no more than its cell.
LEMMA DropNow ==
  ASSUME Types, Plain, At("drop")
  PROVE  Now = Drop(Now.cell) /\ work # <<>> /\ Now.cell \in Cell
  BY HeadIs DEF At, Plain

\* The kinds of cell, and None.
LEMMA Kinds ==
  /\ \A o \in Object : o \in Cell /\ o \notin Ref /\ o \notin WMap /\ o \notin Reg
  /\ \A w \in Ref : w \in Cell /\ w \notin WMap /\ w \notin Reg /\ w \notin Object
  /\ \A m \in WMap : m \in Cell /\ m \notin Reg /\ m \notin Object /\ m \notin Ref
  /\ \A f \in Reg : f \in Cell /\ f \notin WMap /\ f \notin Object /\ f \notin Ref
  /\ None \notin Cell /\ Primitive \notin Cell /\ None # Primitive
  BY CellAssumption DEF Cell

-----------------------------------------------------------------------------
(* A cascade: a shared object loses a reference.                           *)


\* The head returns.
LEMMA NoneDealt ==
  ASSUME Types, work # <<>>, Light(Now), work' = Tail(work)
  PROVE  Deals(<<>>) /\ Founded(<<>>)
<1>1. Deals(<<>>)
  BY HeadIs DEF Deals, Now
<1>. QED
  BY <1>1 DEF Founded

\* DropShared, of an object: a reference goes and others remain.
LEMMA DropSharedObject ==
  ASSUME RegistryInv, DropShared, Now.cell \in Object
  PROVE  RegistryInv'
<1>. DEFINE o == Now.cell
<1>0. /\ Types /\ TypeOK /\ Filed /\ Listed /\ Gone /\ Stacked /\ Separate
      /\ Counted /\ Giving /\ Plain
      /\ NodesOnce /\ RefNodes /\ TargetNodes /\ TokenNodes /\ MapNodes
  BY Parts
<1>1. /\ At("drop") /\ rc[o] # 1 /\ rc' = [rc EXCEPT ![o] = @ - 1] /\ work' = Tail(work)
      /\ UNCHANGED <<owned, field, weak, fin, kept, host>>
  BY DEF DropShared
<1>2. Now = Drop(o) /\ work # <<>> /\ o \in Cell /\ o \in Object
  BY <1>0, <1>1, DropNow
<1>3. /\ 1 \in DOMAIN work /\ Now = work[1] /\ Now.op = "drop" /\ Tail(work) \in Seq(CallSet)
      /\ Light(Now)
  BY <1>0, <1>2, HeadIs, DropIs
<1>4. rc[o] \in Nat \ {0}
  BY <1>0, <1>3, Alive
<1>. HIDE DEF o
<1>5. /\ rc' \in [Cell -> Nat] /\ rc \in [Cell -> Nat]
      /\ \A c \in Cell : rc'[c] = IF c = o THEN rc[c] - 1 ELSE rc[c]
      /\ \A c \in Cell : rc'[c] = 0 <=> rc[c] = 0
  BY <1>0, <1>1, <1>2, <1>4 DEF Types, TypeOK
<1>6. Types'
  BY <1>0, <1>1, <1>3, <1>5 DEF Types, TypeOK, weak, fin, host
<1>7. Deals(<<>>) /\ Founded(<<>>)
  BY <1>0, <1>1, <1>2, <1>3, NoneDealt
<1>8. Frames(<<>>)
  BY <1>0, <1>1, <1>5, FramesSame, Kinds DEF weak
<1>9. Stacked'
  BY <1>0, <1>7, <1>8, LightStacked
<1>10. Separate'
  <2>1. \A m \in WMap, s \in SUBSET Object : Apart(m, s) /\ Under(m, s) =>
           Apart(m, s)' /\ \A i \in DOMAIN <<>> : <<>>[i].cell \in s
    BY <1>1 DEF Apart, Follows, weak
  <2>. QED
    BY <1>0, <1>7, <2>1, LightSeparate
<1>11. /\ \A m, k : CallsOn(work', "deregister", m, k) <=> CallsOn(work, "deregister", m, k)
       /\ \A m, k : Spent(m, k)' <=> Spent(m, k)
       /\ \A c : /\ Calls(work, "next", c) => Calls(work', "next", c)
                 /\ Calls(work, "walk", c) => Calls(work', "walk", c)
  BY <1>0, <1>3, <1>7, DealtCalls DEF Now
<1>12. MapNodes'
  BY <1>0, <1>1, <1>11, MapNodesSame DEF weak
<1>13. Gone'
  BY <1>0, <1>1, <1>5, <1>11, GoneSame DEF weak
<1>14. Counted'
  <2>. SUFFICES ASSUME NEW c \in Cell PROVE rc'[c] = Owing(c)'
    BY DEF Counted
  <2>1. /\ Stack(c) \in Nat /\ Stack(c)' \in Nat
        /\ Now # Drop(c) => Stack(c)' = Stack(c) + Times(Drop(c), <<>>)
        /\ Now = Drop(c) => Stack(c)' + 1 = Stack(c) + Times(Drop(c), <<>>)
    BY <1>0, <1>7, DealtOwing
  <2>2. Times(Drop(c), <<>>) = 0
    BY <1>3, TimesNat
  <2>3. Entries(c)' = Entries(c)
    BY <1>1, <1>11, EntriesSame DEF weak
  <2>4. Fields(c)' = Fields(c) /\ Helds(c)' = Helds(c) /\ Roots(c)' = Roots(c)
    BY <1>1, SameTerms DEF fin, host
  <2>5. Heap(c)' = Heap(c)
    BY <2>3, <2>4 DEF Heap
  <2>6. rc[c] = Owing(c)
    BY <1>0 DEF Counted
  <2>7. Roots(c) \in Nat /\ Heap(c) \in Nat
    BY <1>0, TermsNat
  <2>8. Now = Drop(c) <=> c = o
    BY <1>2, DropIs
  <2>. QED
    BY <1>5, <2>1, <2>2, <2>4, <2>5, <2>6, <2>7, <2>8 DEF Owing
<1>. QED
  BY <1>0, <1>1, <1>6, <1>9, <1>10, <1>12, <1>13, <1>14, FiledSame, ListedSame, GivingSame
     DEF RegistryInv, Listed, weak, fin, host

-----------------------------------------------------------------------------
(* A cascade: the walk of a dead object's list.                            *)

\* The object walked is dead.
LEMMA WalkNow ==
  ASSUME Types, Stacked, At("walk") \/ At("next")
  PROVE  /\ work # <<>> /\ Light(Now) /\ Walks(Now) /\ Now.op \in {"walk", "next"}
         /\ Now.cell \in Object /\ rc[Now.cell] = 0
         /\ \A i \in DOMAIN work : i # 1 /\ Walks(work[i]) => work[i].cell # Now.cell
         /\ \A c : Now # Drop(c)
<1>1. work # <<>> /\ Now.op \in {"walk", "next"}
  BY DEF At, Now
<1>2. 1 \in DOMAIN work /\ Now = work[1] /\ Now \in CallSet
  BY <1>1, HeadIs
<1>3. Now.cell \in Object /\ rc[Now.cell] = 0 /\ Now.value = None
  BY <1>1, <1>2 DEF Stacked, WalksOK, Plain
<1>4. \A i \in DOMAIN work : i # 1 /\ Walks(work[i]) => work[i].cell # Now.cell
  BY <1>1, <1>2 DEF Stacked, OneWalk, Walks
<1>5. \A c : Now # Drop(c)
  BY <1>1, DropIs
<1>6. Light(Now)
  BY <1>1, <1>2, <1>3 DEF Light
<1>. QED
  BY <1>1, <1>3, <1>4, <1>5, <1>6 DEF Walks

\* The calls are as they were.
LEMMA SameDeal ==
  ASSUME Types, work # <<>>, Light(Now), UNCHANGED work
  PROVE  Deals(<<Now>>)
  BY HeadIs DEF Deals, Now

\* One node less.
LEMMA FreedLists ==
  ASSUME Types, NodesOnce, NEW o \in Object, nodes[o] # <<>>,
         nodes' = [nodes EXCEPT ![o] = Tail(@)]
  PROVE  /\ nodes' \in [Object -> Seq(NodeSet)] /\ NodesOnce'
         /\ Head(nodes[o]) \in NodeSet /\ Has(nodes[o], Head(nodes[o]))
         /\ \A t \in Object : t # o => nodes'[t] = nodes[t]
         /\ \A t \in Object : \A x :
               Has(nodes'[t], x) <=> Has(nodes[t], x) /\ ~(t = o /\ x = Head(nodes[o]))
<1>1. nodes \in [Object -> Seq(NodeSet)] /\ Once(nodes[o])
  BY DEF Types, NodesOnce
<1>2. /\ Tail(nodes[o]) \in Seq(NodeSet) /\ Head(nodes[o]) \in NodeSet /\ Once(Tail(nodes[o]))
      /\ Has(nodes[o], Head(nodes[o]))
      /\ \A x : Has(Tail(nodes[o]), x) <=> Has(nodes[o], x) /\ x # Head(nodes[o])
  BY <1>1, NodeFreed
<1>3. nodes'[o] = Tail(nodes[o]) /\ \A t \in Object : t # o => nodes'[t] = nodes[t]
  BY <1>1
<1>4. nodes' \in [Object -> Seq(NodeSet)]
  BY <1>1, <1>2
<1>5. NodesOnce'
  BY <1>2, <1>3 DEF NodesOnce
<1>6. \A t \in Object : \A x :
               Has(nodes'[t], x) <=> Has(nodes[t], x) /\ ~(t = o /\ x = Head(nodes[o]))
  BY <1>2, <1>3
<1>. QED
  BY <1>2, <1>3, <1>4, <1>5, <1>6

\* The sum, when the calls dealt hold what the call at the head did and the heap
\* changes nowhere.
LEMMA CountedSame ==
  ASSUME Types, Counted, NEW new, Deals(new), UNCHANGED <<rc, owned, kept, queue, cleaning, given>>,
         \A c \in Cell : Times(Drop(c), new) = One(Now = Drop(c)),
         \A c \in Cell : Heap(c)' = Heap(c)
  PROVE  Counted'
<1>. SUFFICES ASSUME NEW c \in Cell PROVE rc'[c] = Owing(c)'
  BY DEF Counted
<1>1. /\ Stack(c) \in Nat /\ Stack(c)' \in Nat
      /\ Now # Drop(c) => Stack(c)' = Stack(c) + Times(Drop(c), new)
      /\ Now = Drop(c) => Stack(c)' + 1 = Stack(c) + Times(Drop(c), new)
  BY DealtOwing
<1>2. Times(Drop(c), new) = IF Now = Drop(c) THEN 1 ELSE 0
  BY DEF One
<1>3. Stack(c)' = Stack(c)
  BY <1>1, <1>2
<1>4. Roots(c)' = Roots(c)
  BY SameTerms
<1>. QED
  BY <1>3, <1>4 DEF Counted, Owing

\* The heap, when only calls change, and spend nothing.
LEMMA HeapSame ==
  ASSUME Types, NEW new, Deals(new), UNCHANGED <<field, entry>>,
         \A r \in Record : rec'[r].held = rec[r].held, NEW c
  PROVE  Heap(c)' = Heap(c)
<1>1. \A m, k : Spent(m, k)' <=> Spent(m, k)
  BY DealtCalls
<1>2. Entries(c)' = Entries(c)
  BY <1>1, EntriesSame
<1>. QED
  BY <1>2, SameTerms DEF Heap

\* WalkEnds: the list is empty.
LEMMA WalkEndsStep ==
  ASSUME RegistryInv, WalkEnds
  PROVE  RegistryInv'
<1>. DEFINE o == Now.cell
<1>0. /\ Types /\ TypeOK /\ Filed /\ Listed /\ Gone /\ Stacked /\ Separate
      /\ Counted /\ Giving
      /\ NodesOnce /\ RefNodes /\ TargetNodes /\ TokenNodes /\ MapNodes
  BY Parts
<1>1. /\ At("walk") /\ nodes[o] = <<>> /\ work' = Tail(work)
      /\ UNCHANGED <<rc, owned, field, weak, fin, kept, host>>
      /\ UNCHANGED <<nodes, target, entry, rec, cells, pending, queue, phase, cleaning, given, stopped>>
  BY DEF WalkEnds, weak, fin, host
<1>2. work # <<>> /\ Light(Now) /\ o \in Object /\ Head(work).op = "walk" /\ Head(work).cell = o
      /\ \A c : Now # Drop(c)
  BY <1>0, <1>1, WalkNow DEF At, Now
<1>3. Tail(work) \in Seq(CallSet)
  BY <1>0, <1>2, HeadIs
<1>4. Deals(<<>>) /\ Founded(<<>>)
  BY <1>0, <1>1, <1>2, NoneDealt
<1>. HIDE DEF o
<1>5. Types'
  BY <1>0, <1>1, <1>3 DEF Types, TypeOK
<1>6. Stacked'
  <2>1. Frames(<<>>)
    BY <1>0, <1>1, FramesSame
  <2>. QED
    BY <1>0, <1>4, <2>1, LightStacked
<1>7. Separate'
  <2>1. \A m \in WMap, s \in SUBSET Object : Apart(m, s) /\ Under(m, s) =>
           Apart(m, s)' /\ \A i \in DOMAIN <<>> : <<>>[i].cell \in s
    BY <1>1 DEF Apart, Follows
  <2>. QED
    BY <1>0, <1>4, <2>1, LightSeparate
<1>8. /\ \A m, k : CallsOn(work', "deregister", m, k) <=> CallsOn(work, "deregister", m, k)
      /\ \A op, c : Calls(work, op, c) /\ ~(op = "walk" /\ c = o) => Calls(work', op, c)
  BY <1>0, <1>2, <1>4, DealtCalls
<1>9. MapNodes'
  BY <1>0, <1>1, <1>8, MapNodesSame
<1>10. Gone'
  <2>1. ASSUME NEW t \in Object, rc'[t] = 0 PROVE Vacant(t)'
    <3>1. CASE t = o
      BY <1>1, <3>1 DEF Vacant
    <3>2. CASE t # o
      <4>1. Vacant(t)
        BY <1>0, <1>1, <2>1 DEF Gone
      <4>. QED
        BY <1>1, <1>8, <3>2, <4>1 DEF Vacant
    <3>. QED
      BY <3>1, <3>2
  <2>. QED
    BY <1>0, <1>1, <2>1 DEF Gone
<1>11. Counted'
  <2>1. \A c : Times(Drop(c), <<>>) = 0
    BY <1>3, TimesNat
  <2>2. \A c \in Cell : Times(Drop(c), <<>>) = One(Now = Drop(c))
    BY <1>2, <2>1 DEF One
  <2>3. \A c \in Cell : Heap(c)' = Heap(c)
    BY <1>0, <1>1, <1>4, HeapSame
  <2>. QED
    BY <1>0, <1>1, <1>4, <2>2, <2>3, CountedSame
<1>. QED
  BY <1>0, <1>1, <1>5, <1>6, <1>7, <1>9, <1>10, <1>11, FiledSame, ListedSame, GivingSame
     DEF RegistryInv, Listed

\* NextNode: the handler of a map returns, and its node is freed.
LEMMA NextNodeStep ==
  ASSUME RegistryInv, NextNode
  PROVE  RegistryInv'
<1>. DEFINE o == Now.cell
            e == Call("walk", o, None, None)
<1>0. /\ Types /\ TypeOK /\ Filed /\ Listed /\ Gone /\ Stacked /\ Separate
      /\ Counted /\ Giving
      /\ NodesOnce /\ RefNodes /\ TargetNodes /\ TokenNodes /\ MapNodes
  BY Parts
<1>1. /\ At("next") /\ nodes' = [nodes EXCEPT ![o] = Tail(@)] /\ work' = <<e>> \o Tail(work)
      /\ UNCHANGED <<rc, owned, field, target, entry, rec, cells, pending, queue, kept, phase,
                     cleaning, given, stopped>>
  BY DEF NextNode, FreeNode, fin, host
<1>2. /\ work # <<>> /\ Light(Now) /\ o \in Object /\ Head(work).op = "next" /\ Head(work).cell = o
      /\ rc[o] = 0 /\ \A c : Now # Drop(c)
      /\ \A i \in DOMAIN work : i # 1 /\ Walks(work[i]) => work[i].cell # o
  BY <1>0, <1>1, WalkNow DEF At, Now
<1>3. Tail(work) \in Seq(CallSet) /\ Now \in CallSet /\ Now.op = "next"
      /\ 1 \in DOMAIN work /\ Now = work[1]
  BY <1>0, <1>1, <1>2, HeadIs DEF At, Now
<1>4. PICK m \in WMap : Head(nodes[o]) = Node("map", m) /\ entry[m][o] = None /\ nodes[o] # <<>>
  BY <1>0, <1>3 DEF Stacked, NextsOK
<1>5. Light(e) /\ e \in CallSet /\ e.op = "walk" /\ e.cell = o
  <2>1. o \in Cell
    BY <1>2, Kinds
  <2>. QED
    BY <1>2, <2>1 DEF Light, Call, CallSet, Ops, Word
<1>. HIDE DEF o, e
<1>6. /\ nodes' \in [Object -> Seq(NodeSet)] /\ NodesOnce'
      /\ \A t \in Object : t # o => nodes'[t] = nodes[t]
      /\ \A t \in Object : \A x :
               Has(nodes'[t], x) <=> Has(nodes[t], x) /\ ~(t = o /\ x = Node("map", m))
  <2>1. Types /\ NodesOnce
    BY <1>0
  <2>2. o \in Object /\ nodes[o] # <<>> /\ Head(nodes[o]) = Node("map", m)
    BY <1>2, <1>4
  <2>3. nodes' = [nodes EXCEPT ![o] = Tail(@)]
    BY <1>1
  <2>4. /\ nodes' \in [Object -> Seq(NodeSet)] /\ NodesOnce'
        /\ \A t \in Object : t # o => nodes'[t] = nodes[t]
        /\ \A t \in Object : \A x :
                 Has(nodes'[t], x) <=> Has(nodes[t], x) /\ ~(t = o /\ x = Head(nodes[o]))
    BY <2>1, <2>2, <2>3, FreedLists, ZenonT(60)
  <2>. QED
    BY <2>2, <2>4
<1>7. /\ <<e>> \in Seq(CallSet) /\ DOMAIN <<e>> = {1} /\ <<e>>[1] = e /\ work' \in Seq(CallSet)
  BY <1>1, <1>3, <1>5
<1>8. Deals(<<e>>)
  BY <1>1, <1>2, <1>5, <1>7 DEF Deals, Now
<1>9. Types'
  BY <1>0, <1>1, <1>6, <1>7 DEF Types, TypeOK
<1>10. Stacked'
  <2>1. Frames(<<e>>)
    <3>1. ASSUME NEW i \in DOMAIN work, work[i].op \in {"entryDropped", "store"}
          PROVE  entry[work[i].cell][work[i].key] # None
      BY <1>0, <3>1 DEF Stacked, DroppingOK, StoresOK
    <3>2. ASSUME NEW i \in DOMAIN work, i # 1, work[i].op = "next"
          PROVE  nodes'[work[i].cell] = nodes[work[i].cell]
      BY <1>0, <1>2, <1>6, <3>2 DEF Stacked, WalksOK, Walks
    <3>. QED
      BY <1>1, <3>1, <3>2 DEF Frames
  <2>2. Founded(<<e>>)
    BY <1>1, <1>2, <1>5, <1>7 DEF Founded, Walks
  <2>. QED
    BY <1>0, <1>8, <2>1, <2>2, LightStacked
<1>11. Separate'
  <2>1. ASSUME NEW n \in WMap, NEW s \in SUBSET Object, Apart(n, s), Under(n, s)
        PROVE  Apart(n, s)' /\ \A i \in DOMAIN <<e>> : <<e>>[i].cell \in s
    <3>1. o \in s
      BY <1>2, <1>3, <2>1, Kinds DEF Under, o
    <3>. QED
      BY <1>1, <1>5, <1>7, <2>1, <3>1 DEF Apart, Follows
  <2>. QED
    BY <1>0, <1>8, <2>1, LightSeparate
<1>12. /\ \A n, k : CallsOn(work', "deregister", n, k) <=> CallsOn(work, "deregister", n, k)
       /\ \A op, c : Calls(work, op, c) /\ ~(op = "next" /\ c = o) => Calls(work', op, c)
       /\ Calls(work', "walk", o)
  <2>1. Calls(<<e>>, "walk", o)
    BY <1>5, <1>7 DEF Calls
  <2>. QED
    BY <1>0, <1>2, <1>8, <2>1, DealtCalls
<1>13. RefNodes' /\ TargetNodes' /\ TokenNodes'
  <2>1. \A k, x : k # "map" => Node(k, x) # Node("map", m)
    BY NodeIs
  <2>. QED
    BY <1>0, <1>1, <1>6, <2>1 DEF RefNodes, TargetNodes, TokenNodes
<1>14. MapNodes'
  <2>. SUFFICES ASSUME NEW t \in Object, NEW n \in WMap
                PROVE  /\ entry[n][t] # None => Has(nodes'[t], Node("map", n))
                       /\ Has(nodes'[t], Node("map", n)) =>
                             entry[n][t] # None \/ Leaves(n, t)' \/ Nexts(n, t)'
    BY <1>1 DEF MapNodes
  <2>1. /\ entry[n][t] # None => Has(nodes[t], Node("map", n))
        /\ Has(nodes[t], Node("map", n)) => entry[n][t] # None \/ Leaves(n, t) \/ Nexts(n, t)
    BY <1>0 DEF MapNodes
  <2>2. Node("map", n) = Node("map", m) <=> n = m
    BY NodeIs
  <2>3. Leaves(n, t) => Leaves(n, t)'
    BY <1>12 DEF Leaves
  <2>4. t # o => (Nexts(n, t) => Nexts(n, t)')
    BY <1>6, <1>12 DEF Nexts
  <2>5. t = o /\ Nexts(n, t) => n = m
    BY <1>4, <2>2 DEF Nexts
  <2>. QED
    BY <1>4, <1>6, <2>1, <2>2, <2>3, <2>4, <2>5
<1>15. Gone'
  <2>1. ASSUME NEW t \in Object, rc'[t] = 0 PROVE Vacant(t)'
    <3>1. CASE t = o
      BY <1>12, <3>1 DEF Vacant
    <3>2. CASE t # o
      <4>1. Vacant(t)
        BY <1>0, <1>1, <2>1 DEF Gone
      <4>. QED
        BY <1>6, <1>12, <3>2, <4>1 DEF Vacant
    <3>. QED
      BY <3>1, <3>2
  <2>. QED
    BY <1>0, <1>1, <2>1 DEF Gone
<1>16. Counted'
  <2>1. ASSUME NEW c \in Cell PROVE Times(Drop(c), <<e>>) = One(Now = Drop(c))
    <3>1. e # Drop(c)
      BY <1>5, DropIs
    <3>2. Times(Drop(c), <<e>>) = One(e = Drop(c))
      BY TimesOne
    <3>. QED
      BY <1>2, <3>1, <3>2 DEF One
  <2>2. \A c \in Cell : Heap(c)' = Heap(c)
    BY <1>0, <1>1, <1>8, HeapSame
  <2>. QED
    BY <1>0, <1>1, <1>8, <2>1, <2>2, CountedSame
<1>. QED
  BY <1>0, <1>1, <1>6, <1>9, <1>10, <1>11, <1>13, <1>14, <1>15, <1>16, FiledSame, GivingSame
     DEF RegistryInv, Listed

\* The head of the walked list is freed when its handler returns.
LEMMA WalkFrees ==
  ASSUME Types, Stacked, Separate, Gone, MapNodes, NodesOnce, NEW o, o = Now.cell,
         At("walk"), nodes[o] # <<>>, Head(nodes[o]).kind # "map",
         nodes' = [nodes EXCEPT ![o] = Tail(@)],
         UNCHANGED <<owned, field, entry, work>>,
         \A t \in Object : rc'[t] = rc[t]
  PROVE  /\ o \in Object /\ work # <<>> /\ Light(Now) /\ rc[o] = 0
         /\ nodes' \in [Object -> Seq(NodeSet)] /\ NodesOnce'
         /\ Head(nodes[o]) \in NodeSet /\ Has(nodes[o], Head(nodes[o]))
         /\ \A t \in Object : \A x :
               Has(nodes'[t], x) <=> Has(nodes[t], x) /\ ~(t = o /\ x = Head(nodes[o]))
         /\ Stacked' /\ Separate' /\ MapNodes'
         /\ \A t \in Object : rc'[t] = 0 => Vacant(t)'
<1>1. /\ work # <<>> /\ Light(Now) /\ o \in Object /\ rc[o] = 0
      /\ Now.op = "walk" /\ Now.cell = o
      /\ \A i \in DOMAIN work : i # 1 /\ Walks(work[i]) => work[i].cell # o
  BY WalkNow DEF At, Now
<1>2. Now \in CallSet /\ 1 \in DOMAIN work /\ Now = work[1]
  BY <1>1, HeadIs
<1>3. /\ nodes' \in [Object -> Seq(NodeSet)] /\ NodesOnce'
      /\ Head(nodes[o]) \in NodeSet /\ Has(nodes[o], Head(nodes[o]))
      /\ \A t \in Object : t # o => nodes'[t] = nodes[t]
      /\ \A t \in Object : \A x :
               Has(nodes'[t], x) <=> Has(nodes[t], x) /\ ~(t = o /\ x = Head(nodes[o]))
  BY <1>1, FreedLists
<1>4. Deals(<<Now>>)
  BY <1>1, SameDeal
<1>5. DOMAIN <<Now>> = {1} /\ <<Now>>[1] = Now
  OBVIOUS
<1>6. Stacked'
  <2>1. Frames(<<Now>>)
    <3>1. ASSUME NEW i \in DOMAIN work, work[i].op \in {"entryDropped", "store"}
          PROVE  entry[work[i].cell][work[i].key] # None
      BY <3>1 DEF Stacked, DroppingOK, StoresOK
    <3>2. ASSUME NEW i \in DOMAIN work, i # 1, work[i].op = "next"
          PROVE  nodes'[work[i].cell] = nodes[work[i].cell]
      BY <1>1, <1>3, <3>2 DEF Stacked, WalksOK, Walks
    <3>. QED
      BY <3>1, <3>2 DEF Frames
  <2>2. Founded(<<Now>>)
    BY <1>1, <1>5 DEF Founded, Walks
  <2>. QED
    BY <1>4, <2>1, <2>2, LightStacked
<1>7. Separate'
  <2>1. ASSUME NEW n \in WMap, NEW s \in SUBSET Object, Apart(n, s), Under(n, s)
        PROVE  Apart(n, s)' /\ \A i \in DOMAIN <<Now>> : <<Now>>[i].cell \in s
    <3>1. o \in s
      BY <1>1, <1>2, <2>1, Kinds DEF Under
    <3>. QED
      BY <1>1, <1>5, <2>1, <3>1 DEF Apart, Follows
  <2>. QED
    BY <1>4, <2>1, LightSeparate
<1>8. ~Calls(work, "next", o)
  BY <1>1, <1>2 DEF Calls, Walks
<1>9. MapNodes'
  <2>. SUFFICES ASSUME NEW t \in Object, NEW m \in WMap
                PROVE  /\ entry[m][t] # None => Has(nodes'[t], Node("map", m))
                       /\ Has(nodes'[t], Node("map", m)) =>
                             entry[m][t] # None \/ Leaves(m, t)' \/ Nexts(m, t)'
    BY DEF MapNodes
  <2>1. /\ entry[m][t] # None => Has(nodes[t], Node("map", m))
        /\ Has(nodes[t], Node("map", m)) => entry[m][t] # None \/ Leaves(m, t) \/ Nexts(m, t)
    BY DEF MapNodes
  <2>2. Node("map", m) # Head(nodes[o])
    BY NodeIs
  <2>3. Leaves(m, t) => Leaves(m, t)'
    BY DEF Leaves
  <2>4. Nexts(m, t) => Nexts(m, t)'
    BY <1>3, <1>8 DEF Nexts
  <2>. QED
    BY <1>3, <2>1, <2>2, <2>3, <2>4
<1>10. \A t \in Object : rc'[t] = 0 => Vacant(t)'
  <2>. SUFFICES ASSUME NEW t \in Object, rc'[t] = 0 PROVE Vacant(t)'
    OBVIOUS
  <2>1. CASE t = o
    <3>1. Calls(work, "walk", o)
      BY <1>1, <1>2 DEF Calls
    <3>. QED
      BY <2>1, <3>1 DEF Vacant
  <2>2. CASE t # o
    <3>1. Vacant(t)
      BY DEF Gone
    <3>. QED
      BY <1>3, <2>2, <3>1 DEF Vacant
  <2>. QED
    BY <2>1, <2>2
<1>. QED
  BY <1>1, <1>3, <1>6, <1>7, <1>9, <1>10

\* ClearRef: a WeakRef forgets its dead target.
LEMMA ClearRefStep ==
  ASSUME RegistryInv, ClearRef
  PROVE  RegistryInv'
<1>. DEFINE o == Now.cell
            h == Head(nodes[o])
            w == h.owner
<1>0. /\ Types /\ TypeOK /\ Filed /\ Listed /\ Gone /\ Stacked /\ Separate
      /\ Counted /\ Giving
      /\ NodesOnce /\ RefNodes /\ TargetNodes /\ TokenNodes /\ MapNodes
  BY Parts
<1>1. /\ At("walk") /\ nodes[o] # <<>> /\ h.kind = "ref"
      /\ nodes' = [nodes EXCEPT ![o] = Tail(@)]
      /\ target' = [target EXCEPT ![w] = None]
      /\ UNCHANGED <<rc, owned, field, entry, rec, cells, pending, queue, kept, work, phase,
                     cleaning, given, stopped>>
  BY DEF ClearRef, Meets, Observer, FreeNode, fin, host
<1>. HIDE DEF o
<1>2. o = Now.cell
  BY DEF o
<1>3. /\ o \in Object /\ work # <<>> /\ Light(Now)
      /\ nodes' \in [Object -> Seq(NodeSet)] /\ NodesOnce'
      /\ h \in NodeSet /\ Has(nodes[o], h)
      /\ \A t \in Object : \A x : Has(nodes'[t], x) <=> Has(nodes[t], x) /\ ~(t = o /\ x = h)
      /\ Stacked' /\ Separate' /\ MapNodes'
      /\ \A t \in Object : rc'[t] = 0 => Vacant(t)'
  BY <1>0, <1>1, <1>2, WalkFrees
<1>. HIDE DEF h
<1>4. w \in Ref /\ h = Node("ref", w)
  BY <1>1, <1>3, NodeKinds
<1>. HIDE DEF w
<1>5. /\ target' \in [Ref -> Object \cup {None}] /\ target'[w] = None
      /\ \A v \in Ref : v # w => target'[v] = target[v]
  BY <1>0, <1>1, <1>4 DEF TypeOK
<1>6. target[w] = o
  BY <1>0, <1>3, <1>4 DEF RefNodes
<1>7. Types'
  BY <1>0, <1>1, <1>3, <1>5 DEF Types, TypeOK
<1>8. RefNodes'
  <2>. SUFFICES ASSUME NEW t \in Object, NEW v \in Ref
                PROVE  Has(nodes'[t], Node("ref", v)) <=> target'[v] = t
    BY DEF RefNodes
  <2>1. Has(nodes[t], Node("ref", v)) <=> target[v] = t
    BY <1>0 DEF RefNodes
  <2>2. Node("ref", v) = h <=> v = w
    BY <1>4, NodeIs
  <2>3. t # None
    BY Kinds
  <2>. QED
    BY <1>3, <1>5, <1>6, <2>1, <2>2, <2>3
<1>9. TargetNodes' /\ TokenNodes'
  <2>1. \A k, x : k # "ref" => Node(k, x) # h
    BY <1>4, NodeIs
  <2>. QED
    BY <1>0, <1>1, <1>3, <2>1 DEF TargetNodes, TokenNodes
<1>10. Gone'
  BY <1>0, <1>1, <1>3, <1>5 DEF Gone
<1>11. Counted'
  <2>1. \A c \in Cell : Roots(c)' = Roots(c) /\ Heap(c)' = Heap(c) /\ Stack(c)' = Stack(c)
    BY <1>1, SameTerms DEF Stack
  <2>. QED
    BY <1>0, <1>1, <2>1 DEF Counted, Owing
<1>. QED
  BY <1>0, <1>1, <1>3, <1>7, <1>8, <1>9, <1>10, <1>11, FiledSame, GivingSame
     DEF RegistryInv, Listed

\* TokenDied: a record forgets its dead token.
LEMMA TokenDiedStep ==
  ASSUME RegistryInv, TokenDied
  PROVE  RegistryInv'
<1>. DEFINE o == Now.cell
            h == Head(nodes[o])
            r == h.owner
<1>0. /\ Types /\ TypeOK /\ Filed /\ Listed /\ Gone /\ Stacked /\ Separate
      /\ Counted /\ Giving /\ Placed /\ LiveCells /\ DueCells
      /\ NodesOnce /\ RefNodes /\ TargetNodes /\ TokenNodes /\ MapNodes
  BY Parts
<1>1. /\ At("walk") /\ nodes[o] # <<>> /\ h.kind = "token"
      /\ nodes' = [nodes EXCEPT ![o] = Tail(@)]
      /\ rec' = [rec EXCEPT ![r].token = None]
      /\ UNCHANGED <<rc, owned, field, target, entry, cells, pending, queue, kept, work, phase,
                     cleaning, given, stopped>>
  BY DEF TokenDied, Meets, Observer, FreeNode, host
<1>. HIDE DEF o
<1>2. o = Now.cell
  BY DEF o
<1>3. /\ o \in Object /\ work # <<>> /\ Light(Now)
      /\ nodes' \in [Object -> Seq(NodeSet)] /\ NodesOnce'
      /\ h \in NodeSet /\ Has(nodes[o], h)
      /\ \A t \in Object : \A x : Has(nodes'[t], x) <=> Has(nodes[t], x) /\ ~(t = o /\ x = h)
      /\ Stacked' /\ Separate' /\ MapNodes'
      /\ \A t \in Object : rc'[t] = 0 => Vacant(t)'
  BY <1>0, <1>1, <1>2, WalkFrees
<1>. HIDE DEF h
<1>4. r \in Record /\ h = Node("token", r)
  BY <1>1, <1>3, NodeKinds
<1>. HIDE DEF r
<1>5. /\ rec' \in [Record -> RecordSet] /\ rec'[r].token = None
      /\ \A q \in Record : q # r => rec'[q] = rec[q]
      /\ \A q \in Record : /\ rec'[q].state = rec[q].state /\ rec'[q].of = rec[q].of
                           /\ rec'[q].target = rec[q].target /\ rec'[q].held = rec[q].held
                           /\ rec'[q].idx = rec[q].idx
  BY <1>0, <1>1, <1>4 DEF Types, RecordSet, Word
<1>6. rec[r].token = o
  BY <1>0, <1>3, <1>4 DEF TokenNodes
<1>7. Types'
  BY <1>0, <1>1, <1>3, <1>5 DEF Types, TypeOK
<1>8. Filed'
  <2>1. rec[r] # Unused
    BY <1>3, <1>6, Kinds DEF Unused
  <2>2. Placed'
    <3>. SUFFICES ASSUME NEW q \in Record
                  PROVE  /\ rec'[q].state = "free" => rec'[q] = Unused
                         /\ rec'[q].state = "live" => LiveAt(q)'
                         /\ rec'[q].state = "pending" => Due(q)'
      BY DEF Placed, Unused
    <3>1. /\ rec[q].state = "free" => rec[q] = Unused
          /\ rec[q].state = "live" => LiveAt(q)
          /\ rec[q].state = "pending" => Due(q)
      BY <1>0 DEF Placed
    <3>2. LiveAt(q) => LiveAt(q)'
      BY <1>1, <1>5 DEF LiveAt
    <3>3. Due(q) => Due(q)'
      BY <1>1, <1>5 DEF Due
    <3>. QED
      BY <1>5, <2>1, <3>1, <3>2, <3>3
  <2>3. LiveCells'
    <3>1. \A f \in Reg : \A i \in DOMAIN cells[f] : cells[f][i] \in Record
      BY <1>0 DEF Types
    <3>. QED
      BY <1>0, <1>1, <1>5, <3>1 DEF LiveCells
  <2>4. DueCells'
    <3>1. \A f \in Reg : \A i \in DOMAIN pending[f] : pending[f][i] \in Record
      BY <1>0 DEF Types
    <3>. QED
      BY <1>0, <1>1, <1>5, <3>1 DEF DueCells
  <2>. QED
    BY <1>0, <1>1, <2>2, <2>3, <2>4 DEF Filed
<1>9. RefNodes' /\ TargetNodes'
  <2>1. \A k, x : k # "token" => Node(k, x) # h
    BY <1>4, NodeIs
  <2>. QED
    BY <1>0, <1>1, <1>3, <1>5, <2>1 DEF TargetNodes, RefNodes
<1>10. TokenNodes'
  <2>. SUFFICES ASSUME NEW t \in Object, NEW q \in Record
                PROVE  Has(nodes'[t], Node("token", q)) <=> rec'[q].token = t
    BY DEF TokenNodes
  <2>1. Has(nodes[t], Node("token", q)) <=> rec[q].token = t
    BY <1>0 DEF TokenNodes
  <2>2. Node("token", q) = h <=> q = r
    BY <1>4, NodeIs
  <2>3. t # None
    BY Kinds
  <2>. QED
    BY <1>3, <1>5, <1>6, <2>1, <2>2, <2>3
<1>11. Gone'
  BY <1>0, <1>1, <1>3 DEF Gone
<1>12. Counted'
  <2>1. ASSUME NEW c \in Cell
        PROVE  Roots(c)' = Roots(c) /\ Heap(c)' = Heap(c) /\ Stack(c)' = Stack(c)
    <3>1. Helds(c)' = Helds(c)
      BY <1>5, SameTerms
    <3>. QED
      BY <1>1, <3>1, SameTerms DEF Stack, Heap
  <2>. QED
    BY <1>0, <1>1, <2>1 DEF Counted, Owing
<1>. QED
  BY <1>0, <1>1, <1>3, <1>7, <1>8, <1>9, <1>10, <1>11, <1>12, GivingSame
     DEF RegistryInv, Listed

-----------------------------------------------------------------------------
(* A cascade: an object dies, and a map loses the entry of a dead key.     *)

\* One call before or behind others.
LEMMA OneMore ==
  ASSUME NEW S, NEW e \in S, NEW s \in Seq(S)
  PROVE  /\ <<e>> \o s \in Seq(S) /\ s \o <<e>> \in Seq(S) /\ <<>> \o s = s
         /\ \A i \in DOMAIN (<<e>> \o s) :
               (i = 1 /\ (<<e>> \o s)[i] = e) \/ \E j \in DOMAIN s : (<<e>> \o s)[i] = s[j]
         /\ 1 \in DOMAIN (<<e>> \o s) /\ (<<e>> \o s)[1] = e
         /\ \A i \in DOMAIN (s \o <<e>>) :
               (i = Len(s) + 1 /\ (s \o <<e>>)[i] = e) \/ \E j \in DOMAIN s : (s \o <<e>>)[i] = s[j]
         /\ Len(s) + 1 \in DOMAIN (s \o <<e>>) /\ (s \o <<e>>)[Len(s) + 1] = e
         /\ \A c : /\ Times(c, <<e>> \o s) = Times(c, s) + One(e = c)
                   /\ Times(c, s \o <<e>>) = Times(c, s) + One(e = c)
<1>1. <<e>> \in Seq(S) /\ Len(s) \in Nat /\ DOMAIN s = 1 .. Len(s) /\ <<>> \o s = s
  OBVIOUS
<1>9. <<e>> \o s \in Seq(S) /\ s \o <<e>> \in Seq(S)
  OBVIOUS
<1>2. PICK p \in Seq(S) : p = <<e>> \o s
  BY <1>9
<1>3. PICK q \in Seq(S) : q = s \o <<e>>
  BY <1>9
<1>4. /\ DOMAIN p = 1 .. Len(s) + 1 /\ p[1] = e
      /\ \A i \in 2 .. Len(s) + 1 : i - 1 \in DOMAIN s /\ p[i] = s[i - 1]
  BY <1>1, <1>2
<1>5. /\ DOMAIN q = 1 .. Len(s) + 1 /\ q[Len(s) + 1] = e
      /\ \A i \in 1 .. Len(s) : i \in DOMAIN s /\ q[i] = s[i]
  BY <1>1, <1>3
<1>6. /\ \A i \in DOMAIN p : (i = 1 /\ p[i] = e) \/ \E j \in DOMAIN s : p[i] = s[j]
      /\ 1 \in DOMAIN p /\ p[1] = e
  <2>1. \A i \in 1 .. Len(s) + 1 : i = 1 \/ i \in 2 .. Len(s) + 1
    BY <1>1
  <2>2. 1 \in 1 .. Len(s) + 1
    BY <1>1
  <2>. QED
    BY <1>4, <2>1, <2>2
<1>7. /\ \A i \in DOMAIN q : (i = Len(s) + 1 /\ q[i] = e) \/ \E j \in DOMAIN s : q[i] = s[j]
      /\ Len(s) + 1 \in DOMAIN q /\ q[Len(s) + 1] = e
  <2>1. \A i \in 1 .. Len(s) + 1 : i = Len(s) + 1 \/ i \in 1 .. Len(s)
    BY <1>1
  <2>2. Len(s) + 1 \in 1 .. Len(s) + 1
    BY <1>1
  <2>. QED
    BY <1>5, <2>1, <2>2
<1>8. ASSUME NEW c
      PROVE  Times(c, p) = Times(c, s) + One(e = c) /\ Times(c, q) = Times(c, s) + One(e = c)
  <2>1. PICK u \in Seq(S) : u = <<e>>
    BY <1>1
  <2>2. Times(c, u) = One(e = c)
    BY <2>1, TimesOne
  <2>3. Times(c, u \o s) = Times(c, u) + Times(c, s) /\ Times(c, s \o u) = Times(c, s) + Times(c, u)
    BY <2>1, TimesConcat
  <2>4. Times(c, u) \in Nat /\ Times(c, s) \in Nat
    BY <2>1, TimesNat
  <2>5. p = u \o s /\ q = s \o u
    BY <1>2, <1>3, <2>1
  <2>6. Times(c, p) = Times(c, u) + Times(c, s) /\ Times(c, q) = Times(c, s) + Times(c, u)
    BY <2>3, <2>5
  <2>7. PICK x \in Nat, y \in Nat : x = Times(c, u) /\ y = Times(c, s)
    BY <2>4
  <2>8. Times(c, p) = x + y /\ Times(c, q) = y + x /\ x + y = y + x
    BY <2>6, <2>7
  <2>. QED
    BY <2>2, <2>7, <2>8
<1>. QED
  BY <1>1, <1>2, <1>3, <1>6, <1>7, <1>8

\* The null word and a primitive are held by nobody in particular.
LEMMA NoOne ==
  ASSUME NEW c \in Cell
  PROVE  One(None = c) = 0 /\ One(Primitive = c) = 0 /\ One(c = None) = 0
  BY Kinds DEF One

\* ObjectDies: the last reference goes, and with it that of its field.
LEMMA ObjectDiesStep ==
  ASSUME RegistryInv, NEW o \in Object, ObjectDies(o)
  PROVE  RegistryInv'
<1>. DEFINE p == field[o]
            e == Call("walk", o, None, None)
            ds == Drops(<<p>>)
            new == IF nodes[o] = <<>> THEN ds ELSE <<e>> \o ds
<1>0. /\ Types /\ TypeOK /\ Filed /\ Listed /\ Gone /\ Stacked /\ Separate
      /\ Counted /\ Giving /\ Plain /\ WalksOK
      /\ NodesOnce /\ RefNodes /\ TargetNodes /\ TokenNodes /\ MapNodes
  BY Parts
<1>1. /\ At("drop") /\ Now.cell = o /\ rc[o] = 1 /\ rc' = [rc EXCEPT ![o] = 0]
      /\ field' = [field EXCEPT ![o] = None]
      /\ work' = (IF nodes[o] = <<>> THEN <<>> ELSE <<e>>) \o ds \o Tail(work)
      /\ UNCHANGED <<owned, weak, fin, kept, host>>
      /\ UNCHANGED <<owned, nodes, target, entry, rec, cells, pending, queue, kept, phase, cleaning,
                     given, stopped>>
  BY DEF ObjectDies, Last1, weak, fin, host
<1>2. Now = Drop(o) /\ work # <<>> /\ o \in Cell
  BY <1>0, <1>1, DropNow
<1>3. /\ 1 \in DOMAIN work /\ Now = work[1] /\ Now.op = "drop" /\ Tail(work) \in Seq(CallSet)
      /\ Light(Now)
  BY <1>0, <1>2, HeadIs, DropIs
<1>4. /\ ds \in Seq(CallSet)
      /\ \A i \in DOMAIN ds : Light(ds[i]) /\ p \in Object /\ ds[i] = Drop(p)
      /\ \A c \in Cell : Times(Drop(c), ds) = One(c = p /\ c \in Object)
  BY DropOfOne
<1>5. Light(e) /\ e \in CallSet /\ e.op = "walk" /\ e.cell = o
  BY <1>2 DEF Light, Call, CallSet, Ops, Word
<1>6. p \in Object \cup {None}
  BY <1>0 DEF TypeOK
<1>. HIDE DEF p, e, ds
<1>7. /\ new \in Seq(CallSet)
      /\ \A i \in DOMAIN new : \/ i = 1 /\ new[i] = e /\ nodes[o] # <<>>
                               \/ p \in Object /\ new[i] = Drop(p)
      /\ nodes[o] # <<>> => 1 \in DOMAIN new /\ new[1] = e
  BY <1>4, <1>5, OneMore
<1>8. \A c \in Cell : Times(Drop(c), new) = One(c = p /\ c \in Object)
  <2>. SUFFICES ASSUME NEW c \in Cell PROVE Times(Drop(c), new) = One(c = p /\ c \in Object)
    OBVIOUS
  <2>1. One(e = Drop(c)) = 0
    <3>1. e # Drop(c)
      BY <1>5, DropIs
    <3>. QED
      BY <3>1 DEF One
  <2>2. Times(Drop(c), <<e>> \o ds) = Times(Drop(c), ds) + One(e = Drop(c))
    BY <1>4, <1>5, OneMore
  <2>3. Times(Drop(c), ds) \in Nat
    BY <1>4, TimesNat
  <2>4. Times(Drop(c), <<e>> \o ds) = Times(Drop(c), ds)
    BY <2>1, <2>2, <2>3
  <2>. QED
    BY <1>4, <2>4
<1>9. work' = new \o Tail(work)
  <2>1. <<>> \o ds = ds
    BY <1>4, <1>5, OneMore
  <2>. QED
    BY <1>1, <2>1
<1>. HIDE DEF new
<1>10. Deals(new)
  <2>1. \A i \in DOMAIN new : Light(new[i])
    BY <1>5, <1>7, DropIs
  <2>. QED
    BY <1>2, <1>3, <1>7, <1>9, <2>1 DEF Deals, Now
<1>11. /\ rc' \in [Cell -> Nat] /\ rc'[o] = 0 /\ \A c \in Cell : c # o => rc'[c] = rc[c]
       /\ field' \in [Object -> Object \cup {None}] /\ field'[o] = None
       /\ \A q \in Object : q # o => field'[q] = field[q]
  BY <1>0, <1>1, <1>2 DEF TypeOK
<1>12. Types'
  <2>1. work' \in Seq(CallSet)
    BY <1>3, <1>7, <1>9
  <2>. QED
    BY <1>0, <1>1, <1>11, <2>1 DEF Types, TypeOK
<1>13. Stacked'
  <2>1. Frames(new)
    <3>1. \A t \in Object : rc[t] = 0 => rc'[t] = 0
      BY <1>11, Kinds
    <3>. QED
      BY <1>0, <1>1, <3>1, FramesSame
  <2>2. Founded(new)
    <3>1. \A i \in DOMAIN new : Walks(new[i]) => i = 1 /\ new[i] = e
      BY <1>7, DropIs DEF Walks
    <3>2. \A i \in DOMAIN new : new[i].op # "next"
      BY <1>5, <1>7, DropIs
    <3>3. \A j \in DOMAIN work : Walks(work[j]) => work[j].cell # o
      BY <1>0, <1>1 DEF WalksOK, Walks
    <3>. QED
      BY <1>5, <1>11, <3>1, <3>2, <3>3 DEF Founded
  <2>. QED
    BY <1>0, <1>10, <2>1, <2>2, LightStacked
<1>14. Separate'
  <2>1. ASSUME NEW m \in WMap, NEW s \in SUBSET Object, Apart(m, s), Under(m, s)
        PROVE  Apart(m, s)' /\ \A i \in DOMAIN new : new[i].cell \in s
    <3>1. o \in s
      BY <1>1, <1>3, <2>1, Kinds DEF Under
    <3>2. p \in Object => p \in s
      BY <2>1, <3>1 DEF Apart, Follows, p
    <3>3. \A q \in s : Follows(q)' \subseteq Follows(q)
      <4>. SUFFICES ASSUME NEW q \in s PROVE Follows(q)' \subseteq Follows(q)
        OBVIOUS
      <4>1. field'[q] = field[q] \/ field'[q] = None
        BY <1>11
      <4>2. None \notin Object
        BY Kinds
      <4>. QED
        BY <1>1, <4>1, <4>2 DEF Follows
    <3>4. Apart(m, s)'
      BY <1>1, <2>1, <3>3 DEF Apart
    <3>5. \A i \in DOMAIN new : new[i].cell \in s
      BY <1>5, <1>7, <3>1, <3>2, DropIs
    <3>. QED
      BY <3>4, <3>5
  <2>. QED
    BY <1>0, <1>10, <2>1, LightSeparate
<1>15. /\ \A m, k : CallsOn(work', "deregister", m, k) <=> CallsOn(work, "deregister", m, k)
       /\ \A m, k : Spent(m, k)' <=> Spent(m, k)
       /\ \A c : /\ Calls(work, "next", c) => Calls(work', "next", c)
                 /\ Calls(work, "walk", c) => Calls(work', "walk", c)
       /\ \A c : Calls(new, "walk", c) => Calls(work', "walk", c)
  BY <1>0, <1>3, <1>10, DealtCalls DEF Now
<1>16. MapNodes'
  BY <1>0, <1>1, <1>15, MapNodesSame
<1>17. Gone'
  <2>1. ASSUME NEW t \in Object, rc'[t] = 0 PROVE Vacant(t)'
    <3>1. CASE t = o
      <4>1. nodes[o] # <<>> => Calls(work', "walk", o)
        BY <1>5, <1>7, <1>15 DEF Calls
      <4>. QED
        BY <1>1, <3>1, <4>1 DEF Vacant
    <3>2. CASE t # o
      <4>1. Vacant(t)
        BY <1>0, <1>11, <2>1, <3>2, Kinds DEF Gone
      <4>. QED
        BY <1>1, <1>15, <4>1 DEF Vacant
    <3>. QED
      BY <3>1, <3>2
  <2>2. \A w \in Ref : rc'[w] = 0 => target'[w] = None
    BY <1>0, <1>1, <1>11, Kinds DEF Gone
  <2>. QED
    BY <2>1, <2>2 DEF Gone
<1>18. Counted'
  <2>. SUFFICES ASSUME NEW c \in Cell PROVE rc'[c] = Owing(c)'
    BY DEF Counted
  <2>1. /\ Stack(c) \in Nat /\ Stack(c)' \in Nat
        /\ Now # Drop(c) => Stack(c)' = Stack(c) + Times(Drop(c), new)
        /\ Now = Drop(c) => Stack(c)' + 1 = Stack(c) + Times(Drop(c), new)
    BY <1>0, <1>10, DealtOwing
  <2>2. /\ Fields(c)' + One(p = c) = Fields(c) + One(field'[o] = c) /\ One(field'[o] = c) = 0
    BY <1>11, FieldPut, NoOne DEF p
  <2>3. One(p = c) = Times(Drop(c), new)
    BY <1>6, <1>8, Kinds DEF One
  <2>4. Entries(c)' = Entries(c)
    BY <1>1, <1>15, EntriesSame
  <2>5. Helds(c)' = Helds(c) /\ Roots(c)' = Roots(c)
    BY <1>1, SameTerms
  <2>6. rc[c] = Owing(c) /\ rc[c] \in Nat
    BY <1>0 DEF Counted, TypeOK
  <2>7. /\ Roots(c) \in Nat /\ Heap(c) \in Nat /\ Fields(c) \in Nat /\ Entries(c) \in Nat
        /\ Helds(c) \in Nat
    BY <1>0, TermsNat
  <2>8. Fields(c)' \in Nat /\ One(p = c) \in Nat
    BY <1>11, FieldPut DEF One
  <2>9. Heap(c)' \in Nat /\ Heap(c)' + One(p = c) = Heap(c)
    BY <2>2, <2>4, <2>5, <2>7, <2>8 DEF Heap
  <2>10. Now = Drop(c) <=> c = o
    BY <1>2, DropIs
  <2>11. CASE c = o
    <3>1. rc[c] = 1 /\ rc'[c] = 0
      BY <1>1, <1>11, <2>11
    <3>2. Stack(c)' + 1 = Stack(c) + One(p = c)
      BY <2>1, <2>3, <2>10, <2>11
    <3>. QED
      BY <2>1, <2>5, <2>6, <2>7, <2>8, <2>9, <3>1, <3>2 DEF Owing
  <2>12. CASE c # o
    <3>1. rc'[c] = rc[c]
      BY <1>11, <2>12
    <3>2. Stack(c)' = Stack(c) + One(p = c)
      BY <2>1, <2>3, <2>10, <2>12
    <3>. QED
      BY <2>1, <2>5, <2>6, <2>7, <2>8, <2>9, <3>1, <3>2 DEF Owing
  <2>. QED
    BY <2>11, <2>12
<1>. QED
  BY <1>0, <1>1, <1>12, <1>13, <1>14, <1>16, <1>17, <1>18, FiledSame, ListedSame, GivingSame
     DEF RegistryInv, Listed

\* InvalidateKey: the entry of a dead key goes, and its value is due.
LEMMA InvalidateKeyStep ==
  ASSUME RegistryInv, InvalidateKey
  PROVE  RegistryInv'
<1>a. PICK o, h, m : o = Now.cell /\ h = Head(nodes[o]) /\ m = h.owner
  OBVIOUS
<1>b. PICK v, e : v = entry[m][o] /\ e = Call("next", o, None, None)
  OBVIOUS
<1>c. PICK ds, new : ds = Drops(<<v>>) /\ new = ds \o <<e>>
  OBVIOUS
<1>0. /\ Types /\ TypeOK /\ Filed /\ Listed /\ Gone /\ Stacked /\ Separate
      /\ Counted /\ Giving /\ Plain /\ WalksOK /\ StoresOK /\ LeavingOK /\ DroppingOK /\ OneWalk
      /\ NodesOnce /\ RefNodes /\ TargetNodes /\ TokenNodes /\ MapNodes
  BY Parts
<1>1. /\ At("walk") /\ nodes[o] # <<>> /\ h.kind = "map"
      /\ entry' = [entry EXCEPT ![m][o] = None]
      /\ work' = ds \o <<e>> \o Tail(work)
      /\ UNCHANGED <<rc, owned, field, nodes, target, rec, cells, pending, queue, kept, phase,
                     cleaning, given, stopped>>
  BY <1>a, <1>b, <1>c DEF InvalidateKey, Meets, Observer, fin, host
<1>2. /\ work # <<>> /\ Light(Now) /\ o \in Object /\ Head(work).op = "walk" /\ Head(work).cell = o
      /\ rc[o] = 0 /\ \A c : Now # Drop(c)
      /\ \A i \in DOMAIN work : i # 1 /\ Walks(work[i]) => work[i].cell # o
  BY <1>0, <1>1, <1>a, WalkNow DEF At, Now
<1>3. Tail(work) \in Seq(CallSet) /\ Now \in CallSet /\ Now.op = "walk" /\ Now.cell = o
      /\ 1 \in DOMAIN work /\ Now = work[1]
  BY <1>0, <1>1, <1>2, <1>a, HeadIs DEF At, Now
<1>4. m \in WMap /\ h = Node("map", m) /\ Has(nodes[o], h)
  <2>1. nodes[o] \in Seq(NodeSet) /\ Once(nodes[o])
    BY <1>0, <1>2 DEF Types, NodesOnce
  <2>2. h \in NodeSet /\ Has(nodes[o], h)
    BY <1>1, <1>a, <2>1, NodeFreed
  <2>. QED
    BY <1>1, <1>a, <2>2, NodeKinds
<1>5. Head(nodes[o]) = Node("map", m)
  BY <1>4, <1>a
<1>6. Light(e) /\ e \in CallSet /\ e.op = "next" /\ e.cell = o
  BY <1>2, <1>b, Kinds DEF Light, Call, CallSet, Ops, Word
<1>7. o \notin owned
  BY <1>0, <1>2, Alive
<1>8. v # None
  <2>1. ~Leaves(m, o)
    BY <1>0, <1>7 DEF Leaves, CallsOn, LeavingOK
  <2>2. ~Nexts(m, o)
    BY <1>2, <1>3 DEF Nexts, Calls, Walks
  <2>. QED
    BY <1>0, <1>2, <1>4, <1>b, <2>1, <2>2 DEF MapNodes
<1>9. ~Spent(m, o)
  <2>. SUFFICES ASSUME NEW i \in DOMAIN work, work[i].op \in {"entryDropped", "store"},
                       work[i].cell = m, work[i].key = o
                PROVE  FALSE
    BY DEF Spent
  <2>1. work[i].op = "entryDropped"
    BY <1>0, <1>7 DEF StoresOK
  <2>2. i + 1 \in DOMAIN work /\ work[i + 1].op = "entries" /\ work[i + 1].cell = m
    <3>1. i = Len(work) - 1 /\ DOMAIN work = 1 .. Len(work) /\ Len(work) \in Nat
      BY <1>0, <1>2, <2>1, HeadIs DEF DroppingOK
    <3>. QED
      BY <1>0, <2>1, <3>1 DEF DroppingOK
  <2>3. PICK s \in SUBSET Object : Apart(m, s) /\ Under(m, s)
    BY <1>0, <1>4, <2>2 DEF Separate
  <2>4. o \in s
    BY <1>2, <1>3, <1>4, <2>3, Kinds DEF Under
  <2>. QED
    BY <1>8, <1>b, <2>3, <2>4 DEF Apart
<1>10. v \in Object \cup {Primitive}
  BY <1>0, <1>2, <1>4, <1>8, <1>b DEF TypeOK
<1>11. /\ ds \in Seq(CallSet)
       /\ \A i \in DOMAIN ds : Light(ds[i]) /\ v \in Object /\ ds[i] = Drop(v)
       /\ \A c \in Cell : Times(Drop(c), ds) = One(c = v /\ c \in Object)
  BY <1>c, DropOfOne
<1>12. v = entry[m][o]
  BY <1>b
<1>13. PICK n \in Nat : n = Len(ds) + 1
  BY <1>11
<1>14. /\ new \in Seq(CallSet)
       /\ \A i \in DOMAIN new : \/ i = n /\ new[i] = e
                                \/ v \in Object /\ new[i] = Drop(v)
       /\ n \in DOMAIN new /\ new[n] = e
  <2>1. /\ ds \o <<e>> \in Seq(CallSet)
        /\ \A i \in DOMAIN (ds \o <<e>>) :
              (i = Len(ds) + 1 /\ (ds \o <<e>>)[i] = e) \/ \E j \in DOMAIN ds : (ds \o <<e>>)[i] = ds[j]
        /\ Len(ds) + 1 \in DOMAIN (ds \o <<e>>) /\ (ds \o <<e>>)[Len(ds) + 1] = e
    BY <1>6, <1>11, OneMore
  <2>2. /\ new \in Seq(CallSet)
        /\ \A i \in DOMAIN new : (i = n /\ new[i] = e) \/ \E j \in DOMAIN ds : new[i] = ds[j]
        /\ n \in DOMAIN new /\ new[n] = e
    BY <1>13, <1>c, <2>1
  <2>. QED
    BY <1>11, <2>2
<1>15. \A c \in Cell : Times(Drop(c), new) = One(c = v /\ c \in Object)
  <2>. SUFFICES ASSUME NEW c \in Cell PROVE Times(Drop(c), new) = One(c = v /\ c \in Object)
    OBVIOUS
  <2>1. One(e = Drop(c)) = 0
    <3>1. e # Drop(c)
      BY <1>6, DropIs
    <3>. QED
      BY <3>1 DEF One
  <2>2. Times(Drop(c), new) = Times(Drop(c), ds) + One(e = Drop(c))
    BY <1>6, <1>11, <1>c, OneMore, SMTT(60)
  <2>3. Times(Drop(c), ds) \in Nat
    BY <1>11, TimesNat
  <2>. QED
    BY <1>11, <2>1, <2>2, <2>3
<1>16. work' = new \o Tail(work)
  BY <1>1, <1>c
<1>17. Deals(new)
  <2>1. \A i \in DOMAIN new : Light(new[i])
    BY <1>6, <1>14, DropIs
  <2>. QED
    BY <1>2, <1>3, <1>14, <1>16, <2>1 DEF Deals, Now
<1>18. /\ entry' \in [WMap -> [Object -> Object \cup {Primitive, None}]]
       /\ entry'[m][o] = None
       /\ \A q \in WMap, k \in Object : <<q, k>> # <<m, o>> => entry'[q][k] = entry[q][k]
  BY <1>0, <1>1, <1>2, <1>4 DEF TypeOK
<1>19. Types'
  <2>1. work' \in Seq(CallSet)
    BY <1>3, <1>14, <1>16
  <2>. QED
    BY <1>0, <1>1, <1>18, <2>1 DEF Types, TypeOK
<1>20. Stacked'
  <2>1. Frames(new)
    <3>1. ASSUME NEW i \in DOMAIN work, work[i].op \in {"entryDropped", "store"}
          PROVE  entry'[work[i].cell][work[i].key] # None
      <4>1. /\ entry[work[i].cell][work[i].key] # None
            /\ work[i].cell \in WMap /\ work[i].key \in Object
        BY <1>0, <3>1 DEF DroppingOK, StoresOK
      <4>2. <<work[i].cell, work[i].key>> # <<m, o>>
        BY <1>9, <3>1 DEF Spent
      <4>. QED
        BY <1>18, <4>1, <4>2
    <3>2. \A q \in WMap, k \in Object : entry[q][k] = None => entry'[q][k] = None
      BY <1>18
    <3>. QED
      BY <1>1, <3>1, <3>2 DEF Frames
  <2>2. Founded(new)
    <3>1. \A i \in DOMAIN new : Walks(new[i]) => i = n /\ new[i] = e
      BY <1>14, DropIs DEF Walks
    <3>2. \A i \in DOMAIN new : new[i].op = "next" => new[i] = e
      BY <1>14, DropIs
    <3>3. nodes'[o] # <<>> /\ Head(nodes'[o]) = Node("map", m) /\ entry'[m][o] = None
      BY <1>1, <1>5, <1>18
    <3>. QED
      BY <1>1, <1>2, <1>4, <1>6, <3>1, <3>2, <3>3 DEF Founded
  <2>. QED
    BY <1>0, <1>17, <2>1, <2>2, LightStacked
<1>21. Separate'
  <2>1. ASSUME NEW q \in WMap, NEW s \in SUBSET Object, Apart(q, s), Under(q, s)
        PROVE  Apart(q, s)' /\ \A i \in DOMAIN new : new[i].cell \in s
    <3>1. o \in s
      BY <1>2, <1>3, <2>1, Kinds DEF Under
    <3>2. v \in Object => v \in s
      BY <1>4, <1>12, <2>1, <3>1 DEF Apart, Follows
    <3>3. \A k \in s : Follows(k)' \subseteq Follows(k)
      <4>. SUFFICES ASSUME NEW k \in s PROVE Follows(k)' \subseteq Follows(k)
        OBVIOUS
      <4>1. \A l \in WMap : entry'[l][k] = entry[l][k] \/ entry'[l][k] = None
        BY <1>18
      <4>2. None \notin Object
        BY Kinds
      <4>. QED
        BY <1>1, <4>1, <4>2 DEF Follows
    <3>4. \A k \in Object : entry'[q][k] = entry[q][k] \/ entry'[q][k] = None
      BY <1>18
    <3>5. Apart(q, s)'
      BY <2>1, <3>3, <3>4 DEF Apart
    <3>6. \A i \in DOMAIN new : new[i].cell \in s
      BY <1>6, <1>14, <3>1, <3>2, DropIs
    <3>. QED
      BY <3>5, <3>6
  <2>. QED
    BY <1>0, <1>17, <2>1, LightSeparate
<1>22. /\ \A q, k : CallsOn(work', "deregister", q, k) <=> CallsOn(work, "deregister", q, k)
       /\ \A q, k : Spent(q, k)' <=> Spent(q, k)
       /\ \A op, c : Calls(work, op, c) /\ ~(op = "walk" /\ c = o) => Calls(work', op, c)
       /\ Calls(work', "next", o)
  <2>1. Calls(new, "next", o)
    BY <1>6, <1>14 DEF Calls
  <2>. QED
    BY <1>0, <1>2, <1>17, <2>1, DealtCalls
<1>23. MapNodes'
  <2>. SUFFICES ASSUME NEW t \in Object, NEW q \in WMap
                PROVE  /\ entry'[q][t] # None => Has(nodes[t], Node("map", q))
                       /\ Has(nodes[t], Node("map", q)) =>
                             entry'[q][t] # None \/ Leaves(q, t)' \/ Nexts(q, t)'
    BY <1>1 DEF MapNodes
  <2>1. /\ entry[q][t] # None => Has(nodes[t], Node("map", q))
        /\ Has(nodes[t], Node("map", q)) => entry[q][t] # None \/ Leaves(q, t) \/ Nexts(q, t)
    BY <1>0 DEF MapNodes
  <2>2. Leaves(q, t) => Leaves(q, t)'
    BY <1>22 DEF Leaves
  <2>3. Nexts(q, t) => Nexts(q, t)'
    BY <1>1, <1>22 DEF Nexts
  <2>4. Nexts(m, o)'
    BY <1>1, <1>5, <1>22 DEF Nexts
  <2>5. <<q, t>> = <<m, o>> => q = m /\ t = o
    OBVIOUS
  <2>. QED
    BY <1>18, <2>1, <2>2, <2>3, <2>4, <2>5
<1>24. Gone'
  <2>1. ASSUME NEW t \in Object, rc'[t] = 0 PROVE Vacant(t)'
    <3>1. CASE t = o
      BY <1>22, <3>1 DEF Vacant
    <3>2. CASE t # o
      <4>1. Vacant(t)
        BY <1>0, <1>1, <2>1 DEF Gone
      <4>. QED
        BY <1>1, <1>22, <3>2, <4>1 DEF Vacant
    <3>. QED
      BY <3>1, <3>2
  <2>. QED
    BY <1>0, <1>1, <2>1 DEF Gone
<1>25. Counted'
  <2>. SUFFICES ASSUME NEW c \in Cell PROVE rc'[c] = Owing(c)'
    BY DEF Counted
  <2>1. /\ Stack(c) \in Nat /\ Stack(c)' \in Nat
        /\ Stack(c)' = Stack(c) + Times(Drop(c), new)
    BY <1>0, <1>2, <1>17, DealtOwing
  <2>2. \A q \in WMap, k \in Object : <<q, k>> # <<m, o>> =>
           entry'[q][k] = entry[q][k] /\ (Spent(q, k)' <=> Spent(q, k))
    BY <1>18, <1>22
  <2>3. /\ Entries(c)' + One(entry[m][o] = c /\ ~Spent(m, o))
               = Entries(c) + One(entry'[m][o] = c /\ ~Spent(m, o)')
        /\ Entries(c)' \in Nat
    BY <1>2, <1>4, <2>2, EntryPut
  <2>4. ~(entry'[m][o] = c /\ ~Spent(m, o)')
    BY <1>18, Kinds
  <2>5. One(entry'[m][o] = c /\ ~Spent(m, o)') = 0
    BY <2>4 DEF One
  <2>6. (entry[m][o] = c /\ ~Spent(m, o)) <=> (c = v /\ c \in Object)
    BY <1>9, <1>10, <1>12, Kinds
  <2>7. One(entry[m][o] = c /\ ~Spent(m, o)) = Times(Drop(c), new)
    BY <1>15, <2>6 DEF One
  <2>8. Fields(c)' = Fields(c) /\ Helds(c)' = Helds(c) /\ Roots(c)' = Roots(c)
    BY <1>1, SameTerms
  <2>9. rc[c] = Owing(c) /\ rc'[c] = rc[c]
    BY <1>0, <1>1 DEF Counted
  <2>10. /\ Roots(c) \in Nat /\ Heap(c) \in Nat /\ Fields(c) \in Nat /\ Entries(c) \in Nat
         /\ Helds(c) \in Nat
    BY <1>0, TermsNat
  <2>11. Times(Drop(c), new) \in Nat
    BY <1>15 DEF One
  <2>12. Heap(c)' \in Nat /\ Heap(c)' + Times(Drop(c), new) = Heap(c)
    BY <2>3, <2>5, <2>7, <2>8, <2>10, <2>11 DEF Heap
  <2>. QED
    BY <2>1, <2>8, <2>9, <2>10, <2>11, <2>12 DEF Owing
<1>. QED
  BY <1>0, <1>1, <1>19, <1>20, <1>21, <1>23, <1>24, <1>25, FiledSame, ListedSame, GivingSame
     DEF RegistryInv, Listed

-----------------------------------------------------------------------------
(* A record leaves its registry's vector.                                  *)

\* The vector out has what cs had but at i, where the indices say.
Packed(out, rs, cs, i) ==
  /\ \A j \in DOMAIN out : /\ out[j] # cs[i] /\ rs[out[j]].idx = j
                           /\ \E k \in DOMAIN cs : out[j] = cs[k]
  /\ \A k \in DOMAIN cs : k # i => rs[cs[k]].idx \in DOMAIN out /\ out[rs[cs[k]].idx] = cs[k]

\* Its place is taken by the last, whose index follows.
LEMMA SwapAt ==
  ASSUME Types, LiveCells, NEW f \in Reg, NEW i \in DOMAIN cells[f],
         NEW cs, cs = cells[f], NEW out, out = SwapRemoved(cs, i),
         NEW rs, rs = Reindexed(rec, cs, i)
  PROVE  /\ out \in Seq(Record) /\ cs[i] \in Record
         /\ rs \in [Record -> RecordSet]
         /\ \A q \in Record : /\ rs[q].state = rec[q].state /\ rs[q].of = rec[q].of
                              /\ rs[q].target = rec[q].target /\ rs[q].held = rec[q].held
                              /\ rs[q].token = rec[q].token
         /\ Packed(out, rs, cs, i)
         /\ \A q \in Record : (rec[q].of # f \/ rec[q].state # "live") => rs[q] = rec[q]
<1>1. /\ cs \in Seq(Record) /\ DOMAIN cs = 1 .. Len(cs) /\ Len(cs) \in Nat /\ i \in 1 .. Len(cs)
      /\ rec \in [Record -> RecordSet]
  BY DEF Types
<1>2. \A k \in 1 .. Len(cs) : /\ cs[k] \in Record /\ rec[cs[k]].state = "live"
                              /\ rec[cs[k]].of = f /\ rec[cs[k]].idx = k
  BY <1>1 DEF LiveCells
<1>3. PICK n \in Nat : n = Len(cs)
  BY <1>1
<1>4. PICK l \in Record : l = cs[n] /\ Last(cs) = l
  <2>1. n \in 1 .. Len(cs)
    BY <1>1, <1>3
  <2>. QED
    BY <1>2, <1>3, <2>1 DEF Last
<1>5. /\ DOMAIN out = 1 .. n - 1
      /\ \A j \in 1 .. n - 1 : out[j] = IF j = i THEN l ELSE cs[j]
  BY <1>3, <1>4 DEF SwapRemoved
<1>6. out \in Seq(Record)
  <2>1. out = [j \in 1 .. n - 1 |-> IF j = i THEN l ELSE cs[j]]
    BY <1>3, <1>4 DEF SwapRemoved
  <2>2. n - 1 \in Nat
    BY <1>1, <1>3
  <2>3. \A j \in 1 .. n - 1 : j \in 1 .. n
    BY <1>3
  <2>4. \A j \in 1 .. n - 1 : (IF j = i THEN l ELSE cs[j]) \in Record
    BY <1>2, <1>3, <1>4, <2>3
  <2>. QED
    BY <2>1, <2>2, <2>4
<1>7. rs = IF i = n THEN rec ELSE [rec EXCEPT ![l].idx = i]
  BY <1>3, <1>4 DEF Reindexed
<1>8. /\ rs \in [Record -> RecordSet]
      /\ \A q \in Record : /\ rs[q].state = rec[q].state /\ rs[q].of = rec[q].of
                           /\ rs[q].target = rec[q].target /\ rs[q].held = rec[q].held
                           /\ rs[q].token = rec[q].token
                           /\ rs[q].idx = IF q = l /\ i # n THEN i ELSE rec[q].idx
                           /\ q # l => rs[q] = rec[q]
  <2>1. i \in Nat
    BY <1>1
  <2>. QED
    BY <1>1, <1>7, <2>1 DEF RecordSet
<1>9. rec[l].of = f /\ rec[l].state = "live" /\ rec[l].idx = n /\ n \in 1 .. Len(cs)
  BY <1>1, <1>2, <1>3, <1>4
<1>10. ASSUME NEW j \in DOMAIN out
       PROVE  /\ out[j] # cs[i] /\ rs[out[j]].idx = j
              /\ \E k \in DOMAIN cs : out[j] = cs[k]
  <2>1. j \in 1 .. Len(cs) /\ j # n /\ n \in 1 .. Len(cs)
    BY <1>1, <1>3, <1>5, <1>9
  <2>2. CASE j = i
    <3>1. out[j] = l
      BY <1>5, <2>2
    <3>2. l # cs[i]
      BY <1>1, <1>2, <1>9, <2>1, <2>2
    <3>3. rs[l].idx = j
      BY <1>8, <2>1, <2>2
    <3>. QED
      BY <1>1, <1>3, <1>4, <2>1, <3>1, <3>2, <3>3
  <2>3. CASE j # i
    <3>1. out[j] = cs[j]
      BY <1>5, <2>3
    <3>2. cs[j] # cs[i] /\ cs[j] # l
      BY <1>1, <1>2, <1>9, <2>1, <2>3
    <3>3. rs[cs[j]].idx = j
      BY <1>2, <1>8, <2>1, <3>2
    <3>. QED
      BY <1>1, <2>1, <3>1, <3>2, <3>3
  <2>. QED
    BY <2>2, <2>3
<1>11. ASSUME NEW k \in DOMAIN cs, k # i
       PROVE  rs[cs[k]].idx \in DOMAIN out /\ out[rs[cs[k]].idx] = cs[k]
  <2>1. CASE k = n
    <3>1. cs[k] = l /\ rs[l].idx = i /\ i \in 1 .. n - 1
      BY <1>1, <1>3, <1>4, <1>8, <1>11, <2>1
    <3>. QED
      BY <1>5, <3>1
  <2>2. CASE k # n
    <3>1. k \in 1 .. Len(cs) /\ k \in 1 .. n - 1
      BY <1>1, <1>3, <2>2
    <3>2. cs[k] # l /\ cs[k] \in Record
      BY <1>2, <1>9, <2>2, <3>1
    <3>3. rs[cs[k]].idx = k
      BY <1>2, <1>8, <3>1, <3>2
    <3>. QED
      BY <1>5, <1>11, <3>1, <3>3
  <2>. QED
    BY <2>1, <2>2
<1>12. \A q \in Record : (rec[q].of # f \/ rec[q].state # "live") => rs[q] = rec[q]
  BY <1>8, <1>9
<1>13. cs[i] \in Record
  BY <1>1, <1>2
<1>. QED
  BY <1>6, <1>8, <1>10, <1>11, <1>12, <1>13 DEF Packed

\* The same records, but for the indices of live ones.
Alike(rs) == \A q \in Record : /\ rs[q].state = rec[q].state /\ rs[q].of = rec[q].of
                               /\ rs[q].target = rec[q].target /\ rs[q].held = rec[q].held
                               /\ rs[q].token = rec[q].token
                               /\ rec[q].state # "live" => rs[q] = rec[q]

\* The live record at i leaves the vector of f; the others are in rs.
Taken(f, i, r, rs) ==
  /\ f \in Reg /\ i \in DOMAIN cells[f] /\ r = cells[f][i]
  /\ rs = Reindexed(rec, cells[f], i)
  /\ cells' = [cells EXCEPT ![f] = SwapRemoved(@, i)]
  /\ \A q \in Record : q # r => rec'[q] = rs[q]
  /\ rec'[r].state # "live"

\* The others are where they say.
LEMMA SwapFiles ==
  ASSUME Types, LiveCells, NEW f, NEW i, NEW r, NEW rs, Taken(f, i, r, rs)
  PROVE  /\ r \in Record /\ rec[r].state = "live" /\ rec[r].of = f
         /\ rs \in [Record -> RecordSet]
         /\ Alike(rs)
         /\ cells' \in [Reg -> Seq(Record)]
         /\ LiveCells'
         /\ \A q \in Record : q # r /\ LiveAt(q) => LiveAt(q)'
<1>0. /\ f \in Reg /\ i \in DOMAIN cells[f] /\ r = cells[f][i]
      /\ rs = Reindexed(rec, cells[f], i)
      /\ cells' = [cells EXCEPT ![f] = SwapRemoved(@, i)]
      /\ \A q \in Record : q # r => rec'[q] = rs[q]
      /\ rec'[r].state # "live"
  BY DEF Taken
<1>1. PICK cs : cs = cells[f]
  OBVIOUS
<1>2. PICK out : out = SwapRemoved(cs, i)
  OBVIOUS
<1>3. r = cs[i] /\ rs = Reindexed(rec, cs, i) /\ i \in DOMAIN cs
  BY <1>0, <1>1
<1>11. out \in Seq(Record) /\ r \in Record /\ rs \in [Record -> RecordSet]
  BY <1>0, <1>1, <1>2, <1>3, SwapAt
<1>12. \A q \in Record : /\ rs[q].state = rec[q].state /\ rs[q].of = rec[q].of
                         /\ rs[q].target = rec[q].target /\ rs[q].held = rec[q].held
                         /\ rs[q].token = rec[q].token
  BY <1>0, <1>1, <1>2, <1>3, SwapAt
<1>13. Packed(out, rs, cs, i)
  BY <1>0, <1>1, <1>2, <1>3, SwapAt
<1>14. /\ \A j \in DOMAIN out : /\ out[j] # r /\ rs[out[j]].idx = j
                                /\ \E k \in DOMAIN cs : out[j] = cs[k]
       /\ \A k \in DOMAIN cs : k # i => rs[cs[k]].idx \in DOMAIN out /\ out[rs[cs[k]].idx] = cs[k]
  BY <1>0, <1>3, <1>13 DEF Packed
<1>15. \A q \in Record : (rec[q].of # f \/ rec[q].state # "live") => rs[q] = rec[q]
  BY <1>0, <1>1, <1>2, <1>3, SwapAt
<1>4. /\ out \in Seq(Record) /\ r \in Record
      /\ rs \in [Record -> RecordSet]
      /\ \A q \in Record : /\ rs[q].state = rec[q].state /\ rs[q].of = rec[q].of
                           /\ rs[q].target = rec[q].target /\ rs[q].held = rec[q].held
                           /\ rs[q].token = rec[q].token
      /\ \A j \in DOMAIN out : /\ out[j] # r /\ rs[out[j]].idx = j
                               /\ \E k \in DOMAIN cs : out[j] = cs[k]
      /\ \A k \in DOMAIN cs : k # i => rs[cs[k]].idx \in DOMAIN out /\ out[rs[cs[k]].idx] = cs[k]
      /\ \A q \in Record : (rec[q].of # f \/ rec[q].state # "live") => rs[q] = rec[q]
  BY <1>0, <1>11, <1>12, <1>14, <1>15
<1>5. cells \in [Reg -> Seq(Record)]
  BY DEF Types
<1>6. /\ cells' \in [Reg -> Seq(Record)] /\ cells'[f] = out
      /\ \A g \in Reg : g # f => cells'[g] = cells[g]
  BY <1>0, <1>1, <1>2, <1>4, <1>5
<1>7. \A g \in Reg : \A j \in DOMAIN cells[g] :
         /\ cells[g][j] \in Record /\ rec[cells[g][j]].state = "live"
         /\ rec[cells[g][j]].of = g /\ rec[cells[g][j]].idx = j
  BY <1>0, <1>5 DEF LiveCells
<1>8. rec[r].state = "live" /\ rec[r].of = f
  BY <1>0, <1>7
<1>9. LiveCells'
  <2>. SUFFICES ASSUME NEW g \in Reg, NEW j \in DOMAIN cells'[g]
                PROVE  /\ rec'[cells'[g][j]].state = "live"
                       /\ rec'[cells'[g][j]].of = g /\ rec'[cells'[g][j]].idx = j
    BY DEF LiveCells
  <2>1. CASE g = f
    <3>1. PICK k \in DOMAIN cs : out[j] = cs[k]
      BY <1>0, <1>4, <1>6, <2>1
    <3>2. out[j] \in Record /\ rec[out[j]].state = "live" /\ rec[out[j]].of = f
      BY <1>0, <1>1, <1>7, <3>1
    <3>3. rec'[out[j]] = rs[out[j]] /\ rs[out[j]].idx = j
      BY <1>0, <1>4, <1>6, <2>1, <3>2
    <3>. QED
      BY <1>0, <1>4, <1>6, <2>1, <3>2, <3>3
  <2>2. CASE g # f
    <3>1. /\ cells'[g][j] = cells[g][j] /\ cells[g][j] \in Record
          /\ rec[cells[g][j]].state = "live"
          /\ rec[cells[g][j]].of = g /\ rec[cells[g][j]].idx = j
      BY <1>0, <1>6, <1>7, <2>2
    <3>2. rec'[cells[g][j]] = rec[cells[g][j]]
      BY <1>0, <1>4, <1>8, <2>2, <3>1
    <3>. QED
      BY <3>1, <3>2
  <2>. QED
    BY <2>1, <2>2
<1>10. ASSUME NEW q \in Record, q # r, LiveAt(q) PROVE LiveAt(q)'
  <2>1. /\ rec[q].of \in Reg /\ rec[q].target \in Object
        /\ rec[q].idx \in DOMAIN cells[rec[q].of]
        /\ cells[rec[q].of][rec[q].idx] = q
    BY <1>0, <1>10 DEF LiveAt
  <2>2. rec'[q] = rs[q] /\ rs[q].of = rec[q].of /\ rs[q].target = rec[q].target
    BY <1>0, <1>4, <1>10
  <2>3. CASE rec[q].of = f
    <3>1. rec[q].idx # i /\ rec[q].idx \in DOMAIN cs /\ cs[rec[q].idx] = q
      BY <1>0, <1>1, <1>3, <1>10, <2>1, <2>3
    <3>2. rs[q].idx \in DOMAIN out /\ out[rs[q].idx] = q
      BY <1>0, <1>4, <3>1
    <3>. QED
      BY <1>0, <1>6, <2>1, <2>2, <2>3, <3>2 DEF LiveAt
  <2>4. CASE rec[q].of # f
    <3>1. rs[q] = rec[q]
      BY <1>0, <1>4, <2>4
    <3>. QED
      BY <1>0, <1>6, <2>1, <2>2, <2>4, <3>1 DEF LiveAt
  <2>. QED
    BY <2>3, <2>4
<1>16. Alike(rs)
  BY <1>0, <1>4 DEF Alike
<1>. QED
  BY <1>0, <1>4, <1>6, <1>8, <1>9, <1>10, <1>16

\* One more at the end.
LEMMA AppendHas ==
  ASSUME NEW S, NEW s \in Seq(S), NEW e \in S
  PROVE  /\ Append(s, e) \in Seq(S)
         /\ \A x : Has(Append(s, e), x) <=> Has(s, x) \/ x = e
         /\ Once(s) /\ ~Has(s, e) => Once(Append(s, e))
<1>6. Append(s, e) \in Seq(S)
  OBVIOUS
<1>1. PICK t \in Seq(S) : t = Append(s, e)
  BY <1>6
<1>2. PICK n \in Nat : n = Len(s)
  OBVIOUS
<1>3. /\ DOMAIN s = 1 .. n /\ DOMAIN t = 1 .. n + 1 /\ t[n + 1] = e /\ n + 1 \in 1 .. n + 1
      /\ \A i \in 1 .. n : t[i] = s[i] /\ i \in 1 .. n + 1
      /\ \A i \in 1 .. n + 1 : i = n + 1 \/ i \in 1 .. n
  BY <1>1, <1>2
<1>4. \A x : Has(t, x) <=> Has(s, x) \/ x = e
  BY <1>3 DEF Has
<1>5. Once(s) /\ ~Has(s, e) => Once(t)
  BY <1>3 DEF Has, Once
<1>. QED
  BY <1>1, <1>4, <1>5

\* TargetDied: a live record becomes a pending one of a queued registry.
LEMMA TargetDiedStep ==
  ASSUME RegistryInv, TargetDied
  PROVE  RegistryInv'
<1>a. PICK o, h, r, f : o = Now.cell /\ h = Head(nodes[o]) /\ r = h.owner /\ f = rec[r].of
  OBVIOUS
<1>b. PICK rs : rs = Reindexed(rec, cells[f], rec[r].idx)
  OBVIOUS
<1>0. /\ Types /\ TypeOK /\ Filed /\ Listed /\ Gone /\ Stacked /\ Separate
      /\ Counted /\ Giving /\ Placed /\ LiveCells /\ DueCells
      /\ NodesOnce /\ RefNodes /\ TargetNodes /\ TokenNodes /\ MapNodes
  BY Parts
<1>1. /\ At("walk") /\ nodes[o] # <<>> /\ h.kind = "target"
      /\ nodes' = [nodes EXCEPT ![o] = Tail(@)]
      /\ cells' = [cells EXCEPT ![f] = SwapRemoved(@, rec[r].idx)]
      /\ rec' = [rs EXCEPT ![r].state = "pending", ![r].target = None,
                           ![r].idx = Len(pending[f]) + 1]
      /\ pending' = [pending EXCEPT ![f] = Append(@, r)]
      /\ IF f \in Range(queue) THEN UNCHANGED <<rc, queue>>
         ELSE rc' = Inc(rc, f) /\ queue' = Append(queue, f)
      /\ stopped' = stopped \ {f}
      /\ UNCHANGED <<owned, field, target, entry, kept, work, phase, cleaning, given>>
  BY <1>a, <1>b DEF TargetDied, Meets, Observer, FreeNode
<1>2. /\ nodes[o] \in Seq(NodeSet) /\ h \in NodeSet /\ Has(nodes[o], h) /\ o \in Object
  <2>1. o \in Object
    BY <1>0, <1>1, <1>a, WalkNow
  <2>2. nodes[o] \in Seq(NodeSet) /\ Once(nodes[o])
    BY <1>0, <2>1 DEF Types, NodesOnce
  <2>. QED
    BY <1>1, <1>a, <2>1, <2>2, NodeFreed
<1>3. r \in Record /\ h = Node("target", r)
  BY <1>1, <1>2, <1>a, NodeKinds
<1>4. rec[r].target = o
  BY <1>0, <1>2, <1>3 DEF TargetNodes
<1>5. rec[r].state = "live" /\ LiveAt(r) /\ f \in Reg
  <2>1. rec[r] \in RecordSet
    BY <1>0, <1>3 DEF Types
  <2>2. rec[r].state \in {"free", "live", "pending"}
    BY <2>1 DEF RecordSet
  <2>3. rec[r].state # "free"
    BY <1>0, <1>2, <1>3, <1>4, Kinds DEF Placed, Unused
  <2>4. rec[r].state # "pending"
    BY <1>0, <1>2, <1>3, <1>4, Kinds DEF Placed, Due
  <2>5. rec[r].state = "live" /\ LiveAt(r)
    BY <1>0, <1>3, <2>2, <2>3, <2>4 DEF Placed
  <2>. QED
    BY <1>a, <2>5 DEF LiveAt
<1>6. PICK i \in DOMAIN cells[f] : i = rec[r].idx /\ cells[f][i] = r
  BY <1>5, <1>a DEF LiveAt
<1>7. PICK n \in Nat : n = Len(pending[f]) + 1
  BY <1>0, <1>5 DEF Types
<1>8. /\ rs \in [Record -> RecordSet]
      /\ rs = Reindexed(rec, cells[f], i)
  <2>1. rs = Reindexed(rec, cells[f], i) /\ cells[f] = cells[f]
    BY <1>6, <1>b
  <2>2. PICK out : out = SwapRemoved(cells[f], i)
    OBVIOUS
  <2>. QED
    BY <1>0, <1>5, <1>6, <2>1, <2>2, SwapAt
<1>9. /\ rec' \in [Record -> RecordSet]
      /\ \A q \in Record : q # r => rec'[q] = rs[q]
      /\ rec'[r].state = "pending" /\ rec'[r].target = None /\ rec'[r].of = rs[r].of
      /\ rec'[r].held = rs[r].held /\ rec'[r].token = rs[r].token
  <2>1. rec' = [rs EXCEPT ![r] = [[[@ EXCEPT !.state = "pending"] EXCEPT !.target = None]
                                     EXCEPT !.idx = n]]
    BY <1>1, <1>3, <1>7, <1>8
  <2>2. PICK x : x = [[[rs[r] EXCEPT !.state = "pending"] EXCEPT !.target = None] EXCEPT !.idx = n]
    OBVIOUS
  <2>3. rs[r] \in RecordSet
    BY <1>3, <1>8
  <2>4. /\ x \in RecordSet /\ x.state = "pending" /\ x.target = None /\ x.of = rs[r].of
        /\ x.held = rs[r].held /\ x.token = rs[r].token
    BY <1>7, <2>2, <2>3 DEF RecordSet, Word
  <2>5. rec' = [rs EXCEPT ![r] = x]
    BY <1>3, <1>8, <2>1, <2>2
  <2>. QED
    BY <1>3, <1>8, <2>4, <2>5
<1>10. cells' = [cells EXCEPT ![f] = SwapRemoved(@, i)] /\ rec'[r].state # "live" /\ r = cells[f][i]
  BY <1>1, <1>6, <1>9
<1>11. /\ \A q \in Record : /\ rs[q].state = rec[q].state /\ rs[q].of = rec[q].of
                            /\ rs[q].target = rec[q].target /\ rs[q].held = rec[q].held
                            /\ rs[q].token = rec[q].token
                            /\ rec[q].state # "live" => rs[q] = rec[q]
       /\ cells' \in [Reg -> Seq(Record)] /\ LiveCells'
       /\ \A q \in Record : q # r /\ LiveAt(q) => LiveAt(q)'
  <2>0. Taken(f, i, r, rs)
    BY <1>5, <1>6, <1>8, <1>9, <1>10 DEF Taken
  <2>1. Alike(rs)
    BY <1>0, <2>0, SwapFiles
  <2>2. cells' \in [Reg -> Seq(Record)] /\ LiveCells'
    BY <1>0, <2>0, SwapFiles
  <2>3. \A q \in Record : q # r /\ LiveAt(q) => LiveAt(q)'
    BY <1>0, <2>0, SwapFiles
  <2>. QED
    BY <2>1, <2>2, <2>3 DEF Alike
<1>12. /\ rc' \in [Cell -> Nat] /\ queue' \in Seq(Reg) /\ Once(queue')
       /\ \A g : Has(queue, g) => Has(queue', g)
       /\ Has(queue', f)
       /\ \A c \in Cell : c # f => rc'[c] = rc[c]
       /\ \A c \in Cell : rc'[c] = 0 => rc[c] = 0
       /\ \A c \in Cell : \/ rc'[c] = rc[c] /\ Queues(c)' = Queues(c)
                          \/ rc'[c] = rc[c] + 1 /\ Queues(c)' = Queues(c) + 1
  <2>1. queue \in Seq(Reg) /\ rc \in [Cell -> Nat] /\ Once(queue) /\ f \in Cell
    BY <1>0, <1>5, Kinds DEF TypeOK, Filed
  <2>2. f \in Range(queue) <=> Has(queue, f)
    BY DEF Range, Has
  <2>3. CASE f \in Range(queue)
    <3>1. UNCHANGED <<rc, queue>>
      BY <1>1, <2>3
    <3>. QED
      BY <2>1, <2>2, <2>3, <3>1 DEF Queues
  <2>4. CASE f \notin Range(queue)
    <3>1. rc' = [rc EXCEPT ![f] = @ + 1] /\ queue' = Append(queue, f)
      BY <1>1, <2>1, <2>4 DEF Inc
    <3>2. /\ queue' \in Seq(Reg) /\ Once(queue')
          /\ \A g : Has(queue', g) <=> Has(queue, g) \/ g = f
      BY <1>5, <2>1, <2>2, <2>4, <3>1, AppendHas
    <3>3. ASSUME NEW c \in Cell
          PROVE  Queues(c)' = IF c = f THEN Queues(c) + 1 ELSE Queues(c)
      <4>1. Times(c, Append(queue, f)) = Times(c, queue) + One(f = c) /\ Times(c, queue) \in Nat
        BY <1>5, <2>1, TimesAppend, TimesNat
      <4>2. Times(c, Append(queue, f)) = IF c = f THEN Times(c, queue) + 1 ELSE Times(c, queue)
        BY <4>1 DEF One
      <4>. QED
        BY <3>1, <4>2 DEF Queues
    <3>4. \A c \in Cell : rc'[c] = IF c = f THEN rc[c] + 1 ELSE rc[c]
      BY <2>1, <3>1
    <3>5. rc' \in [Cell -> Nat]
      BY <2>1, <3>1
    <3>6. \A c \in Cell : rc'[c] = 0 => rc[c] = 0
      BY <2>1, <3>4
    <3>. QED
      BY <3>2, <3>3, <3>4, <3>5, <3>6
  <2>. QED
    BY <2>3, <2>4
<1>13. \A t \in Object : rc'[t] = rc[t]
  BY <1>5, <1>12, Kinds
<1>14. /\ o \in Object /\ work # <<>> /\ Light(Now)
       /\ nodes' \in [Object -> Seq(NodeSet)] /\ NodesOnce'
       /\ \A t \in Object : \A x : Has(nodes'[t], x) <=> Has(nodes[t], x) /\ ~(t = o /\ x = h)
       /\ Stacked' /\ Separate' /\ MapNodes'
       /\ \A t \in Object : rc'[t] = 0 => Vacant(t)'
  BY <1>0, <1>1, <1>a, <1>13, WalkFrees
<1>15. /\ pending' \in [Reg -> Seq(Record)] /\ pending'[f] = Append(pending[f], r)
       /\ \A g \in Reg : g # f => pending'[g] = pending[g]
       /\ \A q : Has(pending'[f], q) <=> Has(pending[f], q) \/ q = r
       /\ Once(pending'[f])
  <2>1. pending[f] \in Seq(Record) /\ pending \in [Reg -> Seq(Record)] /\ Once(pending[f])
    BY <1>0, <1>5 DEF Types, Filed
  <2>2. ~Has(pending[f], r)
    BY <1>0, <1>5 DEF DueCells, Has
  <2>. QED
    BY <1>1, <1>3, <1>5, <2>1, <2>2, AppendHas
<1>16. Types'
  BY <1>0, <1>1, <1>9, <1>11, <1>12, <1>14, <1>15 DEF Types, TypeOK
<1>17. Placed'
  <2>. SUFFICES ASSUME NEW q \in Record
                PROVE  /\ rec'[q].state = "free" => rec'[q] = Unused
                       /\ rec'[q].state = "live" => LiveAt(q)'
                       /\ rec'[q].state = "pending" => Due(q)'
    BY DEF Placed, Unused
  <2>1. CASE q = r
    <3>1. Due(r)'
      <4>1. rec'[r].of = f /\ rec'[r].target = None /\ Has(pending'[f], r)
        BY <1>3, <1>9, <1>11, <1>15, <1>a
      <4>. QED
        BY <1>5, <1>12, <4>1 DEF Due
    <3>. QED
      BY <1>9, <2>1, <3>1
  <2>2. CASE q # r
    <3>1. /\ rec[q].state = "free" => rec[q] = Unused
          /\ rec[q].state = "live" => LiveAt(q)
          /\ rec[q].state = "pending" => Due(q)
      BY <1>0 DEF Placed
    <3>2. rec'[q] = rs[q] /\ rs[q].state = rec[q].state /\ (rec[q].state # "live" => rs[q] = rec[q])
      BY <1>9, <1>11, <2>2
    <3>3. rec'[q] = rec[q] /\ Due(q) => Due(q)'
      <4>. SUFFICES ASSUME rec'[q] = rec[q], Due(q) PROVE Due(q)'
        OBVIOUS
      <4>1. PICK g \in Reg : g = rec[q].of
        BY DEF Due
      <4>2. /\ rec[q].target = None /\ Has(pending[g], q)
            /\ cleaning = g \/ Has(queue, g) \/ g \in stopped
        BY <4>1 DEF Due
      <4>3. Has(pending'[g], q)
        BY <1>15, <4>2
      <4>4. cleaning' = g \/ Has(queue', g) \/ g \in stopped'
        BY <1>1, <1>12, <4>2
      <4>. QED
        BY <4>1, <4>2, <4>3, <4>4 DEF Due
    <3>4. LiveAt(q) => LiveAt(q)'
      BY <1>11, <2>2
    <3>. QED
      BY <3>1, <3>2, <3>3, <3>4
  <2>. QED
    BY <2>1, <2>2
<1>18. DueCells'
  <2>. SUFFICES ASSUME NEW g \in Reg, NEW j \in DOMAIN pending'[g]
                PROVE  rec'[pending'[g][j]].state = "pending" /\ rec'[pending'[g][j]].of = g
    BY DEF DueCells
  <2>1. PICK q : q = pending'[g][j]
    OBVIOUS
  <2>2. CASE g = f /\ q = r
    BY <1>3, <1>9, <1>11, <1>a, <2>1, <2>2
  <2>3. CASE ~(g = f /\ q = r)
    <3>1. Has(pending'[g], q)
      BY <2>1 DEF Has
    <3>2. Has(pending[g], q)
      BY <1>15, <2>3, <3>1
    <3>3. q \in Record /\ rec[q].state = "pending" /\ rec[q].of = g
      BY <1>0, <3>2 DEF Has, DueCells, Types
    <3>4. rec'[q] = rec[q]
      BY <1>5, <1>9, <1>11, <3>3
    <3>. QED
      BY <2>1, <3>3, <3>4
  <2>. QED
    BY <2>2, <2>3
<1>19. Filed'
  <2>1. \A g \in Reg : Once(pending'[g])
    BY <1>0, <1>15 DEF Filed
  <2>. QED
    BY <1>11, <1>12, <1>17, <1>18, <2>1 DEF Filed
<1>20. \A q \in Record : rec'[q].token = rec[q].token /\ rec'[q].held = rec[q].held
  BY <1>9, <1>11
<1>21. RefNodes' /\ TokenNodes'
  <2>1. \A k, x : k # "target" => Node(k, x) # h
    BY <1>3, NodeIs
  <2>2. target' = target
    BY <1>1
  <2>3. RefNodes'
    BY <1>0, <1>14, <2>1, <2>2 DEF RefNodes
  <2>4. TokenNodes'
    BY <1>0, <1>14, <1>20, <2>1 DEF TokenNodes
  <2>. QED
    BY <2>3, <2>4
<1>22. TargetNodes'
  <2>. SUFFICES ASSUME NEW t \in Object, NEW q \in Record
                PROVE  Has(nodes'[t], Node("target", q)) <=> rec'[q].target = t
    BY DEF TargetNodes
  <2>1. Has(nodes[t], Node("target", q)) <=> rec[q].target = t
    BY <1>0 DEF TargetNodes
  <2>2. Node("target", q) = h <=> q = r
    BY <1>3, NodeIs
  <2>3. t # None
    BY Kinds
  <2>4. q # r => rec'[q].target = rec[q].target
    BY <1>9, <1>11
  <2>. QED
    BY <1>4, <1>9, <1>14, <2>1, <2>2, <2>3, <2>4
<1>23. Gone'
  <2>1. \A w \in Ref : rc'[w] = 0 => target'[w] = None
    BY <1>0, <1>1, <1>12, Kinds DEF Gone
  <2>. QED
    BY <1>14, <2>1 DEF Gone
<1>24. Counted'
  <2>. SUFFICES ASSUME NEW c \in Cell PROVE rc'[c] = Owing(c)'
    BY DEF Counted
  <2>1. Own(c)' = Own(c) /\ Keeps(c)' = Keeps(c) /\ Cleans(c)' = Cleans(c) /\ Gives(c)' = Gives(c)
    BY <1>1, SameTerms
  <2>2. Fields(c)' = Fields(c) /\ Entries(c)' = Entries(c) /\ Helds(c)' = Helds(c)
    BY <1>1, <1>20, SameTerms
  <2>3. Heap(c)' = Heap(c)
    BY <2>2 DEF Heap
  <2>4. Stack(c)' = Stack(c)
    BY <1>1, SameTerms DEF Stack
  <2>5. rc[c] = Owing(c)
    BY <1>0 DEF Counted
  <2>6. /\ Roots(c) \in Nat /\ Heap(c) \in Nat /\ Stack(c) \in Nat /\ Own(c) \in Nat
        /\ Keeps(c) \in Nat /\ Cleans(c) \in Nat /\ Gives(c) \in Nat /\ Queues(c) \in Nat
    BY <1>0, TermsNat
  <2>7. \/ rc'[c] = rc[c] /\ Roots(c)' = Roots(c)
        \/ rc'[c] = rc[c] + 1 /\ Roots(c)' = Roots(c) + 1
    <3>1. \/ rc'[c] = rc[c] /\ Queues(c)' = Queues(c)
          \/ rc'[c] = rc[c] + 1 /\ Queues(c)' = Queues(c) + 1
      BY <1>12
    <3>. QED
      BY <2>1, <2>6, <3>1 DEF Roots
  <2>. QED
    BY <2>3, <2>4, <2>5, <2>6, <2>7 DEF Owing
<1>25. Giving'
  BY <1>0, <1>1, GivingSame
<1>. QED
  BY <1>14, <1>16, <1>19, <1>21, <1>22, <1>23, <1>24, <1>25 DEF RegistryInv, Listed

-----------------------------------------------------------------------------
(* The stack at its base, where no walk is under way.                      *)

\* A call that may stand at i of the stack s, with the heap of the next state.
ObjectDrop(e) == e.cell \in Object /\ e = Drop(e.cell)
Settled(s, i) ==
  \/ ObjectDrop(s[i])
  \/ i = Len(s) /\ s[i] = Drop(s[i].cell) /\ (s[i].cell \in Reg \/ Len(s) = 1)
  \/ i = Len(s) /\ s[i].op = "entries" /\ s[i].cell \in WMap /\ s[i].value = None
  \/ /\ i = Len(s) /\ s[i].op = "store" /\ s[i].cell \in WMap /\ s[i].key \in owned' \cap Object
     /\ entry'[s[i].cell][s[i].key] # None /\ s[i].value # None
  \/ /\ i = Len(s) /\ s[i].op = "deregister" /\ s[i].cell \in WMap
     /\ s[i].key \in owned' \cap Object /\ entry'[s[i].cell][s[i].key] = None /\ s[i].value = None
  \/ /\ i = Len(s) - 1 /\ s[i].op = "entryDropped" /\ s[i].value = None
     /\ s[i + 1].op = "entries" /\ s[i + 1].cell = s[i].cell
     /\ s[i].cell \in WMap /\ s[i].key \in Object
     /\ entry'[s[i].cell][s[i].key] # None

\* No walk and no sweep is at the base.
LEMMA SettledOps ==
  ASSUME NEW s, NEW i, Settled(s, i)
  PROVE  /\ s[i].op \notin {"walk", "next", "sweep"}
         /\ s[i].op = "drop" => s[i] = Drop(s[i].cell)
         /\ s[i].op # "store" => s[i].value = None
  BY DropIs DEF Settled, ObjectDrop

\* Settled calls are such as may be on the stack.
LEMMA BaseStacked ==
  ASSUME work' \in Seq(CallSet), \A i \in DOMAIN work' : Settled(work', i)
  PROVE  Stacked'
<1>1. PICK s \in Seq(CallSet) : s = work'
  OBVIOUS
<1>2. \A i \in DOMAIN s : Settled(s, i)
  BY <1>1
<1>3. \A i \in DOMAIN s : /\ s[i].op \notin {"walk", "next", "sweep"}
                          /\ s[i].op = "drop" => s[i] = Drop(s[i].cell)
                          /\ s[i].op # "store" => s[i].value = None
  BY <1>2, SettledOps
<1>4. Plain'
  BY <1>1, <1>3 DEF Plain
<1>5. DropsOK'
  BY <1>1, <1>2, DropIs DEF DropsOK, Settled, ObjectDrop
<1>6. WalksOK' /\ NextsOK' /\ SweepsOK' /\ OneWalk'
  BY <1>1, <1>3 DEF WalksOK, NextsOK, SweepsOK, OneWalk
<1>7. EntriesOK'
  BY <1>1, <1>2, DropIs DEF EntriesOK, Settled, ObjectDrop
<1>8. DroppingOK'
  BY <1>1, <1>2, DropIs DEF DroppingOK, Settled, ObjectDrop
<1>9. StoresOK'
  BY <1>1, <1>2, DropIs DEF StoresOK, Settled, ObjectDrop
<1>10. LeavingOK'
  BY <1>1, <1>2, DropIs DEF LeavingOK, Settled, ObjectDrop
<1>. QED
  BY <1>4, <1>5, <1>6, <1>7, <1>8, <1>9, <1>10 DEF Stacked

\* No call is about a map that dies.
LEMMA NoMapStack ==
  ASSUME \A i \in DOMAIN work' : work'[i].op \in {"drop", "entries"} => work'[i].cell \notin WMap
  PROVE  Separate'
  BY DEF Separate

\* An empty stack.
LEMMA EmptyStack ==
  ASSUME work' = <<>>
  PROVE  /\ Stacked' /\ Separate' /\ work' \in Seq(CallSet)
         /\ \A op, c : ~Calls(work', op, c)
         /\ \A op, c, k : ~CallsOn(work', op, c, k)
         /\ \A m, k : ~Spent(m, k)'
<1>1. DOMAIN work' = {} /\ work' \in Seq(CallSet)
  BY DOMAIN <<>> = {}
<1>2. Stacked'
  BY <1>1, BaseStacked
<1>3. Separate'
  BY <1>1, NoMapStack
<1>4. /\ \A op, c : ~Calls(work', op, c)
      /\ \A op, c, k : ~CallsOn(work', op, c, k)
  BY <1>1 DEF Calls, CallsOn
<1>5. \A m, k : ~Spent(m, k)'
  BY <1>1 DEF Spent
<1>. QED
  BY <1>1, <1>2, <1>3, <1>4, <1>5

-----------------------------------------------------------------------------
(* The references a stack holds.                                           *)

Bears(s, c) == Times(Drop(c), s) + Cardinality({i \in DOMAIN s : s[i].value = c})

\* The references of the stack are what its calls bear.
LEMMA StackBears == \A c : Stack(c) = Bears(work, c) /\ Stack(c)' = Bears(work', c)
  BY DEF Stack, Owed, Values, Bears

\* What a stack bears, by its parts.
LEMMA BearsParts ==
  /\ \A c : Bears(<<>>, c) = 0
  /\ \A e \in CallSet : \A c : Bears(<<e>>, c) = One(e = Drop(c)) + One(e.value = c)
  /\ \A s \in Seq(CallSet), t \in Seq(CallSet) : \A c :
        /\ Bears(s \o t, c) = Bears(s, c) + Bears(t, c)
        /\ Bears(s, c) \in Nat
<1>. DEFINE K(c) == {e \in CallSet : e.value = c}
<1>1. \A s \in Seq(CallSet) : \A c : {i \in DOMAIN s : s[i].value = c} = {i \in DOMAIN s : s[i] \in K(c)}
  OBVIOUS
<1>2. \A s \in Seq(CallSet) : \A c : Bears(s, c) = Times(Drop(c), s) + CountIn(s, K(c))
  BY <1>1 DEF Bears, CountIn
<1>. HIDE DEF K
<1>3. ASSUME NEW c PROVE Bears(<<>>, c) = 0
  <2>1. <<>> \in Seq(CallSet)
    OBVIOUS
  <2>2. Times(Drop(c), <<>>) = 0
    BY <2>1, TimesNat
  <2>3. {i \in DOMAIN <<>> : <<>>[i].value = c} = {}
    OBVIOUS
  <2>. QED
    BY <2>2, <2>3, FS_EmptySet DEF Bears
<1>4. ASSUME NEW e \in CallSet, NEW c
      PROVE  Bears(<<e>>, c) = One(e = Drop(c)) + One(e.value = c)
  <2>1. DOMAIN <<e>> = {1} /\ <<e>>[1] = e
    OBVIOUS
  <2>2. Cardinality({i \in DOMAIN <<e>> : <<e>>[i].value = c}) = One(e.value = c)
    <3>1. CASE e.value = c
      <4>1. {i \in DOMAIN <<e>> : <<e>>[i].value = c} = {1}
        BY <2>1, <3>1
      <4>. QED
        BY <3>1, <4>1, FS_Singleton DEF One
    <3>2. CASE e.value # c
      <4>1. {i \in DOMAIN <<e>> : <<e>>[i].value = c} = {}
        BY <2>1, <3>2
      <4>. QED
        BY <3>2, <4>1, FS_EmptySet DEF One
    <3>. QED
      BY <3>1, <3>2
  <2>. QED
    BY <2>2, TimesOne DEF Bears
<1>5. ASSUME NEW s \in Seq(CallSet), NEW c PROVE Bears(s, c) \in Nat
  <2>1. Times(Drop(c), s) \in Nat
    BY TimesNat
  <2>2. CountIn(s, K(c)) \in Nat
    BY CountNat
  <2>. QED
    BY <1>2, <2>1, <2>2
<1>6. ASSUME NEW s \in Seq(CallSet), NEW t \in Seq(CallSet), NEW c
      PROVE  Bears(s \o t, c) = Bears(s, c) + Bears(t, c)
  <2>1. s \o t \in Seq(CallSet)
    OBVIOUS
  <2>2. Times(Drop(c), s \o t) = Times(Drop(c), s) + Times(Drop(c), t)
    BY TimesConcat
  <2>3. CountIn(s \o t, K(c)) = CountIn(s, K(c)) + CountIn(t, K(c))
    BY CountConcat
  <2>4. /\ Times(Drop(c), s) \in Nat /\ Times(Drop(c), t) \in Nat
        /\ CountIn(s, K(c)) \in Nat /\ CountIn(t, K(c)) \in Nat
    BY TimesNat, CountNat
  <2>5. /\ Bears(s \o t, c) = Times(Drop(c), s \o t) + CountIn(s \o t, K(c))
        /\ Bears(s, c) = Times(Drop(c), s) + CountIn(s, K(c))
        /\ Bears(t, c) = Times(Drop(c), t) + CountIn(t, K(c))
    BY <1>2, <2>1
  <2>. QED
    BY <2>2, <2>3, <2>4, <2>5
<1>. QED
  BY <1>3, <1>4, <1>5, <1>6

\* A drop holds what it drops.
LEMMA BearsDrop ==
  ASSUME NEW b \in Cell, NEW c \in Cell
  PROVE  Bears(<<Drop(b)>>, c) = One(b = c)
<1>1. Drop(b) \in CallSet /\ (Drop(b) = Drop(c) <=> b = c) /\ Drop(b).value # c
  BY DropIs, Kinds
<1>2. Bears(<<Drop(b)>>, c) = One(Drop(b) = Drop(c)) + One(Drop(b).value = c)
  BY <1>1, BearsParts
<1>3. One(Drop(b).value = c) = 0 /\ One(Drop(b) = Drop(c)) = One(b = c) /\ One(b = c) \in Nat
  BY <1>1 DEF One
<1>. QED
  BY <1>2, <1>3

\* What drops bear.
LEMMA BearsDrops ==
  ASSUME NEW V, NEW s \in Seq(V), NEW c \in Cell
  PROVE  /\ Bears(Drops(s), c) = IF c \in Object THEN Times(c, s) ELSE 0
         /\ Bears(Drops(s), c) \in Nat
<1>1. /\ Drops(s) \in Seq(CallSet)
      /\ \A i \in DOMAIN Drops(s) : Light(Drops(s)[i])
      /\ Times(Drop(c), Drops(s)) = IF c \in Object THEN Times(c, s) ELSE 0
  BY DropsAre
<1>2. c # None
  BY Kinds
<1>3. {i \in DOMAIN Drops(s) : Drops(s)[i].value = c} = {}
  BY <1>1, <1>2 DEF Light
<1>4. Times(c, s) \in Nat
  BY TimesNat
<1>5. Cardinality({i \in DOMAIN Drops(s) : Drops(s)[i].value = c}) = 0
  BY <1>3, FS_EmptySet
<1>6. Times(Drop(c), Drops(s)) \in Nat
  BY <1>1, <1>4
<1>7. Bears(Drops(s), c) = Times(Drop(c), Drops(s))
  BY <1>5, <1>6 DEF Bears
<1>. QED
  BY <1>1, <1>6, <1>7

\* What is dropped of one value.
LEMMA BearsValue ==
  ASSUME NEW v, NEW c \in Cell
  PROVE  Bears(Drops(<<v>>), c) = One(c = v /\ c \in Object)
<1>1. PICK V : V = {v}
  OBVIOUS
<1>2. <<v>> \in Seq(V)
  BY <1>1
<1>3. Bears(Drops(<<v>>), c) = IF c \in Object THEN Times(c, <<v>>) ELSE 0
  BY <1>2, BearsDrops
<1>4. Times(c, <<v>>) = One(v = c)
  BY TimesOne
<1>. QED
  BY <1>3, <1>4 DEF One

-----------------------------------------------------------------------------
(* Lists, when a node comes or some go.                                    *)

ListsOK(ns) == ns \in [Object -> Seq(NodeSet)] /\ \A t \in Object : Once(ns[t])

\* One node comes to one list.
LEMMA ListPut ==
  ASSUME NEW ns, ListsOK(ns), NEW t \in Object, NEW n \in NodeSet, ~Has(ns[t], n),
         NEW out, out = Registered(ns, t, n)
  PROVE  /\ ListsOK(out)
         /\ \A u \in Object : u # t => out[u] = ns[u]
         /\ \A u \in Object : \A x : Has(out[u], x) <=> Has(ns[u], x) \/ (u = t /\ x = n)
<1>1. ns[t] \in Seq(NodeSet) /\ Once(ns[t])
  BY DEF ListsOK
<1>2. PICK s : s = <<n>> \o ns[t]
  OBVIOUS
<1>3. /\ s \in Seq(NodeSet) /\ Once(s)
      /\ \A x : Has(s, x) <=> Has(ns[t], x) \/ x = n
  BY <1>1, <1>2, NodePut
<1>4. out = [ns EXCEPT ![t] = s]
  BY <1>2 DEF Registered
<1>5. out[t] = s /\ \A u \in Object : u # t => out[u] = ns[u]
  BY <1>4 DEF ListsOK
<1>6. ListsOK(out)
  BY <1>3, <1>4, <1>5 DEF ListsOK
<1>. QED
  BY <1>3, <1>5, <1>6

\* Nodes go from every list.
LEMMA ListCut ==
  ASSUME NEW ns, ListsOK(ns), NEW gone, NEW out, out = Without(ns, gone)
  PROVE  /\ ListsOK(out)
         /\ \A u \in Object : \A x : Has(out[u], x) <=> Has(ns[u], x) /\ x \notin gone[u]
         /\ \A u \in Object : ns[u] = <<>> => out[u] = <<>>
<1>1. ASSUME NEW u \in Object
      PROVE  /\ out[u] \in Seq(NodeSet) /\ Once(out[u])
             /\ \A x : Has(out[u], x) <=> Has(ns[u], x) /\ x \notin gone[u]
             /\ ns[u] = <<>> => out[u] = <<>>
  <2>1. ns[u] \in Seq(NodeSet) /\ Once(ns[u])
    BY DEF ListsOK
  <2>2. out[u] = Filter(ns[u], Range(ns[u]) \ gone[u])
    BY DEF Without
  <2>3. PICK s : s = ns[u]
    OBVIOUS
  <2>4. PICK g : g = gone[u]
    OBVIOUS
  <2>5. s \in Seq(NodeSet) /\ Once(s) /\ out[u] = Filter(s, Range(s) \ g)
    BY <2>1, <2>2, <2>3, <2>4
  <2>7. LET t == Filter(s, Range(s) \ g)
        IN /\ t \in Seq(NodeSet)
           /\ Once(s) => Once(t)
           /\ \A x : Has(t, x) <=> Has(s, x) /\ x \notin g
           /\ s = <<>> => t = <<>>
    BY <2>5, NodesLeft
  <2>6. /\ out[u] \in Seq(NodeSet) /\ Once(out[u])
        /\ \A x : Has(out[u], x) <=> Has(s, x) /\ x \notin g
        /\ s = <<>> => out[u] = <<>>
    BY <2>5, <2>7
  <2>. QED
    BY <2>3, <2>4, <2>6
<1>2. out = [u \in Object |-> Filter(ns[u], Range(ns[u]) \ gone[u])]
  BY DEF Without
<1>3. ListsOK(out)
  <2>1. DOMAIN out = Object /\ out = [u \in Object |-> out[u]]
    BY <1>2
  <2>. QED
    BY <1>1, <2>1 DEF ListsOK
<1>. QED
  BY <1>1, <1>3

\* One node goes from one list.
LEMMA ListLose ==
  ASSUME NEW ns, ListsOK(ns), NEW t, NEW n, NEW out, out = Deregistered(ns, t, n)
  PROVE  /\ ListsOK(out)
         /\ \A u \in Object : \A x : Has(out[u], x) <=> Has(ns[u], x) /\ ~(u = t /\ x = n)
         /\ \A u \in Object : ns[u] = <<>> => out[u] = <<>>
<1>1. PICK g : g = [o \in Object |-> IF o = t THEN {n} ELSE {}]
  OBVIOUS
<1>2. out = Without(ns, g)
  BY <1>1 DEF Deregistered
<1>3. /\ ListsOK(out)
      /\ \A u \in Object : \A x : Has(out[u], x) <=> Has(ns[u], x) /\ x \notin g[u]
      /\ \A u \in Object : ns[u] = <<>> => out[u] = <<>>
  BY <1>2, ListCut
<1>4. \A u \in Object : g[u] = IF u = t THEN {n} ELSE {}
  BY <1>1
<1>. QED
  BY <1>3, <1>4

\* The lists of a state, by themselves.
LEMMA ListsAre == Types /\ NodesOnce <=> Types /\ ListsOK(nodes)
  BY DEF Types, NodesOnce, ListsOK

-----------------------------------------------------------------------------
(* The program runs, no call under way.                                    *)

\* With no call under way, the state is in its own words.
LEMMA Idle ==
  ASSUME RegistryInv, work = <<>>
  PROVE  /\ \A c : Stack(c) = 0
         /\ \A m, k : ~Spent(m, k)
         /\ \A t \in Object : rc[t] = 0 => nodes[t] = <<>>
         /\ \A t \in Object, m \in WMap : Has(nodes[t], Node("map", m)) <=> entry[m][t] # None
         /\ \A c \in Cell : rc[c] = Roots(c) + Heap(c) /\ rc[c] \in Nat
         /\ \A c \in Cell : Roots(c) \in Nat /\ Heap(c) \in Nat
         /\ \A c \in owned : c \in Cell /\ rc[c] # 0
         /\ DOMAIN work = {}
<1>1. /\ Types /\ TypeOK /\ Gone /\ MapNodes /\ Counted /\ Plain
  BY Parts
<1>2. DOMAIN work = {}
  BY DOMAIN <<>> = {}
<1>3. \A c : Stack(c) = 0
  BY StackBears, BearsParts
<1>4. \A m, k : ~Spent(m, k)
  BY <1>2 DEF Spent
<1>5. \A t \in Object : rc[t] = 0 => nodes[t] = <<>>
  BY <1>1, <1>2 DEF Gone, Vacant, Calls
<1>6. \A t \in Object, m \in WMap : Has(nodes[t], Node("map", m)) <=> entry[m][t] # None
  BY <1>1, <1>2 DEF MapNodes, Leaves, CallsOn, Nexts, Calls
<1>7. ASSUME NEW c \in Cell PROVE rc[c] = Roots(c) + Heap(c) /\ rc[c] \in Nat /\ Roots(c) \in Nat /\ Heap(c) \in Nat
  <2>1. rc[c] = Owing(c) /\ rc[c] \in Nat /\ Roots(c) \in Nat /\ Heap(c) \in Nat
    BY <1>1, TermsNat DEF Counted, TypeOK
  <2>2. Owing(c) = Roots(c) + Heap(c) + 0
    BY <1>3 DEF Owing
  <2>. QED
    BY <2>1, <2>2
<1>8. \A c \in owned : c \in Cell /\ rc[c] # 0
  BY <1>1, Alive DEF TypeOK
<1>. QED
  BY <1>2, <1>3, <1>4, <1>5, <1>6, <1>7, <1>8

\* Nothing but the calls is left to count.
LEMMA IdleAgain ==
  ASSUME work' = <<>>
  PROVE  /\ \A c : Stack(c)' = 0 /\ Values(c)' = 0 /\ Owed(c)' = 0
         /\ (\A c \in Cell : rc'[c] = Roots(c)' + Heap(c)' /\ rc'[c] \in Nat) => Counted'
<1>1. DOMAIN work' = {}
  BY DOMAIN <<>> = {}
<1>2. ASSUME NEW c PROVE Stack(c)' = 0 /\ Values(c)' = 0 /\ Owed(c)' = 0
  <2>1. Values(c)' = 0
    <3>1. {i \in DOMAIN work' : work'[i].value = c} = {}
      BY <1>1
    <3>. QED
      BY <3>1, FS_EmptySet DEF Values
  <2>2. Owed(c)' = 0
    <3>1. {i \in DOMAIN work' : work'[i] = Drop(c)} = {}
      BY <1>1
    <3>. QED
      BY <3>1, FS_EmptySet DEF Owed, Times
  <2>. QED
    BY <2>1, <2>2 DEF Stack
<1>3. ASSUME \A c \in Cell : rc'[c] = Roots(c)' + Heap(c)' /\ rc'[c] \in Nat
      PROVE  Counted'
  BY <1>2, <1>3 DEF Counted, Owing
<1>. QED
  BY <1>2, <1>3

\* The heap of an idle stack.
LEMMA IdleHeap ==
  ASSUME RegistryInv, work = <<>>, work' = <<>>, UNCHANGED <<field, entry, rec>>, NEW c
  PROVE  Heap(c)' = Heap(c)
  BY SameTerms

\* And of one that leaves nothing spent.
LEMMA UnspentHeap ==
  ASSUME RegistryInv, work = <<>>, \A m, k : ~Spent(m, k)', UNCHANGED <<field, entry, rec>>, NEW c
  PROVE  Heap(c)' = Heap(c)
<1>1. \A m, k : ~Spent(m, k)
  BY Idle
<1>2. Entries(c)' = Entries(c)
  BY <1>1, EntriesSame
<1>3. Fields(c)' = Fields(c) /\ Helds(c)' = Helds(c)
  BY SameTerms
<1>. QED
  BY <1>2, <1>3 DEF Heap

\* New: a cell is made, with the program's reference.
LEMMA NewStep ==
  ASSUME RegistryInv, NEW c \in Cell, New(c)
  PROVE  RegistryInv'
<1>0. /\ Types /\ TypeOK /\ Filed /\ Listed /\ Gone /\ Stacked /\ Separate
      /\ Counted /\ Giving
      /\ NodesOnce /\ RefNodes /\ TargetNodes /\ TokenNodes /\ MapNodes
  BY Parts
<1>1. /\ work = <<>> /\ c \notin Ref /\ rc[c] = 0 /\ rc' = [rc EXCEPT ![c] = 1]
      /\ owned' = owned \cup {c} /\ work' = <<>>
      /\ UNCHANGED <<field, nodes, target, entry, rec, cells, pending, queue, kept, work, phase,
                     cleaning, given, stopped>>
  BY DEF New, Running, weak, fin, host
<1>2. /\ rc' \in [Cell -> Nat] /\ rc'[c] = 1 /\ \A b \in Cell : b # c => rc'[b] = rc[b]
  BY <1>0, <1>1 DEF TypeOK
<1>3. Stacked' /\ Separate' /\ work' \in Seq(CallSet)
  BY <1>1, EmptyStack
<1>4. Types'
  BY <1>0, <1>1, <1>2, <1>3 DEF Types, TypeOK
<1>5. MapNodes' /\ Gone'
  BY <1>0, <1>1, <1>2, MapNodesSame, GoneSame
<1>6. Counted'
  <2>1. ASSUME NEW b \in Cell PROVE rc'[b] = Roots(b)' + Heap(b)' /\ rc'[b] \in Nat
    <3>1. rc[b] = Roots(b) + Heap(b) /\ rc[b] \in Nat /\ Roots(b) \in Nat /\ Heap(b) \in Nat
      BY <1>1, Idle
    <3>2. Heap(b)' = Heap(b)
      BY <1>1, IdleHeap
    <3>3. Keeps(b)' = Keeps(b) /\ Queues(b)' = Queues(b) /\ Cleans(b)' = Cleans(b) /\ Gives(b)' = Gives(b)
      BY <1>1, SameTerms
    <3>4. Own(b)' = IF b = c THEN 1 ELSE Own(b)
      BY <1>1 DEF Own, One
    <3>5. b = c => Own(b) = 0
      BY <1>0, <1>1, Idle DEF Own, One
    <3>6. Own(b) \in Nat /\ Keeps(b) \in Nat /\ Queues(b) \in Nat /\ Cleans(b) \in Nat /\ Gives(b) \in Nat
      BY <1>0, TermsNat
    <3>7. Roots(b)' = IF b = c THEN Roots(b) + 1 ELSE Roots(b)
      BY <3>3, <3>4, <3>5, <3>6 DEF Roots
    <3>. QED
      BY <1>1, <1>2, <3>1, <3>2, <3>7
  <2>. QED
    BY <1>1, <2>1, IdleAgain
<1>. QED
  BY <1>0, <1>1, <1>3, <1>4, <1>5, <1>6, FiledSame, ListedSame, GivingSame DEF RegistryInv, Listed

\* Link: the program's reference becomes a field's.
LEMMA LinkStep ==
  ASSUME RegistryInv, NEW o \in Object, NEW p \in Object, Link(o, p)
  PROVE  RegistryInv'
<1>0. /\ Types /\ TypeOK /\ Filed /\ Listed /\ Gone /\ Stacked /\ Separate
      /\ Counted /\ Giving
      /\ NodesOnce /\ RefNodes /\ TargetNodes /\ TokenNodes /\ MapNodes
  BY Parts
<1>1. /\ work = <<>> /\ {o, p} \subseteq owned /\ o # p /\ field[o] = None
      /\ field' = [field EXCEPT ![o] = p] /\ owned' = owned \ {p} /\ work' = <<>>
      /\ UNCHANGED <<rc, nodes, target, entry, rec, cells, pending, queue, kept, work, phase,
                     cleaning, given, stopped>>
  BY DEF Link, Running, weak, fin, host
<1>2. /\ field' \in [Object -> Object \cup {None}] /\ field'[o] = p
      /\ \A b \in Object : b # o => field'[b] = field[b]
  BY <1>0, <1>1 DEF TypeOK
<1>3. Stacked' /\ Separate' /\ work' \in Seq(CallSet)
  BY <1>1, EmptyStack
<1>4. Types'
  BY <1>0, <1>1, <1>2, <1>3 DEF Types, TypeOK
<1>5. MapNodes' /\ Gone'
  BY <1>0, <1>1, MapNodesSame, GoneSame
<1>6. Counted'
  <2>1. ASSUME NEW b \in Cell PROVE rc'[b] = Roots(b)' + Heap(b)' /\ rc'[b] \in Nat
    <3>1. rc[b] = Roots(b) + Heap(b) /\ rc[b] \in Nat /\ Roots(b) \in Nat /\ Heap(b) \in Nat
      BY <1>1, Idle
    <3>2. /\ Fields(b)' + One(field[o] = b) = Fields(b) + One(field'[o] = b)
          /\ Fields(b)' \in Nat /\ One(field[o] = b) = 0
      BY <1>1, <1>2, FieldPut, NoOne
    <3>3. Entries(b)' = Entries(b) /\ Helds(b)' = Helds(b)
      BY <1>1, SameTerms
    <3>4. Keeps(b)' = Keeps(b) /\ Queues(b)' = Queues(b) /\ Cleans(b)' = Cleans(b) /\ Gives(b)' = Gives(b)
      BY <1>1, SameTerms
    <3>5. /\ Own(b)' = IF b = p THEN 0 ELSE Own(b)
          /\ b = p => Own(b) = 1
      BY <1>1 DEF Own, One
    <3>6. Own(b) \in Nat /\ Keeps(b) \in Nat /\ Queues(b) \in Nat /\ Cleans(b) \in Nat /\ Gives(b) \in Nat
      BY <1>0, TermsNat
    <3>7. Roots(b)' = IF b = p THEN Roots(b) - 1 ELSE Roots(b)
      BY <3>4, <3>5, <3>6 DEF Roots
    <3>8. One(field'[o] = b) = IF b = p THEN 1 ELSE 0
      BY <1>2 DEF One
    <3>9. Fields(b) \in Nat /\ Entries(b) \in Nat /\ Helds(b) \in Nat
      BY <1>0, TermsNat
    <3>10. Heap(b)' = IF b = p THEN Heap(b) + 1 ELSE Heap(b)
      BY <3>2, <3>3, <3>8, <3>9 DEF Heap
    <3>. QED
      BY <1>1, <3>1, <3>7, <3>10
  <2>. QED
    BY <1>1, <2>1, IdleAgain
<1>. QED
  BY <1>0, <1>1, <1>3, <1>4, <1>5, <1>6, FiledSame, ListedSame, GivingSame DEF RegistryInv, Listed

\* A reference goes to the kept list, or is there.
LEMMA KeepIs ==
  ASSUME Types, NEW t \in Object, NEW counts \in [Cell -> Nat], Keep(counts, t)
  PROVE  /\ kept' \in Seq(Object) /\ Len(kept') <= KeptBound
         /\ rc' \in [Cell -> Nat]
         /\ \A c \in Cell : \/ rc'[c] = counts[c] /\ Keeps(c)' = Keeps(c)
                            \/ rc'[c] = counts[c] + 1 /\ Keeps(c)' = Keeps(c) + 1
<1>1. kept \in Seq(Object) /\ Len(kept) <= KeptBound /\ t \in Cell /\ KeptBound \in Nat
  BY Kinds, BoundAssumption DEF Types, TypeOK
<1>2. CASE kept # <<>> /\ Last(kept) = t
  <2>1. rc' = counts /\ kept' = kept
    BY <1>2 DEF Keep
  <2>. QED
    BY <1>1, <2>1 DEF Keeps
<1>3. CASE ~(kept # <<>> /\ Last(kept) = t)
  <2>1. Len(kept) < KeptBound /\ rc' = [counts EXCEPT ![t] = @ + 1] /\ kept' = Append(kept, t)
    BY <1>1, <1>3 DEF Keep, Inc
  <2>2. kept' \in Seq(Object) /\ Len(kept') <= KeptBound
    BY <1>1, <2>1
  <2>3. ASSUME NEW c \in Cell PROVE Keeps(c)' = IF c = t THEN Keeps(c) + 1 ELSE Keeps(c)
    <3>1. Times(c, Append(kept, t)) = Times(c, kept) + One(t = c) /\ Times(c, kept) \in Nat
      BY <1>1, TimesAppend, TimesNat
    <3>2. Times(c, Append(kept, t)) = IF c = t THEN Times(c, kept) + 1 ELSE Times(c, kept)
      BY <3>1 DEF One
    <3>. QED
      BY <2>1, <3>2 DEF Keeps
  <2>4. rc' \in [Cell -> Nat] /\ \A c \in Cell : rc'[c] = IF c = t THEN counts[c] + 1 ELSE counts[c]
    BY <1>1, <2>1
  <2>. QED
    BY <2>2, <2>3, <2>4
<1>. QED
  BY <1>2, <1>3

\* What holds where no walk is under way.
LEMMA QuietLists ==
  /\ (\A t \in Object, m \in WMap : Has(nodes'[t], Node("map", m)) <=> entry'[m][t] # None) => MapNodes'
  /\ (/\ \A t \in Object : rc'[t] = 0 => nodes'[t] = <<>>
      /\ \A w \in Ref : rc'[w] = 0 => target'[w] = None) => Gone'
  BY DEF MapNodes, Gone, Vacant

\* RefCreate: a WeakRef is made, its target kept to the end of the job.
LEMMA RefCreateStep ==
  ASSUME RegistryInv, NEW w \in Ref, NEW t \in Object, RefCreate(w, t)
  PROVE  RegistryInv'
<1>a. PICK counts : counts = [rc EXCEPT ![w] = 1]
  OBVIOUS
<1>0. /\ Types /\ TypeOK /\ Filed /\ Listed /\ Gone /\ Stacked /\ Separate
      /\ Counted /\ Giving
      /\ NodesOnce /\ RefNodes /\ TargetNodes /\ TokenNodes /\ MapNodes
  BY Parts
<1>1. /\ work = <<>> /\ rc[w] = 0 /\ t \in owned
      /\ target' = [target EXCEPT ![w] = t]
      /\ nodes' = Registered(nodes, t, Node("ref", w))
      /\ owned' = owned \cup {w} /\ Keep(counts, t) /\ work' = <<>>
      /\ UNCHANGED <<field, entry, rec, cells, pending, queue, phase, cleaning, given, stopped>>
  BY <1>a DEF RefCreate, Running, fin, host
<1>2. w \in Cell /\ t \in Cell /\ w # t
  BY Kinds
<1>3. counts \in [Cell -> Nat] /\ \A c \in Cell : counts[c] = IF c = w THEN 1 ELSE rc[c]
  BY <1>0, <1>2, <1>a DEF TypeOK
<1>4. /\ kept' \in Seq(Object) /\ Len(kept') <= KeptBound
      /\ rc' \in [Cell -> Nat]
      /\ \A c \in Cell : \/ rc'[c] = counts[c] /\ Keeps(c)' = Keeps(c)
                         \/ rc'[c] = counts[c] + 1 /\ Keeps(c)' = Keeps(c) + 1
  BY <1>0, <1>1, <1>3, KeepIs
<1>5. target[w] = None
  BY <1>0, <1>1 DEF Gone
<1>6. /\ target' \in [Ref -> Object \cup {None}] /\ target'[w] = t
      /\ \A v \in Ref : v # w => target'[v] = target[v]
  BY <1>0, <1>1 DEF TypeOK
<1>7. /\ ListsOK(nodes')
      /\ \A u \in Object : u # t => nodes'[u] = nodes[u]
      /\ \A u \in Object : \A x : Has(nodes'[u], x) <=> Has(nodes[u], x) \/ (u = t /\ x = Node("ref", w))
  <2>1. ListsOK(nodes)
    BY <1>0, ListsAre
  <2>2. Node("ref", w) \in NodeSet
    BY NodeIn
  <2>3. ~Has(nodes[t], Node("ref", w))
    BY <1>0, <1>5, Kinds DEF RefNodes
  <2>. QED
    BY <1>1, <2>1, <2>2, <2>3, ListPut
<1>8. Stacked' /\ Separate' /\ work' \in Seq(CallSet)
  BY <1>1, EmptyStack
<1>9. Types' /\ NodesOnce'
  BY <1>0, <1>1, <1>2, <1>4, <1>6, <1>7, <1>8 DEF Types, TypeOK, ListsOK, NodesOnce
<1>10. RefNodes'
  <2>. SUFFICES ASSUME NEW u \in Object, NEW v \in Ref
                PROVE  Has(nodes'[u], Node("ref", v)) <=> target'[v] = u
    BY DEF RefNodes
  <2>1. Has(nodes[u], Node("ref", v)) <=> target[v] = u
    BY <1>0 DEF RefNodes
  <2>2. Node("ref", v) = Node("ref", w) <=> v = w
    BY NodeIs
  <2>. QED
    BY <1>5, <1>6, <1>7, <2>1, <2>2, Kinds
<1>11. TargetNodes' /\ TokenNodes'
  <2>1. \A k, x : k # "ref" => Node(k, x) # Node("ref", w)
    BY NodeIs
  <2>2. \A u \in Object : \A x : x # Node("ref", w) => (Has(nodes'[u], x) <=> Has(nodes[u], x))
    BY <1>7
  <2>3. rec' = rec
    BY <1>1
  <2>4. TargetNodes'
    BY <1>0, <2>1, <2>2, <2>3 DEF TargetNodes
  <2>5. TokenNodes'
    BY <1>0, <2>1, <2>2, <2>3 DEF TokenNodes
  <2>. QED
    BY <2>4, <2>5
<1>12. MapNodes'
  <2>1. \A m : Node("map", m) # Node("ref", w)
    BY NodeIs
  <2>2. \A u \in Object, m \in WMap : Has(nodes'[u], Node("map", m)) <=> entry'[m][u] # None
    BY <1>1, <1>7, <2>1, Idle
  <2>. QED
    BY <2>2, QuietLists
<1>13. \A c \in Cell : c # w /\ rc'[c] = 0 => rc[c] = 0
  BY <1>0, <1>3, <1>4 DEF TypeOK
<1>14. rc'[w] # 0
  BY <1>2, <1>3, <1>4
<1>15. Gone'
  <2>1. ASSUME NEW u \in Object, rc'[u] = 0 PROVE nodes'[u] = <<>>
    <3>1. u # w /\ u \in Cell
      BY Kinds
    <3>2. rc[u] = 0
      BY <1>13, <2>1, <3>1
    <3>3. u # t
      BY <1>1, <3>2, Idle
    <3>. QED
      BY <1>1, <1>7, <3>2, <3>3, Idle
  <2>2. ASSUME NEW v \in Ref, rc'[v] = 0 PROVE target'[v] = None
    <3>1. v # w /\ v \in Cell
      BY <1>14, <2>2, Kinds
    <3>. QED
      BY <1>0, <1>6, <1>13, <2>2, <3>1 DEF Gone
  <2>. QED
    BY <2>1, <2>2, QuietLists
<1>16. Counted'
  <2>1. ASSUME NEW b \in Cell PROVE rc'[b] = Roots(b)' + Heap(b)' /\ rc'[b] \in Nat
    <3>1. rc[b] = Roots(b) + Heap(b) /\ rc[b] \in Nat /\ Roots(b) \in Nat /\ Heap(b) \in Nat
      BY <1>1, Idle
    <3>2. Heap(b)' = Heap(b)
      BY <1>1, IdleHeap
    <3>3. Queues(b)' = Queues(b) /\ Cleans(b)' = Cleans(b) /\ Gives(b)' = Gives(b)
      BY <1>1, SameTerms
    <3>4. Own(b)' = IF b = w THEN 1 ELSE Own(b)
      BY <1>1 DEF Own, One
    <3>5. b = w => Own(b) = 0
      BY <1>1, Idle DEF Own, One
    <3>6. Own(b) \in Nat /\ Keeps(b) \in Nat /\ Queues(b) \in Nat /\ Cleans(b) \in Nat /\ Gives(b) \in Nat
      BY <1>0, TermsNat
    <3>7. Own(b)' = Own(b) + (counts[b] - rc[b]) /\ counts[b] \in Nat
      BY <1>1, <1>3, <3>1, <3>4, <3>5, <3>6
    <3>8. \/ rc'[b] = counts[b] /\ Keeps(b)' = Keeps(b)
          \/ rc'[b] = counts[b] + 1 /\ Keeps(b)' = Keeps(b) + 1
      BY <1>4
    <3>9. Roots(b)' = Roots(b) + (rc'[b] - rc[b])
      <4>1. CASE rc'[b] = counts[b] /\ Keeps(b)' = Keeps(b)
        BY <3>1, <3>3, <3>6, <3>7, <4>1 DEF Roots
      <4>2. CASE rc'[b] = counts[b] + 1 /\ Keeps(b)' = Keeps(b) + 1
        BY <3>1, <3>3, <3>6, <3>7, <4>2 DEF Roots
      <4>. QED
        BY <3>8, <4>1, <4>2
    <3>10. rc'[b] \in Nat
      BY <1>4
    <3>. QED
      BY <3>1, <3>2, <3>9, <3>10
  <2>. QED
    BY <1>1, <2>1, IdleAgain
<1>. QED
  BY <1>0, <1>1, <1>8, <1>9, <1>10, <1>11, <1>12, <1>15, <1>16, FiledSame, GivingSame
     DEF RegistryInv, Listed

\* The program comes to own t, which is counted for it if it did not.
LEMMA OwnPut ==
  ASSUME Types, NEW t \in Cell, owned' = owned \cup {t}, NEW counts,
         counts = (IF t \in owned THEN rc ELSE Inc(rc, t))
  PROVE  /\ counts \in [Cell -> Nat] /\ owned' \subseteq Cell
         /\ \A c \in Cell : /\ Own(c)' = Own(c) + (counts[c] - rc[c])
                            /\ rc[c] \in Nat /\ counts[c] \in Nat /\ rc[c] <= counts[c]
<1>1. rc \in [Cell -> Nat] /\ owned \subseteq Cell
  BY DEF Types, TypeOK
<1>2. CASE t \in owned
  BY <1>1, <1>2 DEF Own, One
<1>3. CASE t \notin owned
  <2>1. counts = [rc EXCEPT ![t] = @ + 1]
    BY <1>3 DEF Inc
  <2>2. \A c \in Cell : Own(c)' = IF c = t THEN Own(c) + 1 ELSE Own(c)
    BY <1>3 DEF Own, One
  <2>3. \A c \in Cell : Own(c) \in Nat
    BY DEF Own, One
  <2>. QED
    BY <1>1, <2>1, <2>2, <2>3
<1>. QED
  BY <1>2, <1>3

\* Deref: the program is given the target, which is kept.
LEMMA DerefStep ==
  ASSUME RegistryInv, NEW w \in Ref, Deref(w)
  PROVE  RegistryInv'
<1>a. PICK t : t = target[w]
  OBVIOUS
<1>b. PICK counts : counts = IF t \in owned THEN rc ELSE Inc(rc, t)
  OBVIOUS
<1>0. /\ Types /\ TypeOK /\ Filed /\ Listed /\ Gone /\ Stacked /\ Separate
      /\ Counted /\ Giving
      /\ NodesOnce /\ RefNodes /\ TargetNodes /\ TokenNodes /\ MapNodes
  BY Parts
<1>1. /\ work = <<>> /\ t # None /\ owned' = owned \cup {t} /\ Keep(counts, t) /\ work' = <<>>
      /\ UNCHANGED <<field, nodes, target, entry, rec, cells, pending, queue, phase, cleaning, given,
                     stopped, work>>
  BY <1>a, <1>b DEF Deref, Running, weak, fin, host
<1>2. t \in Object /\ t \in Cell
  BY <1>0, <1>1, <1>a, Kinds DEF TypeOK
<1>3. /\ counts \in [Cell -> Nat] /\ owned' \subseteq Cell
      /\ \A c \in Cell : /\ Own(c)' = Own(c) + (counts[c] - rc[c])
                         /\ rc[c] \in Nat /\ counts[c] \in Nat /\ rc[c] <= counts[c]
  BY <1>0, <1>1, <1>2, <1>b, OwnPut
<1>4. /\ kept' \in Seq(Object) /\ Len(kept') <= KeptBound
      /\ rc' \in [Cell -> Nat]
      /\ \A c \in Cell : \/ rc'[c] = counts[c] /\ Keeps(c)' = Keeps(c)
                         \/ rc'[c] = counts[c] + 1 /\ Keeps(c)' = Keeps(c) + 1
  BY <1>0, <1>1, <1>2, <1>3, KeepIs
<1>5. Stacked' /\ Separate' /\ work' \in Seq(CallSet)
  BY <1>1, EmptyStack
<1>6. Types'
  BY <1>0, <1>1, <1>3, <1>4, <1>5 DEF Types, TypeOK
<1>7. \A c \in Cell : rc'[c] = 0 => rc[c] = 0
  <2>. SUFFICES ASSUME NEW c \in Cell, rc'[c] = 0 PROVE rc[c] = 0
    OBVIOUS
  <2>1. rc'[c] = counts[c] \/ rc'[c] = counts[c] + 1
    BY <1>4
  <2>2. counts[c] \in Nat /\ rc[c] \in Nat /\ rc[c] <= counts[c]
    BY <1>3
  <2>. QED
    BY <2>1, <2>2
<1>8. MapNodes' /\ Gone'
  BY <1>0, <1>1, <1>7, MapNodesSame, GoneSame
<1>9. Counted'
  <2>1. ASSUME NEW b \in Cell PROVE rc'[b] = Roots(b)' + Heap(b)' /\ rc'[b] \in Nat
    <3>1. rc[b] = Roots(b) + Heap(b) /\ rc[b] \in Nat /\ Roots(b) \in Nat /\ Heap(b) \in Nat
      BY <1>1, Idle
    <3>2. Heap(b)' = Heap(b)
      BY <1>1, IdleHeap
    <3>3. Queues(b)' = Queues(b) /\ Cleans(b)' = Cleans(b) /\ Gives(b)' = Gives(b)
      BY <1>1, SameTerms
    <3>6. Own(b) \in Nat /\ Keeps(b) \in Nat /\ Queues(b) \in Nat /\ Cleans(b) \in Nat /\ Gives(b) \in Nat
      BY <1>0, TermsNat
    <3>7. Own(b)' = Own(b) + (counts[b] - rc[b]) /\ counts[b] \in Nat
      BY <1>3
    <3>8. \/ rc'[b] = counts[b] /\ Keeps(b)' = Keeps(b)
          \/ rc'[b] = counts[b] + 1 /\ Keeps(b)' = Keeps(b) + 1
      BY <1>4
    <3>9. Roots(b)' = Roots(b) + (rc'[b] - rc[b])
      <4>1. CASE rc'[b] = counts[b] /\ Keeps(b)' = Keeps(b)
        BY <3>1, <3>3, <3>6, <3>7, <4>1 DEF Roots
      <4>2. CASE rc'[b] = counts[b] + 1 /\ Keeps(b)' = Keeps(b) + 1
        BY <3>1, <3>3, <3>6, <3>7, <4>2 DEF Roots
      <4>. QED
        BY <3>8, <4>1, <4>2
    <3>10. rc'[b] \in Nat
      BY <1>4
    <3>. QED
      BY <3>1, <3>2, <3>9, <3>10
  <2>. QED
    BY <1>1, <2>1, IdleAgain
<1>. QED
  BY <1>0, <1>1, <1>5, <1>6, <1>8, <1>9, FiledSame, ListedSame, GivingSame DEF RegistryInv, Listed

\* MapGet: the program is given the value.
LEMMA MapGetStep ==
  ASSUME RegistryInv, NEW m \in WMap, NEW k \in Object, MapGet(m, k)
  PROVE  RegistryInv'
<1>a. PICK t : t = entry[m][k]
  OBVIOUS
<1>0. /\ Types /\ TypeOK /\ Filed /\ Listed /\ Gone /\ Stacked /\ Separate
      /\ Counted /\ Giving
      /\ NodesOnce /\ RefNodes /\ TargetNodes /\ TokenNodes /\ MapNodes
  BY Parts
<1>1. /\ work = <<>> /\ t \in Object \ owned /\ owned' = owned \cup {t} /\ rc' = Inc(rc, t)
      /\ work' = <<>>
      /\ UNCHANGED <<field, nodes, target, entry, rec, cells, pending, queue, kept, phase, cleaning,
                     given, stopped, work>>
  BY <1>a DEF MapGet, Running, weak, fin, host
<1>2. t \in Cell
  BY <1>1, Kinds
<1>3. /\ rc' \in [Cell -> Nat] /\ owned' \subseteq Cell
      /\ \A c \in Cell : /\ Own(c)' = Own(c) + (rc'[c] - rc[c])
                         /\ rc[c] \in Nat /\ rc'[c] \in Nat /\ rc[c] <= rc'[c]
  <2>1. PICK counts : counts = IF t \in owned THEN rc ELSE Inc(rc, t)
    OBVIOUS
  <2>2. counts = rc'
    BY <1>1, <2>1
  <2>3. /\ counts \in [Cell -> Nat] /\ owned' \subseteq Cell
        /\ \A c \in Cell : /\ Own(c)' = Own(c) + (counts[c] - rc[c])
                           /\ rc[c] \in Nat /\ counts[c] \in Nat /\ rc[c] <= counts[c]
    BY <1>0, <1>1, <1>2, <2>1, OwnPut
  <2>. QED
    BY <2>2, <2>3
<1>5. Stacked' /\ Separate' /\ work' \in Seq(CallSet)
  BY <1>1, EmptyStack
<1>6. Types'
  BY <1>0, <1>1, <1>3, <1>5 DEF Types, TypeOK
<1>7. \A c \in Cell : rc'[c] = 0 => rc[c] = 0
  BY <1>3
<1>8. MapNodes' /\ Gone'
  BY <1>0, <1>1, <1>7, MapNodesSame, GoneSame
<1>9. Counted'
  <2>1. ASSUME NEW b \in Cell PROVE rc'[b] = Roots(b)' + Heap(b)' /\ rc'[b] \in Nat
    <3>1. rc[b] = Roots(b) + Heap(b) /\ rc[b] \in Nat /\ Roots(b) \in Nat /\ Heap(b) \in Nat
      BY <1>1, Idle
    <3>2. Heap(b)' = Heap(b)
      BY <1>1, IdleHeap
    <3>3. Keeps(b)' = Keeps(b) /\ Queues(b)' = Queues(b) /\ Cleans(b)' = Cleans(b) /\ Gives(b)' = Gives(b)
      BY <1>1, SameTerms
    <3>6. Own(b) \in Nat /\ Keeps(b) \in Nat /\ Queues(b) \in Nat /\ Cleans(b) \in Nat /\ Gives(b) \in Nat
      BY <1>0, TermsNat
    <3>7. Own(b)' = Own(b) + (rc'[b] - rc[b]) /\ rc'[b] \in Nat
      BY <1>3
    <3>9. Roots(b)' = Roots(b) + (rc'[b] - rc[b])
      BY <3>1, <3>3, <3>6, <3>7 DEF Roots
    <3>. QED
      BY <3>1, <3>2, <3>7, <3>9
  <2>. QED
    BY <1>1, <2>1, IdleAgain
<1>. QED
  BY <1>0, <1>1, <1>5, <1>6, <1>8, <1>9, FiledSame, ListedSame, GivingSame DEF RegistryInv, Listed

-----------------------------------------------------------------------------
(* The host, between two jobs.                                             *)

\* Objects are dropped, and a registry last.
Falls(e, i, n) == ObjectDrop(e) \/ (i = n /\ e = Drop(e.cell) /\ e.cell \in Reg)

\* A stack of drops is such as may be.
LEMMA FallStack ==
  ASSUME NEW s \in Seq(CallSet), s = work', \A i \in DOMAIN s : Falls(s[i], i, Len(s))
  PROVE  /\ Stacked' /\ Separate'
         /\ \A m, k : ~Spent(m, k)'
<1>1. \A i \in DOMAIN s : s[i].op = "drop" /\ s[i].cell \notin WMap /\ Settled(s, i)
  BY DropIs, Kinds DEF Falls, Settled, ObjectDrop
<1>2. Stacked'
  BY <1>1, BaseStacked
<1>3. Separate'
  BY <1>1, NoMapStack
<1>4. \A m, k : ~Spent(m, k)'
  BY <1>1 DEF Spent
<1>. QED
  BY <1>2, <1>3, <1>4

\* The drops of objects fall.
LEMMA DropsFall ==
  ASSUME NEW V, NEW s \in Seq(V), NEW n
  PROVE  /\ Drops(s) \in Seq(CallSet)
         /\ \A i \in DOMAIN Drops(s) : Falls(Drops(s)[i], i, n) /\ ObjectDrop(Drops(s)[i])
<1>1. /\ Drops(s) \in Seq(CallSet)
      /\ \A i \in DOMAIN Drops(s) : Light(Drops(s)[i]) /\ Drops(s)[i].op = "drop"
  BY DropsAre
<1>. QED
  BY <1>1 DEF Light, Falls, ObjectDrop

\* Where nothing of the registries changes.
LEMMA QuietSame ==
  ASSUME RegistryInv, work = <<>>, UNCHANGED <<rc, nodes, target, entry>>
  PROVE  MapNodes' /\ Gone'
<1>1. Gone
  BY Parts
<1>2. \A t \in Object, m \in WMap : Has(nodes'[t], Node("map", m)) <=> entry'[m][t] # None
  BY Idle
<1>3. \A t \in Object : rc'[t] = 0 => nodes'[t] = <<>>
  BY Idle
<1>4. \A w \in Ref : rc'[w] = 0 => target'[w] = None
  BY <1>1 DEF Gone
<1>. QED
  BY <1>2, <1>3, <1>4, QuietLists

\* EndJob: the kept list is emptied, each of it due a release.
LEMMA EndJobStep ==
  ASSUME RegistryInv, EndJob
  PROVE  RegistryInv'
<1>0. /\ Types /\ TypeOK /\ Filed /\ Listed /\ Gone /\ Stacked /\ Separate
      /\ Counted /\ Giving
      /\ NodesOnce /\ RefNodes /\ TargetNodes /\ TokenNodes /\ MapNodes
  BY Parts
<1>1. /\ work = <<>> /\ phase \in {"job", "cleaned"} /\ phase' = "boundary" /\ kept' = <<>>
      /\ work' = Drops(kept)
      /\ UNCHANGED <<rc, owned, field, nodes, target, entry, rec, cells, pending, queue,
                     cleaning, given, stopped>>
  BY DEF EndJob, weak, fin
<1>2. kept \in Seq(Object)
  BY <1>0 DEF TypeOK
<1>3. PICK n : n = Len(Drops(kept))
  OBVIOUS
<1>4. Drops(kept) \in Seq(CallSet) /\ \A i \in DOMAIN Drops(kept) : Falls(Drops(kept)[i], i, n)
  BY <1>2, DropsFall
<1>5. Stacked' /\ Separate' /\ \A m, k : ~Spent(m, k)'
  BY <1>1, <1>3, <1>4, FallStack
<1>6. Types'
  <2>1. kept' \in Seq(Object) /\ Len(kept') <= KeptBound
    BY <1>1, BoundAssumption
  <2>2. work' \in Seq(CallSet)
    BY <1>1, <1>4
  <2>. QED
    BY <1>0, <1>1, <2>1, <2>2 DEF Types, TypeOK
<1>7. MapNodes' /\ Gone'
  BY <1>1, QuietSame
<1>8. Counted'
  <2>. SUFFICES ASSUME NEW c \in Cell PROVE rc'[c] = Owing(c)'
    BY DEF Counted
  <2>1. rc[c] = Roots(c) + Heap(c) /\ Roots(c) \in Nat /\ Heap(c) \in Nat
    BY <1>1, Idle
  <2>2. Heap(c)' = Heap(c)
    BY <1>1, <1>5, UnspentHeap
  <2>3. Own(c)' = Own(c) /\ Queues(c)' = Queues(c) /\ Cleans(c)' = Cleans(c) /\ Gives(c)' = Gives(c)
    BY <1>1, SameTerms
  <2>4. Own(c) \in Nat /\ Keeps(c) \in Nat /\ Queues(c) \in Nat /\ Cleans(c) \in Nat /\ Gives(c) \in Nat
    BY <1>0, TermsNat
  <2>5. Keeps(c)' = 0
    <3>1. <<>> \in Seq(Object)
      OBVIOUS
    <3>. QED
      BY <1>1, <3>1, TimesNat DEF Keeps
  <2>6. Stack(c)' = Keeps(c)
    <3>1. Stack(c)' = IF c \in Object THEN Times(c, kept) ELSE 0
      BY <1>1, <1>2, StackBears, BearsDrops
    <3>2. c \notin Object => Times(c, kept) = 0
      BY <1>2, TimesNat
    <3>. QED
      BY <3>1, <3>2 DEF Keeps
  <2>7. Roots(c)' + Keeps(c) = Roots(c) /\ Roots(c)' \in Nat
    BY <2>3, <2>4, <2>5 DEF Roots
  <2>. QED
    BY <1>1, <2>1, <2>2, <2>4, <2>6, <2>7 DEF Owing
<1>9. Giving'
  BY <1>0, <1>1 DEF Giving
<1>. QED
  BY <1>0, <1>1, <1>5, <1>6, <1>7, <1>8, <1>9, FiledSame, ListedSame DEF RegistryInv, Listed

\* NextJob: the next job starts.
LEMMA NextJobStep ==
  ASSUME RegistryInv, NextJob
  PROVE  RegistryInv'
<1>0. /\ Types /\ TypeOK /\ Filed /\ Listed /\ Gone /\ Stacked /\ Separate
      /\ Counted /\ Giving
      /\ NodesOnce /\ RefNodes /\ TargetNodes /\ TokenNodes /\ MapNodes
  BY Parts
<1>1. /\ work = <<>> /\ phase = "boundary" /\ phase' = "job" /\ work' = <<>>
      /\ UNCHANGED <<rc, owned, field, nodes, target, entry, rec, cells, pending, queue, kept, work,
                     cleaning, given, stopped>>
  BY DEF NextJob, weak, fin
<1>2. Stacked' /\ Separate' /\ work' \in Seq(CallSet)
  BY <1>1, EmptyStack
<1>3. Types'
  BY <1>0, <1>1, <1>2 DEF Types, TypeOK
<1>4. MapNodes' /\ Gone'
  BY <1>1, QuietSame
<1>5. Counted'
  <2>1. ASSUME NEW c \in Cell PROVE rc'[c] = Roots(c)' + Heap(c)' /\ rc'[c] \in Nat
    BY <1>1, Idle, SameTerms
  <2>. QED
    BY <1>1, <2>1, IdleAgain
<1>6. Giving'
  BY <1>0, <1>1 DEF Giving
<1>. QED
  BY <1>0, <1>1, <1>2, <1>3, <1>4, <1>5, <1>6, FiledSame, ListedSame DEF RegistryInv, Listed

\* The head of a queue goes.
LEMMA TailHas ==
  ASSUME NEW S, NEW s \in Seq(S), s # <<>>, Once(s)
  PROVE  /\ Tail(s) \in Seq(S) /\ Head(s) \in S /\ Once(Tail(s)) /\ Has(s, Head(s))
         /\ \A x : Has(Tail(s), x) <=> Has(s, x) /\ x # Head(s)
<1>1. /\ Tail(s) \in Seq(S) /\ Head(s) \in S
      /\ DOMAIN s = 1 .. Len(s) /\ Len(s) \in Nat /\ Len(s) > 0
      /\ DOMAIN Tail(s) = 1 .. Len(s) - 1
      /\ \A i \in 1 .. Len(s) - 1 : Tail(s)[i] = s[i + 1]
      /\ Head(s) = s[1]
  BY TailAt
<1>2. PICK t, h, n : t = Tail(s) /\ h = Head(s) /\ n = Len(s)
  OBVIOUS
<1>3. /\ DOMAIN s = 1 .. n /\ n \in Nat /\ n > 0 /\ DOMAIN t = 1 .. n - 1 /\ h = s[1]
      /\ \A i \in 1 .. n - 1 : t[i] = s[i + 1] /\ i + 1 \in 1 .. n /\ i + 1 # 1
      /\ 1 \in 1 .. n
  BY <1>1, <1>2
<1>4. \A i \in 1 .. n : i # 1 => i - 1 \in 1 .. n - 1 /\ t[i - 1] = s[i]
  BY <1>3
<1>5. Once(t)
  <2>. SUFFICES ASSUME NEW i \in 1 .. n - 1, NEW j \in 1 .. n - 1, t[i] = t[j] PROVE i = j
    BY <1>3 DEF Once
  <2>1. i + 1 = j + 1
    BY <1>3 DEF Once
  <2>. QED
    BY <2>1, <1>3
<1>6. Has(s, h)
  BY <1>3 DEF Has
<1>7. \A x : Has(t, x) => Has(s, x) /\ x # h
  BY <1>3 DEF Has, Once
<1>8. \A x : Has(s, x) /\ x # h => Has(t, x)
  BY <1>3, <1>4 DEF Has
<1>. QED
  BY <1>1, <1>2, <1>5, <1>6, <1>7, <1>8

\* QueuePop: the queue's reference becomes the drain's.
LEMMA QueuePopStep ==
  ASSUME RegistryInv, QueuePop
  PROVE  RegistryInv'
<1>0. /\ Types /\ TypeOK /\ Filed /\ Listed /\ Gone /\ Stacked /\ Separate
      /\ Counted /\ Giving /\ Placed /\ LiveCells /\ DueCells
      /\ NodesOnce /\ RefNodes /\ TargetNodes /\ TokenNodes /\ MapNodes
  BY Parts
<1>a. PICK f : f = Head(queue)
  OBVIOUS
<1>1. /\ work = <<>> /\ phase = "boundary" /\ queue # <<>> /\ cleaning' = f /\ queue' = Tail(queue)
      /\ phase' = "drain" /\ work' = <<>>
      /\ UNCHANGED <<rc, owned, field, nodes, target, entry, rec, cells, pending, kept, work,
                     given, stopped>>
  BY <1>a DEF QueuePop, weak
<1>2. cleaning = None /\ queue \in Seq(Reg) /\ Once(queue)
  BY <1>0, <1>1 DEF TypeOK, Filed
<1>3. /\ queue' \in Seq(Reg) /\ f \in Reg /\ Once(queue')
      /\ \A x : Has(queue, x) => Has(queue', x) \/ x = f
  BY <1>1, <1>2, <1>a, TailHas
<1>4. Stacked' /\ Separate' /\ work' \in Seq(CallSet)
  BY <1>1, EmptyStack
<1>5. Types'
  BY <1>0, <1>1, <1>3, <1>4, Kinds DEF Types, TypeOK
<1>6. Filed'
  <2>1. \A r \in Record : Due(r) => Due(r)'
    BY <1>1, <1>2, <1>3, Kinds DEF Due
  <2>2. \A r \in Record : LiveAt(r) => LiveAt(r)'
    BY <1>1 DEF LiveAt
  <2>3. Placed'
    BY <1>0, <1>1, <2>1, <2>2 DEF Placed, Unused
  <2>4. LiveCells' /\ DueCells'
    BY <1>0, <1>1 DEF LiveCells, DueCells
  <2>5. \A g \in Reg : Once(pending'[g])
    BY <1>0, <1>1 DEF Filed
  <2>. QED
    BY <1>3, <2>3, <2>4, <2>5 DEF Filed
<1>7. MapNodes' /\ Gone'
  BY <1>1, QuietSame
<1>8. Counted'
  <2>1. ASSUME NEW c \in Cell PROVE rc'[c] = Roots(c)' + Heap(c)' /\ rc'[c] \in Nat
    <3>1. rc[c] = Roots(c) + Heap(c) /\ rc[c] \in Nat /\ Roots(c) \in Nat /\ Heap(c) \in Nat
      BY <1>1, Idle
    <3>2. Heap(c)' = Heap(c)
      BY <1>1, IdleHeap
    <3>3. Keeps(c)' = Keeps(c) /\ Own(c)' = Own(c) /\ Gives(c)' = Gives(c)
      BY <1>1, SameTerms
    <3>4. Queues(c) = Queues(c)' + One(f = c) /\ Queues(c)' \in Nat
      BY <1>1, <1>2, <1>3, <1>a, TimesTail, TimesNat DEF Queues
    <3>5. Cleans(c)' = One(f = c) /\ Cleans(c) = 0 /\ Cleans(c)' \in Nat
      BY <1>1, <1>2, NoOne DEF Cleans, One
    <3>6. Own(c) \in Nat /\ Keeps(c) \in Nat /\ Gives(c) \in Nat
      BY <1>0, TermsNat
    <3>7. Roots(c)' = Roots(c)
      BY <3>3, <3>4, <3>5, <3>6 DEF Roots
    <3>. QED
      BY <1>1, <3>1, <3>2, <3>7
  <2>. QED
    BY <1>1, <2>1, IdleAgain
<1>9. Giving'
  BY <1>0, <1>1 DEF Giving
<1>. QED
  BY <1>0, <1>1, <1>4, <1>5, <1>6, <1>7, <1>8, <1>9, ListedSame DEF RegistryInv, Listed

\* CallbackReturns: the value given is due its release.
LEMMA CallbackReturnsStep ==
  ASSUME RegistryInv, CallbackReturns
  PROVE  RegistryInv'
<1>0. /\ Types /\ TypeOK /\ Filed /\ Listed /\ Gone /\ Stacked /\ Separate
      /\ Counted /\ Giving
      /\ NodesOnce /\ RefNodes /\ TargetNodes /\ TokenNodes /\ MapNodes
  BY Parts
<1>1. /\ work = <<>> /\ phase = "callback" /\ phase' = "drain" /\ given' = Primitive
      /\ work' = Drops(<<given>>)
      /\ UNCHANGED <<rc, owned, field, nodes, target, entry, rec, cells, pending, queue, kept,
                     cleaning, stopped>>
  BY DEF CallbackReturns, weak, fin
<1>2. PICK s, n : s = Drops(<<given>>) /\ n = Len(s)
  OBVIOUS
<1>3. s \in Seq(CallSet) /\ \A i \in DOMAIN s : Falls(s[i], i, n)
  <2>1. PICK V, one : V = {given} /\ one = <<given>>
    OBVIOUS
  <2>2. one \in Seq(V) /\ s = Drops(one)
    BY <1>2, <2>1
  <2>. QED
    BY <2>2, DropsFall
<1>5. Stacked' /\ Separate' /\ \A m, k : ~Spent(m, k)'
  BY <1>1, <1>2, <1>3, FallStack
<1>6. Types'
  BY <1>0, <1>1, <1>2, <1>3 DEF Types, TypeOK
<1>7. MapNodes' /\ Gone'
  BY <1>1, QuietSame
<1>8. Counted'
  <2>. SUFFICES ASSUME NEW c \in Cell PROVE rc'[c] = Owing(c)'
    BY DEF Counted
  <2>1. rc[c] = Roots(c) + Heap(c) /\ Roots(c) \in Nat /\ Heap(c) \in Nat
    BY <1>1, Idle
  <2>2. Heap(c)' = Heap(c)
    BY <1>1, <1>5, UnspentHeap
  <2>3. Own(c)' = Own(c) /\ Queues(c)' = Queues(c) /\ Cleans(c)' = Cleans(c) /\ Keeps(c)' = Keeps(c)
    BY <1>1, SameTerms
  <2>4. Own(c) \in Nat /\ Keeps(c) \in Nat /\ Queues(c) \in Nat /\ Cleans(c) \in Nat /\ Gives(c) \in Nat
    BY <1>0, TermsNat
  <2>5. Gives(c)' = 0
    BY <1>1, NoOne DEF Gives
  <2>6. Stack(c)' = Gives(c)
    <3>1. Stack(c)' = One(c = given /\ c \in Object)
      BY <1>1, StackBears, BearsValue
    <3>2. given \in Object \cup {Primitive} /\ c # Primitive
      BY <1>0, Kinds DEF TypeOK
    <3>. QED
      BY <3>1, <3>2 DEF Gives, One
  <2>7. Roots(c)' + Gives(c) = Roots(c) /\ Roots(c)' \in Nat
    BY <2>3, <2>4, <2>5 DEF Roots
  <2>. QED
    BY <1>1, <2>1, <2>2, <2>4, <2>6, <2>7 DEF Owing
<1>9. Giving'
  BY <1>1 DEF Giving
<1>. QED
  BY <1>0, <1>1, <1>5, <1>6, <1>7, <1>8, <1>9, FiledSame, ListedSame DEF RegistryInv, Listed

\* A drain ends: what is left in it is queued again, or a throw's.
LEMMA DrainEndsStep ==
  ASSUME RegistryInv, work = <<>>, phase \in {"drain", "callback"}, DrainEnds,
         stopped \subseteq stopped', stopped' \subseteq Reg,
         pending[cleaning] = <<>> \/ Has(queue, cleaning) \/ cleaning \in stopped'
  PROVE  RegistryInv'
<1>0. /\ Types /\ TypeOK /\ Filed /\ Listed /\ Gone /\ Stacked /\ Separate
      /\ Counted /\ Giving /\ Placed /\ LiveCells /\ DueCells
      /\ NodesOnce /\ RefNodes /\ TargetNodes /\ TokenNodes /\ MapNodes
  BY Parts
<1>a. PICK f, ds : f = cleaning /\ ds = Drops(<<given>>)
  OBVIOUS
<1>1. /\ cleaning' = None /\ given' = Primitive /\ phase' = "cleaned"
      /\ work' = ds \o <<Drop(f)>>
      /\ UNCHANGED <<rc, owned, field, nodes, target, entry, rec, cells, pending, queue, kept>>
  BY <1>a DEF DrainEnds, weak, fin
<1>2. f \in Reg /\ f \in Cell
  BY <1>0, <1>a, Kinds DEF TypeOK
<1>3. ds \in Seq(CallSet) /\ (\A i \in DOMAIN ds : ObjectDrop(ds[i])) /\ Drop(f) \in CallSet
  <2>1. PICK V, one : V = {given} /\ one = <<given>>
    OBVIOUS
  <2>2. one \in Seq(V) /\ ds = Drops(one)
    BY <1>a, <2>1
  <2>. QED
    BY <1>2, <2>2, DropsFall, DropIs
<1>4. PICK s, n, e : s = ds \o <<e>> /\ n = Len(ds) + 1 /\ e = Drop(f)
  OBVIOUS
<1>5. /\ s \in Seq(CallSet)
      /\ \A i \in DOMAIN s : (i = n /\ s[i] = e) \/ \E j \in DOMAIN ds : s[i] = ds[j]
  BY <1>3, <1>4, OneMore
<1>6. Len(s) = n
  BY <1>3, <1>4
<1>7. \A i \in DOMAIN s : Falls(s[i], i, n)
  <2>1. e = Drop(e.cell) /\ e.cell \in Reg
    BY <1>2, <1>4, DropIs
  <2>. QED
    BY <1>3, <1>5, <2>1 DEF Falls
<1>8. work' = s
  BY <1>1, <1>4
<1>9. Stacked' /\ Separate' /\ \A m, k : ~Spent(m, k)'
  BY <1>5, <1>6, <1>7, <1>8, FallStack
<1>10. Types'
  <2>1. work' \in Seq(CallSet)
    BY <1>5, <1>8
  <2>2. stopped' \subseteq Reg
    OBVIOUS
  <2>. QED
    BY <1>0, <1>1, <2>1, <2>2 DEF Types, TypeOK
<1>11. Filed'
  <2>1. ASSUME NEW r \in Record, Due(r) PROVE Due(r)'
    <3>1. /\ rec[r].of \in Reg /\ rec[r].target = None /\ Has(pending[rec[r].of], r)
          /\ cleaning = rec[r].of \/ Has(queue, rec[r].of) \/ rec[r].of \in stopped
      BY <2>1 DEF Due
    <3>2. cleaning = rec[r].of => pending[cleaning] # <<>>
      BY <3>1 DEF Has
    <3>. QED
      BY <1>1, <3>1, <3>2 DEF Due
  <2>2. \A r \in Record : LiveAt(r) => LiveAt(r)'
    BY <1>1 DEF LiveAt
  <2>3. Placed'
    BY <1>0, <1>1, <2>1, <2>2 DEF Placed, Unused
  <2>4. LiveCells' /\ DueCells'
    BY <1>0, <1>1 DEF LiveCells, DueCells
  <2>5. (\A g \in Reg : Once(pending'[g])) /\ Once(queue')
    BY <1>0, <1>1 DEF Filed
  <2>. QED
    BY <2>3, <2>4, <2>5 DEF Filed
<1>12. MapNodes' /\ Gone'
  BY <1>1, QuietSame
<1>13. Counted'
  <2>. SUFFICES ASSUME NEW c \in Cell PROVE rc'[c] = Owing(c)'
    BY DEF Counted
  <2>1. rc[c] = Roots(c) + Heap(c) /\ Roots(c) \in Nat /\ Heap(c) \in Nat
    BY Idle
  <2>2. Heap(c)' = Heap(c)
    BY <1>1, <1>9, UnspentHeap
  <2>3. Own(c)' = Own(c) /\ Queues(c)' = Queues(c) /\ Keeps(c)' = Keeps(c)
    BY <1>1, SameTerms
  <2>4. Own(c) \in Nat /\ Keeps(c) \in Nat /\ Queues(c) \in Nat /\ Cleans(c) \in Nat /\ Gives(c) \in Nat
    BY <1>0, TermsNat
  <2>5. Gives(c)' = 0 /\ Cleans(c)' = 0
    BY <1>1, NoOne DEF Gives, Cleans
  <2>6. Stack(c)' = Gives(c) + Cleans(c)
    <3>1. PICK u : u = <<Drop(f)>>
      OBVIOUS
    <3>2. u \in Seq(CallSet) /\ Stack(c)' = Bears(ds \o u, c)
      BY <1>1, <1>3, <3>1, StackBears
    <3>3. Stack(c)' = Bears(ds, c) + Bears(u, c)
      BY <1>3, <3>2, BearsParts
    <3>4. Bears(ds, c) = One(c = given /\ c \in Object)
      BY <1>a, BearsValue
    <3>5. Bears(u, c) = One(f = c)
      BY <1>2, <3>1, BearsDrop
    <3>6. given \in Object \cup {Primitive} /\ c # Primitive
      BY <1>0, Kinds DEF TypeOK
    <3>7. One(c = given /\ c \in Object) = Gives(c)
      BY <3>6 DEF Gives, One
    <3>. QED
      BY <1>a, <3>3, <3>4, <3>5, <3>7 DEF Cleans
  <2>7. Roots(c)' + Gives(c) + Cleans(c) = Roots(c) /\ Roots(c)' \in Nat
    BY <2>3, <2>4, <2>5 DEF Roots
  <2>. QED
    BY <1>1, <2>1, <2>2, <2>4, <2>6, <2>7 DEF Owing
<1>14. Giving'
  BY <1>1 DEF Giving
<1>. QED
  BY <1>0, <1>1, <1>9, <1>10, <1>11, <1>12, <1>13, <1>14, ListedSame DEF RegistryInv, Listed

\* NothingPending and CallbackThrows: the drain ends, and leaves what is pending.
LEMMA HostEndsStep ==
  ASSUME RegistryInv, NothingPending \/ CallbackThrows
  PROVE  RegistryInv'
<1>1. TypeOK
  BY Parts
<1>2. CASE NothingPending
  <2>1. /\ phase = "drain" /\ work = <<>> /\ pending[cleaning] = <<>> /\ DrainEnds /\ stopped' = stopped
    BY <1>2 DEF NothingPending
  <2>2. stopped \subseteq Reg
    BY <1>1 DEF TypeOK
  <2>. QED
    BY <2>1, <2>2, DrainEndsStep
<1>3. CASE CallbackThrows
  <2>1. /\ phase = "callback" /\ work = <<>> /\ DrainEnds
        /\ stopped' = IF pending[cleaning] = <<>> \/ cleaning \in Range(queue)
                      THEN stopped ELSE stopped \cup {cleaning}
    BY <1>3 DEF CallbackThrows
  <2>2. stopped \subseteq Reg /\ cleaning \in Reg
    BY <1>1, <2>1 DEF TypeOK
  <2>3. cleaning \in Range(queue) => Has(queue, cleaning)
    BY DEF Range, Has
  <2>4. /\ stopped \subseteq stopped' /\ stopped' \subseteq Reg
        /\ pending[cleaning] = <<>> \/ Has(queue, cleaning) \/ cleaning \in stopped'
    BY <2>1, <2>2, <2>3
  <2>. QED
    BY <2>1, <2>4, DrainEndsStep
<1>. QED
  BY <1>2, <1>3

-----------------------------------------------------------------------------
(* Records are detached.                                                   *)

\* A free record says nothing.
LEMMA UnusedIs ==
  /\ Unused \in RecordSet /\ Unused.state = "free" /\ Unused.target = None
  /\ Unused.token = None /\ Unused.held = Primitive
  BY DEF Unused, RecordSet, Word, Value

\* The nodes of the records go, and no other.
LEMMA DetachedLists ==
  ASSUME Types, NodesOnce, RefNodes, TargetNodes, TokenNodes,
         NEW rs \in SUBSET Record, nodes' = Detached(nodes, rs), UNCHANGED target,
         \A q \in rs : rec'[q].target = None /\ rec'[q].token = None,
         \A q \in Record \ rs : rec'[q].target = rec[q].target /\ rec'[q].token = rec[q].token
  PROVE  /\ ListsOK(nodes')
         /\ NodesOnce' /\ RefNodes' /\ TargetNodes' /\ TokenNodes'
         /\ \A t \in Object : \A m : Has(nodes'[t], Node("map", m)) <=> Has(nodes[t], Node("map", m))
         /\ \A t \in Object : nodes[t] = <<>> => nodes'[t] = <<>>
<1>1. PICK gone : gone = [o \in Object |-> Watching(rs, o)]
  OBVIOUS
<1>2. ListsOK(nodes) /\ nodes' = Without(nodes, gone)
  BY <1>1, ListsAre DEF Detached
<1>3. PICK ns : ns = nodes'
  OBVIOUS
<1>4. /\ ListsOK(ns)
      /\ \A u \in Object : \A x : Has(ns[u], x) <=> Has(nodes[u], x) /\ x \notin gone[u]
      /\ \A u \in Object : nodes[u] = <<>> => ns[u] = <<>>
  BY <1>2, <1>3, ListCut
<1>5. ASSUME NEW u \in Object, NEW x
      PROVE  /\ Node("map", x) \notin gone[u] /\ Node("ref", x) \notin gone[u]
             /\ x \in Record => (Node("target", x) \in gone[u] <=> x \in rs /\ rec[x].target = u)
             /\ x \in Record => (Node("token", x) \in gone[u] <=> x \in rs /\ rec[x].token = u)
  <2>1. gone[u] = {Node("target", r) : r \in {r \in rs : rec[r].target = u}}
                  \cup {Node("token", r) : r \in {r \in rs : rec[r].token = u}}
    BY <1>1 DEF Watching
  <2>. QED
    BY <2>1, NodeIs
<1>6. NodesOnce'
  BY <1>3, <1>4 DEF NodesOnce, ListsOK
<1>7. RefNodes'
  BY <1>3, <1>4, <1>5 DEF RefNodes
<1>8. TargetNodes'
  <2>. SUFFICES ASSUME NEW t \in Object, NEW r \in Record
                PROVE  Has(ns[t], Node("target", r)) <=> rec'[r].target = t
    BY <1>3 DEF TargetNodes
  <2>1. Has(nodes[t], Node("target", r)) <=> rec[r].target = t
    BY DEF TargetNodes
  <2>2. Has(ns[t], Node("target", r)) <=> Has(nodes[t], Node("target", r)) /\ ~(r \in rs /\ rec[r].target = t)
    BY <1>4, <1>5
  <2>3. t # None
    BY Kinds
  <2>. QED
    BY <2>1, <2>2, <2>3
<1>9. TokenNodes'
  <2>. SUFFICES ASSUME NEW t \in Object, NEW r \in Record
                PROVE  Has(ns[t], Node("token", r)) <=> rec'[r].token = t
    BY <1>3 DEF TokenNodes
  <2>1. Has(nodes[t], Node("token", r)) <=> rec[r].token = t
    BY DEF TokenNodes
  <2>2. Has(ns[t], Node("token", r)) <=> Has(nodes[t], Node("token", r)) /\ ~(r \in rs /\ rec[r].token = t)
    BY <1>4, <1>5
  <2>3. t # None
    BY Kinds
  <2>. QED
    BY <2>1, <2>2, <2>3
<1>10. \A t \in Object : \A m : Has(nodes'[t], Node("map", m)) <=> Has(nodes[t], Node("map", m))
  BY <1>3, <1>4, <1>5
<1>. QED
  BY <1>3, <1>4, <1>6, <1>7, <1>8, <1>9, <1>10

\* A pending record is taken out of its registry.
LEMMA PendingTaken ==
  ASSUME Types, Filed, NEW f \in Reg, NEW r, Has(pending[f], r),
         NEW out \in Seq(Record), Once(out),
         \A x : Has(out, x) <=> Has(pending[f], x) /\ x # r,
         pending' = [pending EXCEPT ![f] = out], rec' = [rec EXCEPT ![r] = Unused],
         UNCHANGED <<cells, cleaning, queue, stopped>>
  PROVE  /\ Filed' /\ r \in Record /\ rec[r].state = "pending" /\ rec[r].of = f
         /\ pending' \in [Reg -> Seq(Record)] /\ rec' \in [Record -> RecordSet]
         /\ rec'[r] = Unused /\ \A q \in Record : q # r => rec'[q] = rec[q]
<1>1. /\ Placed /\ LiveCells /\ DueCells /\ Once(queue) /\ \A g \in Reg : Once(pending[g])
  BY DEF Filed
<1>2. /\ pending \in [Reg -> Seq(Record)] /\ rec \in [Record -> RecordSet]
      /\ cells \in [Reg -> Seq(Record)]
  BY DEF Types
<1>3. PICK i \in DOMAIN pending[f] : pending[f][i] = r
  BY DEF Has
<1>4. r \in Record /\ rec[r].state = "pending" /\ rec[r].of = f
  BY <1>1, <1>2, <1>3 DEF DueCells
<1>5. /\ pending' \in [Reg -> Seq(Record)] /\ pending'[f] = out
      /\ \A g \in Reg : g # f => pending'[g] = pending[g]
  BY <1>2
<1>6. /\ rec' \in [Record -> RecordSet] /\ rec'[r] = Unused
      /\ \A q \in Record : q # r => rec'[q] = rec[q]
  BY <1>2, <1>4, UnusedIs
<1>7. \A g \in Reg : \A x : Has(pending'[g], x) <=> Has(pending[g], x) /\ ~(g = f /\ x = r)
  BY <1>5
<1>8. Placed'
  <2>. SUFFICES ASSUME NEW q \in Record
                PROVE  /\ rec'[q].state = "free" => rec'[q] = Unused
                       /\ rec'[q].state = "live" => LiveAt(q)'
                       /\ rec'[q].state = "pending" => Due(q)'
    BY DEF Placed, Unused
  <2>1. CASE q = r
    BY <1>6, <2>1, UnusedIs
  <2>2. CASE q # r
    <3>1. rec'[q] = rec[q]
      BY <1>6, <2>2
    <3>2. LiveAt(q) => LiveAt(q)'
      BY <3>1 DEF LiveAt
    <3>3. Due(q) => Due(q)'
      BY <1>7, <2>2, <3>1 DEF Due
    <3>. QED
      BY <1>1, <3>1, <3>2, <3>3 DEF Placed
  <2>. QED
    BY <2>1, <2>2
<1>9. LiveCells'
  <2>. SUFFICES ASSUME NEW g \in Reg, NEW j \in DOMAIN cells[g]
                PROVE  /\ rec'[cells[g][j]].state = "live"
                       /\ rec'[cells[g][j]].of = g /\ rec'[cells[g][j]].idx = j
    BY DEF LiveCells
  <2>1. cells[g][j] \in Record /\ rec[cells[g][j]].state = "live"
    BY <1>1, <1>2 DEF LiveCells
  <2>. QED
    BY <1>1, <1>4, <1>6, <2>1 DEF LiveCells
<1>10. DueCells'
  <2>. SUFFICES ASSUME NEW g \in Reg, NEW j \in DOMAIN pending'[g]
                PROVE  rec'[pending'[g][j]].state = "pending" /\ rec'[pending'[g][j]].of = g
    BY DEF DueCells
  <2>1. PICK x : x = pending'[g][j]
    OBVIOUS
  <2>2. Has(pending'[g], x)
    BY <2>1 DEF Has
  <2>3. Has(pending[g], x) /\ ~(g = f /\ x = r)
    BY <1>7, <2>2
  <2>4. x \in Record /\ rec[x].state = "pending" /\ rec[x].of = g
    BY <1>1, <1>2, <2>3 DEF DueCells, Has
  <2>5. x # r
    BY <1>4, <2>3, <2>4
  <2>. QED
    BY <1>6, <2>1, <2>4, <2>5
<1>11. \A g \in Reg : Once(pending'[g])
  BY <1>1, <1>5
<1>. QED
  BY <1>1, <1>4, <1>5, <1>6, <1>8, <1>9, <1>10, <1>11 DEF Filed

\* TakePending: the oldest record goes, its value given to the callback.
LEMMA TakePendingStep ==
  ASSUME RegistryInv, TakePending
  PROVE  RegistryInv'
<1>0. /\ Types /\ TypeOK /\ Filed /\ Listed /\ Gone /\ Stacked /\ Separate
      /\ Counted /\ Giving
      /\ NodesOnce /\ RefNodes /\ TargetNodes /\ TokenNodes /\ MapNodes
  BY Parts
<1>a. PICK f, r, h : f = cleaning /\ r = Head(pending[f]) /\ h = rec[r].held
  OBVIOUS
<1>1. /\ work = <<>> /\ phase = "drain" /\ pending[f] # <<>>
      /\ given' = h /\ nodes' = Detached(nodes, {r})
      /\ rec' = [rec EXCEPT ![r] = Unused]
      /\ pending' = [pending EXCEPT ![f] = Tail(pending[f])] /\ phase' = "callback" /\ work' = <<>>
      /\ UNCHANGED <<rc, owned, field, target, entry, cells, queue, kept, work, cleaning, stopped>>
  BY <1>a DEF TakePending
<1>2. f \in Reg /\ pending[f] \in Seq(Record) /\ Once(pending[f])
  BY <1>0, <1>1, <1>a, Kinds DEF TypeOK, Types, Filed
<1>3. PICK out : out = Tail(pending[f])
  OBVIOUS
<1>4. /\ out \in Seq(Record) /\ r \in Record /\ Once(out) /\ Has(pending[f], r)
      /\ \A x : Has(out, x) <=> Has(pending[f], x) /\ x # r
  BY <1>1, <1>2, <1>3, <1>a, TailHas
<1>5. /\ Filed'
      /\ pending' \in [Reg -> Seq(Record)] /\ rec' \in [Record -> RecordSet]
      /\ rec'[r] = Unused /\ \A q \in Record : q # r => rec'[q] = rec[q]
  BY <1>0, <1>1, <1>2, <1>3, <1>4, PendingTaken
<1>6. /\ ListsOK(nodes')
      /\ NodesOnce' /\ RefNodes' /\ TargetNodes' /\ TokenNodes'
      /\ \A t \in Object : \A m : Has(nodes'[t], Node("map", m)) <=> Has(nodes[t], Node("map", m))
      /\ \A t \in Object : nodes[t] = <<>> => nodes'[t] = <<>>
  <2>1. PICK rs : rs = {r}
    OBVIOUS
  <2>2. /\ rs \in SUBSET Record /\ nodes' = Detached(nodes, rs) /\ target' = target
        /\ \A q \in rs : rec'[q].target = None /\ rec'[q].token = None
        /\ \A q \in Record \ rs : rec'[q].target = rec[q].target /\ rec'[q].token = rec[q].token
    BY <1>1, <1>4, <1>5, <2>1, UnusedIs
  <2>. QED
    BY <1>0, <2>2, DetachedLists
<1>7. Stacked' /\ Separate' /\ work' \in Seq(CallSet)
  BY <1>1, EmptyStack
<1>8. h \in Object \cup {Primitive}
  BY <1>0, <1>4, <1>a DEF Types, RecordSet, Value
<1>9. Types'
  BY <1>0, <1>1, <1>5, <1>6, <1>7, <1>8 DEF Types, TypeOK, ListsOK
<1>10. MapNodes' /\ Gone'
  <2>1. \A t \in Object, m \in WMap : Has(nodes'[t], Node("map", m)) <=> entry'[m][t] # None
    BY <1>1, <1>6, Idle
  <2>2. \A t \in Object : rc'[t] = 0 => nodes'[t] = <<>>
    BY <1>1, <1>6, Idle
  <2>3. \A w \in Ref : rc'[w] = 0 => target'[w] = None
    BY <1>0, <1>1 DEF Gone
  <2>. QED
    BY <2>1, <2>2, <2>3, QuietLists
<1>11. Counted'
  <2>1. ASSUME NEW c \in Cell PROVE rc'[c] = Roots(c)' + Heap(c)' /\ rc'[c] \in Nat
    <3>1. rc[c] = Roots(c) + Heap(c) /\ rc[c] \in Nat /\ Roots(c) \in Nat /\ Heap(c) \in Nat
      BY <1>1, Idle
    <3>2. /\ Helds(c)' + One(h = c) = Helds(c) + One(rec'[r].held = c)
          /\ Helds(c)' \in Nat
      BY <1>4, <1>5, <1>a, HeldPut
    <3>3. One(rec'[r].held = c) = 0
      BY <1>5, UnusedIs, NoOne
    <3>4. Entries(c)' = Entries(c) /\ Fields(c)' = Fields(c)
      BY <1>1, SameTerms
    <3>5. Fields(c) \in Nat /\ Entries(c) \in Nat /\ Helds(c) \in Nat
      BY <1>0, TermsNat
    <3>6. One(h = c) \in Nat
      BY DEF One
    <3>7. Heap(c)' + One(h = c) = Heap(c) /\ Heap(c)' \in Nat
      BY <3>2, <3>3, <3>4, <3>5, <3>6 DEF Heap
    <3>8. Keeps(c)' = Keeps(c) /\ Own(c)' = Own(c) /\ Cleans(c)' = Cleans(c) /\ Queues(c)' = Queues(c)
      BY <1>1, SameTerms
    <3>9. Own(c) \in Nat /\ Keeps(c) \in Nat /\ Queues(c) \in Nat /\ Cleans(c) \in Nat
      BY <1>0, TermsNat
    <3>10. Gives(c)' = One(h = c) /\ Gives(c) = 0
      <4>1. given = Primitive
        BY <1>0, <1>1 DEF Giving
      <4>. QED
        BY <1>1, <4>1, NoOne DEF Gives
    <3>11. Roots(c)' = Roots(c) + One(h = c)
      BY <3>6, <3>8, <3>9, <3>10 DEF Roots
    <3>. QED
      BY <1>1, <3>1, <3>6, <3>7, <3>11
  <2>. QED
    BY <1>1, <2>1, IdleAgain
<1>12. Giving'
  BY <1>1 DEF Giving
<1>. QED
  BY <1>5, <1>6, <1>7, <1>9, <1>10, <1>11, <1>12 DEF RegistryInv, Listed

-----------------------------------------------------------------------------
(* The program's operations that release.                                  *)

\* The stack s drops the value v, and then makes the call e.
Behind(s, v, e) ==
  /\ s \in Seq(CallSet) /\ Len(s) \in DOMAIN s /\ s[Len(s)] = e
  /\ \A i \in DOMAIN s : (ObjectDrop(s[i]) /\ s[i].cell = v) \/ (i = Len(s) /\ s[i] = e)
  /\ \A c \in Cell : Bears(s, c) = One(c = v /\ c \in Object) + Bears(<<e>>, c)

\* What two stacks bear, one on the other.
LEMMA BearsJoin ==
  ASSUME NEW s \in Seq(CallSet), NEW t \in Seq(CallSet), NEW c
  PROVE  /\ Bears(s \o t, c) = Bears(s, c) + Bears(t, c)
         /\ Bears(s, c) \in Nat /\ Bears(t, c) \in Nat
  BY BearsParts

\* A call behind drops of one value.
LEMMA CallBehind ==
  ASSUME NEW v, NEW e \in CallSet, NEW ds \in Seq(CallSet),
         \A i \in DOMAIN ds : ObjectDrop(ds[i]) /\ ds[i].cell = v,
         \A c \in Cell : Bears(ds, c) = One(c = v /\ c \in Object)
  PROVE  Behind(ds \o <<e>>, v, e)
<1>1. PICK s, u : u = <<e>> /\ s = ds \o u
  OBVIOUS
<1>2. u \in Seq(CallSet) /\ s \in Seq(CallSet) /\ Len(u) = 1 /\ u[1] = e
  BY <1>1
<1>3. /\ DOMAIN ds = 1 .. Len(ds) /\ Len(ds) \in Nat
      /\ DOMAIN s = 1 .. Len(ds) + 1
      /\ \A i \in 1 .. Len(ds) : s[i] = ds[i]
      /\ s[Len(ds) + 1] = e
  BY <1>1, <1>2, ConcatAt
<1>4. Len(s) = Len(ds) + 1
  BY <1>2, <1>3
<1>5. \A i \in DOMAIN s : i \in 1 .. Len(ds) \/ i = Len(s)
  BY <1>3, <1>4
<1>6. \A c \in Cell : Bears(s, c) = One(c = v /\ c \in Object) + Bears(u, c)
  <2>1. \A c : Bears(ds \o u, c) = Bears(ds, c) + Bears(u, c)
    BY <1>2, BearsJoin
  <2>. QED
    BY <1>1, <2>1
<1>7. Len(s) \in DOMAIN s /\ s[Len(s)] = e
  BY <1>3, <1>4
<1>8. \A i \in DOMAIN s : (ObjectDrop(s[i]) /\ s[i].cell = v) \/ (i = Len(s) /\ s[i] = e)
  BY <1>3, <1>4, <1>5, <1>7
<1>. QED
  BY <1>1, <1>2, <1>6, <1>7, <1>8 DEF Behind

\* The same, of the drops of that value.
LEMMA OneBehind ==
  ASSUME NEW v, NEW e \in CallSet
  PROVE  Behind(Drops(<<v>>) \o <<e>>, v, e)
<1>1. PICK V, one, ds : V = {v} /\ one = <<v>> /\ ds = Drops(one)
  OBVIOUS
<1>2. one \in Seq(V)
  BY <1>1
<1>3. ds \in Seq(CallSet) /\ \A i \in DOMAIN ds : ObjectDrop(ds[i]) /\ ds[i].cell = v
  <2>1. ds \in Seq(CallSet) /\ \A i \in DOMAIN ds : ObjectDrop(ds[i])
    BY <1>1, <1>2, DropsFall
  <2>2. \A i \in DOMAIN ds : ds[i] = Drop(v)
    BY <1>1, DropOfOne
  <2>. QED
    BY <2>1, <2>2, DropIs
<1>4. \A c \in Cell : Bears(ds, c) = One(c = v /\ c \in Object)
  BY <1>1, BearsValue
<1>5. Behind(ds \o <<e>>, v, e)
  BY <1>3, <1>4, CallBehind
<1>. QED
  BY <1>1, <1>5

\* What a call alone bears.
LEMMA BearsOne ==
  ASSUME NEW e \in CallSet, NEW c \in Cell, e.op # "drop"
  PROVE  Bears(<<e>>, c) = One(e.value = c) /\ One(e.value = c) \in Nat
<1>1. Bears(<<e>>, c) = One(e = Drop(c)) + One(e.value = c)
  BY BearsParts
<1>2. One(e = Drop(c)) = 0 /\ One(e.value = c) \in Nat
  BY DropIs DEF One
<1>. QED
  BY <1>1, <1>2

\* Release: a reference of the program's is due; of a map, as its entries allow.
LEMMA ReleaseStep ==
  ASSUME ~Loops, RegistryInv, NEW c \in Cell, Release(c)
  PROVE  RegistryInv'
<1>0. /\ Types /\ TypeOK /\ Filed /\ Listed /\ Gone /\ Stacked /\ Separate
      /\ Counted /\ Giving
      /\ NodesOnce /\ RefNodes /\ TargetNodes /\ TokenNodes /\ MapNodes
  BY Parts
<1>a. PICK u : u = <<Drop(c)>>
  OBVIOUS
<1>1. /\ work = <<>> /\ c \in owned /\ owned' = owned \ {c} /\ work' = u
      /\ c \in WMap => \E s \in SUBSET Object : Apart(c, s)
      /\ UNCHANGED <<rc, field, nodes, target, entry, rec, cells, pending, queue, kept, phase,
                     cleaning, given, stopped>>
  BY <1>a DEF Release, Running, weak, fin, host
<1>2. /\ u \in Seq(CallSet) /\ Len(u) = 1 /\ DOMAIN u = {1} /\ u[1] = Drop(c)
      /\ Drop(c).op = "drop" /\ Drop(c).cell = c /\ Drop(c) \in CallSet
  BY <1>a, DropIs
<1>3. Stacked'
  <2>1. \A i \in DOMAIN u : Settled(u, i)
    BY <1>2, Kinds DEF Settled, ObjectDrop
  <2>. QED
    BY <1>1, <1>2, <2>1, BaseStacked
<1>4. Separate'
  <2>. SUFFICES ASSUME c \in WMap PROVE \E s \in SUBSET Object : Apart(c, s)' /\ Under(c, s)'
    BY <1>1, <1>2 DEF Separate
  <2>1. PICK s \in SUBSET Object : Apart(c, s)
    BY <1>1
  <2>2. Apart(c, s)'
    BY <1>1, <2>1 DEF Apart, Follows
  <2>3. Under(c, s)'
    BY <1>1, <1>2 DEF Under
  <2>. QED
    BY <2>2, <2>3
<1>5. \A m, k : ~Spent(m, k)'
  BY <1>1, <1>2 DEF Spent
<1>6. Types'
  BY <1>0, <1>1, <1>2 DEF Types, TypeOK
<1>7. MapNodes' /\ Gone'
  BY <1>1, QuietSame
<1>8. Counted'
  <2>. SUFFICES ASSUME NEW b \in Cell PROVE rc'[b] = Owing(b)'
    BY DEF Counted
  <2>1. rc[b] = Roots(b) + Heap(b) /\ Roots(b) \in Nat /\ Heap(b) \in Nat
    BY <1>1, Idle
  <2>2. Heap(b)' = Heap(b)
    BY <1>1, <1>5, UnspentHeap
  <2>3. Keeps(b)' = Keeps(b) /\ Queues(b)' = Queues(b) /\ Cleans(b)' = Cleans(b) /\ Gives(b)' = Gives(b)
    BY <1>1, SameTerms
  <2>4. Own(b) \in Nat /\ Keeps(b) \in Nat /\ Queues(b) \in Nat /\ Cleans(b) \in Nat /\ Gives(b) \in Nat
    BY <1>0, TermsNat
  <2>5. Own(b)' + One(c = b) = Own(b) /\ One(c = b) \in Nat /\ Own(b)' \in Nat
    BY <1>1 DEF Own, One
  <2>6. Stack(b)' = One(c = b)
    BY <1>1, <1>a, StackBears, BearsDrop
  <2>7. Roots(b)' + One(c = b) = Roots(b) /\ Roots(b)' \in Nat
    BY <2>3, <2>4, <2>5 DEF Roots
  <2>. QED
    BY <1>1, <2>1, <2>2, <2>5, <2>6, <2>7 DEF Owing
<1>. QED
  BY <1>0, <1>1, <1>3, <1>4, <1>6, <1>7, <1>8, FiledSame, ListedSame, GivingSame DEF RegistryInv, Listed

\* A new reference.
LEMMA IncIs ==
  ASSUME Types, NEW v \in Value
  PROVE  /\ Inc(rc, v) \in [Cell -> Nat]
         /\ \A c \in Cell : Inc(rc, v)[c] = rc[c] + One(v = c) /\ One(v = c) \in Nat /\ rc[c] \in Nat
<1>1. rc \in [Cell -> Nat] /\ (v \in Cell \/ v \notin Cell)
  BY DEF Types, TypeOK
<1>2. CASE v \in Cell
  <2>1. Inc(rc, v) = [rc EXCEPT ![v] = @ + 1]
    BY <1>2 DEF Inc
  <2>. QED
    BY <1>1, <1>2, <2>1 DEF One
<1>3. CASE v \notin Cell
  <2>1. Inc(rc, v) = rc /\ \A c \in Cell : v # c
    BY <1>3 DEF Inc
  <2>. QED
    BY <1>1, <2>1 DEF One
<1>. QED
  BY <1>2, <1>3

\* An entry is made.
LEMMA EntryMadeStep ==
  ASSUME RegistryInv, NEW m \in WMap, NEW k \in Object, NEW v \in Value,
         MapSet(m, k, v), entry[m][k] = None
  PROVE  RegistryInv'
<1>0. /\ Types /\ TypeOK /\ Filed /\ Listed /\ Gone /\ Stacked /\ Separate
      /\ Counted /\ Giving
      /\ NodesOnce /\ RefNodes /\ TargetNodes /\ TokenNodes /\ MapNodes
  BY Parts
<1>1. /\ work = <<>> /\ {m, k} \subseteq owned /\ rc' = Inc(rc, v)
      /\ nodes' = Registered(nodes, k, Node("map", m)) /\ entry' = [entry EXCEPT ![m][k] = v]
      /\ work' = <<>>
      /\ UNCHANGED <<owned, field, target, rec, cells, pending, queue, kept, phase,
                     cleaning, given, stopped, work>>
  BY DEF MapSet, Running, fin, host
<1>2. /\ rc' \in [Cell -> Nat]
      /\ \A c \in Cell : rc'[c] = rc[c] + One(v = c) /\ One(v = c) \in Nat /\ rc[c] \in Nat
  BY <1>0, <1>1, IncIs
<1>3. /\ entry' \in [WMap -> [Object -> Object \cup {Primitive, None}]] /\ entry'[m][k] = v
      /\ \A n \in WMap, o \in Object : <<n, o>> # <<m, k>> => entry'[n][o] = entry[n][o]
  BY <1>0, <1>1 DEF TypeOK, Value
<1>4. v # None
  BY Kinds DEF Value
<1>5. PICK ns : ns = nodes'
  OBVIOUS
<1>6. /\ ListsOK(ns)
      /\ \A u \in Object : u # k => ns[u] = nodes[u]
      /\ \A u \in Object : \A x : Has(ns[u], x) <=> Has(nodes[u], x) \/ (u = k /\ x = Node("map", m))
  <2>1. ~Has(nodes[k], Node("map", m))
    BY <1>1, Idle
  <2>2. ListsOK(nodes) /\ Node("map", m) \in NodeSet
    BY <1>0, ListsAre, NodeIn
  <2>. QED
    BY <1>1, <1>5, <2>1, <2>2, ListPut
<1>7. Stacked' /\ Separate' /\ work' \in Seq(CallSet)
  BY <1>1, EmptyStack
<1>8. Types' /\ NodesOnce'
  BY <1>0, <1>1, <1>2, <1>3, <1>5, <1>6, <1>7 DEF Types, TypeOK, ListsOK, NodesOnce
<1>9. RefNodes' /\ TargetNodes' /\ TokenNodes'
  <2>1. \A l, x : l # "map" => Node(l, x) # Node("map", m)
    BY NodeIs
  <2>2. \A u \in Object : \A x : x # Node("map", m) => (Has(nodes'[u], x) <=> Has(nodes[u], x))
    BY <1>5, <1>6
  <2>3. RefNodes'
    BY <1>0, <1>1, <2>1, <2>2 DEF RefNodes
  <2>4. TargetNodes'
    BY <1>0, <1>1, <2>1, <2>2 DEF TargetNodes
  <2>5. TokenNodes'
    BY <1>0, <1>1, <2>1, <2>2 DEF TokenNodes
  <2>. QED
    BY <2>3, <2>4, <2>5
<1>10. MapNodes' /\ Gone'
  <2>1. ASSUME NEW t \in Object, NEW n \in WMap PROVE Has(nodes'[t], Node("map", n)) <=> entry'[n][t] # None
    <3>1. Has(nodes[t], Node("map", n)) <=> entry[n][t] # None
      BY <1>1, Idle
    <3>2. Node("map", n) = Node("map", m) <=> n = m
      BY NodeIs
    <3>. QED
      BY <1>3, <1>4, <1>5, <1>6, <3>1, <3>2
  <2>2. ASSUME NEW t \in Object, rc'[t] = 0 PROVE nodes'[t] = <<>>
    <3>1. rc[t] = 0
      BY <1>2, <2>2, Kinds
    <3>2. t # k
      BY <1>1, <3>1, Idle
    <3>. QED
      BY <1>1, <1>5, <1>6, <3>1, <3>2, Idle
  <2>3. ASSUME NEW w \in Ref, rc'[w] = 0 PROVE target'[w] = None
    <3>1. rc[w] = 0
      BY <1>2, <2>3, Kinds
    <3>. QED
      BY <1>0, <1>1, <3>1 DEF Gone
  <2>. QED
    BY <2>1, <2>2, <2>3, QuietLists
<1>11. Counted'
  <2>1. ASSUME NEW c \in Cell PROVE rc'[c] = Roots(c)' + Heap(c)' /\ rc'[c] \in Nat
    <3>1. rc[c] = Roots(c) + Heap(c) /\ rc[c] \in Nat /\ Roots(c) \in Nat /\ Heap(c) \in Nat
      BY <1>1, Idle
    <3>2. Roots(c)' = Roots(c)
      BY <1>1, SameTerms
    <3>3. ~Spent(m, k) /\ ~Spent(m, k)' /\ \A n, o : Spent(n, o)' <=> Spent(n, o)
      BY <1>1, Idle, EmptyStack
    <3>4. /\ Entries(c)' + One(entry[m][k] = c /\ ~Spent(m, k))
               = Entries(c) + One(entry'[m][k] = c /\ ~Spent(m, k)')
          /\ Entries(c)' \in Nat
      BY <1>3, <3>3, EntryPut
    <3>5. One(entry[m][k] = c /\ ~Spent(m, k)) = 0
      BY Kinds DEF One
    <3>6. One(entry'[m][k] = c /\ ~Spent(m, k)') = One(v = c)
      BY <1>3, <3>3 DEF One
    <3>7. Fields(c)' = Fields(c) /\ Helds(c)' = Helds(c)
      BY <1>1, SameTerms
    <3>8. Fields(c) \in Nat /\ Entries(c) \in Nat /\ Helds(c) \in Nat
      BY <1>0, TermsNat
    <3>9. Heap(c)' = Heap(c) + One(v = c)
      BY <1>2, <3>4, <3>5, <3>6, <3>7, <3>8 DEF Heap
    <3>. QED
      BY <1>2, <3>1, <3>2, <3>9
  <2>. QED
    BY <1>1, <2>1, IdleAgain
<1>. QED
  BY <1>0, <1>1, <1>7, <1>8, <1>9, <1>10, <1>11, FiledSame, GivingSame DEF RegistryInv, Listed

\* A value is to be overwritten.
LEMMA OverwriteStep ==
  ASSUME RegistryInv, NEW m \in WMap, NEW k \in Object, NEW v \in Value,
         MapSet(m, k, v), entry[m][k] # None
  PROVE  RegistryInv'
<1>0. /\ Types /\ TypeOK /\ Filed /\ Listed /\ Gone /\ Stacked /\ Separate
      /\ Counted /\ Giving
      /\ NodesOnce /\ RefNodes /\ TargetNodes /\ TokenNodes /\ MapNodes
  BY Parts
<1>a. PICK x, e : x = entry[m][k] /\ e = Call("store", m, k, v)
  OBVIOUS
<1>b. PICK s : s = Drops(<<x>>) \o <<e>>
  OBVIOUS
<1>1. /\ work = <<>> /\ {m, k} \subseteq owned /\ rc' = Inc(rc, v) /\ work' = s
      /\ UNCHANGED <<owned, field, nodes, target, entry, rec, cells, pending, queue, kept, phase,
                     cleaning, given, stopped>>
  BY <1>a, <1>b DEF MapSet, Running, fin, host
<1>2. /\ rc' \in [Cell -> Nat]
      /\ \A c \in Cell : rc'[c] = rc[c] + One(v = c) /\ One(v = c) \in Nat /\ rc[c] \in Nat
  BY <1>0, <1>1, IncIs
<1>3. /\ e \in CallSet /\ e.op = "store" /\ e.cell = m /\ e.key = k /\ e.value = v
      /\ v # None /\ m \in Cell
  BY <1>a, Kinds DEF Call, CallSet, Ops, Word, Value
<1>c. Behind(s, x, e)
  BY <1>3, <1>b, OneBehind
<1>4. /\ s \in Seq(CallSet) /\ Len(s) \in DOMAIN s /\ s[Len(s)] = e
      /\ \A i \in DOMAIN s : ObjectDrop(s[i]) \/ (i = Len(s) /\ s[i] = e)
  BY <1>c DEF Behind
<1>5. Stacked'
  <2>1. \A i \in DOMAIN s : Settled(s, i)
    BY <1>1, <1>3, <1>4 DEF Settled
  <2>. QED
    BY <1>1, <1>4, <2>1, BaseStacked
<1>6. Separate'
  <2>1. \A i \in DOMAIN s : s[i].op \in {"drop", "entries"} => s[i].cell \notin WMap
    BY <1>3, <1>4, Kinds DEF ObjectDrop
  <2>. QED
    BY <1>1, <2>1, NoMapStack
<1>7. \A n, o : Spent(n, o)' <=> n = m /\ o = k
  <2>1. \A i \in DOMAIN s : s[i].op \in {"entryDropped", "store"} => s[i] = e
    BY <1>4, DropIs DEF ObjectDrop
  <2>2. \A n, o : Spent(n, o)' <=> \E i \in DOMAIN s :
           s[i].op \in {"entryDropped", "store"} /\ s[i].cell = n /\ s[i].key = o
    BY <1>1 DEF Spent
  <2>. QED
    BY <1>3, <1>4, <2>1, <2>2
<1>8. Types'
  BY <1>0, <1>1, <1>2, <1>4 DEF Types, TypeOK
<1>9. MapNodes' /\ Gone'
  <2>1. \A t \in Object, n \in WMap : Has(nodes'[t], Node("map", n)) <=> entry'[n][t] # None
    BY <1>1, Idle
  <2>0. \A c \in Cell : rc'[c] = 0 => rc[c] = 0
    BY <1>2
  <2>2. \A t \in Object : rc'[t] = 0 => nodes'[t] = <<>>
    BY <1>1, <2>0, Idle, Kinds
  <2>3. \A w \in Ref : rc'[w] = 0 => target'[w] = None
    BY <1>0, <1>1, <2>0, Kinds DEF Gone
  <2>. QED
    BY <2>1, <2>2, <2>3, QuietLists
<1>10. Counted'
  <2>. SUFFICES ASSUME NEW c \in Cell PROVE rc'[c] = Owing(c)'
    BY DEF Counted
  <2>1. rc[c] = Roots(c) + Heap(c) /\ Roots(c) \in Nat /\ Heap(c) \in Nat
    BY <1>1, Idle
  <2>2. Roots(c)' = Roots(c)
    BY <1>1, SameTerms
  <2>3. \A n, o : ~Spent(n, o)
    BY <1>1, Idle
  <2>4. /\ Entries(c)' + One(entry[m][k] = c /\ ~Spent(m, k))
             = Entries(c) + One(entry'[m][k] = c /\ ~Spent(m, k)')
        /\ Entries(c)' \in Nat
    <3>1. \A n \in WMap, o \in Object : <<n, o>> # <<m, k>> =>
             entry'[n][o] = entry[n][o] /\ (Spent(n, o)' <=> Spent(n, o))
      BY <1>1, <1>7, <2>3
    <3>. QED
      BY <3>1, EntryPut
  <2>5. One(entry[m][k] = c /\ ~Spent(m, k)) = One(x = c)
    BY <1>a, <2>3 DEF One
  <2>6. One(entry'[m][k] = c /\ ~Spent(m, k)') = 0
    BY <1>7 DEF One
  <2>7. Fields(c)' = Fields(c) /\ Helds(c)' = Helds(c)
    BY <1>1, SameTerms
  <2>8. Fields(c) \in Nat /\ Entries(c) \in Nat /\ Helds(c) \in Nat /\ One(x = c) \in Nat
    BY <1>0, TermsNat DEF One
  <2>9. Heap(c)' + One(x = c) = Heap(c) /\ Heap(c)' \in Nat
    BY <2>4, <2>5, <2>6, <2>7, <2>8 DEF Heap
  <2>10. Stack(c)' = One(x = c) + One(v = c)
    <3>1. Stack(c)' = One(c = x /\ c \in Object) + Bears(<<e>>, c)
      BY <1>1, <1>c, StackBears DEF Behind
    <3>2. Bears(<<e>>, c) = One(v = c)
      BY <1>3, BearsOne
    <3>3. x \in Object \cup {Primitive, None} /\ c # Primitive /\ c # None
      BY <1>0, <1>a, Kinds DEF TypeOK
    <3>4. One(c = x /\ c \in Object) = One(x = c)
      BY <3>3 DEF One
    <3>. QED
      BY <1>2, <1>3, <2>8, <3>1, <3>2, <3>4
  <2>. QED
    BY <1>2, <2>1, <2>2, <2>8, <2>9, <2>10 DEF Owing
<1>. QED
  BY <1>0, <1>1, <1>5, <1>6, <1>8, <1>9, <1>10, FiledSame, ListedSame, GivingSame DEF RegistryInv, Listed

\* MapDelete: the entry goes, its value due, its node to be deregistered.
LEMMA MapDeleteStep ==
  ASSUME RegistryInv, NEW m \in WMap, NEW k \in Object, MapDelete(m, k)
  PROVE  RegistryInv'
<1>0. /\ Types /\ TypeOK /\ Filed /\ Listed /\ Gone /\ Stacked /\ Separate
      /\ Counted /\ Giving
      /\ NodesOnce /\ RefNodes /\ TargetNodes /\ TokenNodes /\ MapNodes
  BY Parts
<1>a. PICK x, e : x = entry[m][k] /\ e = Call("deregister", m, k, None)
  OBVIOUS
<1>b. PICK s : s = Drops(<<x>>) \o <<e>>
  OBVIOUS
<1>1. /\ work = <<>> /\ {m, k} \subseteq owned /\ work' = s /\ entry' = [entry EXCEPT ![m][k] = None]
      /\ UNCHANGED <<rc, owned, field, nodes, target, rec, cells, pending, queue, kept, phase,
                     cleaning, given, stopped>>
  BY <1>a, <1>b DEF MapDelete, Running, fin, host
<1>2. /\ entry' \in [WMap -> [Object -> Object \cup {Primitive, None}]] /\ entry'[m][k] = None
      /\ \A n \in WMap, o \in Object : <<n, o>> # <<m, k>> => entry'[n][o] = entry[n][o]
  BY <1>0, <1>1 DEF TypeOK
<1>3. /\ e \in CallSet /\ e.op = "deregister" /\ e.cell = m /\ e.key = k /\ e.value = None
      /\ m \in Cell
  BY <1>a, Kinds DEF Call, CallSet, Ops, Word, Value
<1>c. Behind(s, x, e)
  BY <1>3, <1>b, OneBehind
<1>4. /\ s \in Seq(CallSet) /\ Len(s) \in DOMAIN s /\ s[Len(s)] = e
      /\ \A i \in DOMAIN s : ObjectDrop(s[i]) \/ (i = Len(s) /\ s[i] = e)
  BY <1>c DEF Behind
<1>5. Stacked'
  <2>1. \A i \in DOMAIN s : Settled(s, i)
    BY <1>1, <1>2, <1>3, <1>4 DEF Settled
  <2>. QED
    BY <1>1, <1>4, <2>1, BaseStacked
<1>6. Separate'
  <2>1. \A i \in DOMAIN s : s[i].op \in {"drop", "entries"} => s[i].cell \notin WMap
    BY <1>3, <1>4, Kinds DEF ObjectDrop
  <2>. QED
    BY <1>1, <2>1, NoMapStack
<1>7. \A n, o : ~Spent(n, o)'
  <2>1. \A i \in DOMAIN s : s[i].op \notin {"entryDropped", "store"}
    BY <1>3, <1>4, DropIs DEF ObjectDrop
  <2>. QED
    BY <1>1, <2>1 DEF Spent
<1>8. Types'
  BY <1>0, <1>1, <1>2, <1>4 DEF Types, TypeOK
<1>9. MapNodes'
  <2>. SUFFICES ASSUME NEW t \in Object, NEW n \in WMap
                PROVE  /\ entry'[n][t] # None => Has(nodes'[t], Node("map", n))
                       /\ Has(nodes'[t], Node("map", n)) =>
                             entry'[n][t] # None \/ Leaves(n, t)'
    BY DEF MapNodes
  <2>1. Has(nodes[t], Node("map", n)) <=> entry[n][t] # None
    BY <1>1, Idle
  <2>2. Leaves(m, k)'
    BY <1>1, <1>3, <1>4 DEF Leaves, CallsOn
  <2>. QED
    BY <1>1, <1>2, <2>1, <2>2
<1>11. Gone'
  <2>1. \A t \in Object : rc'[t] = 0 => nodes'[t] = <<>>
    BY <1>1, Idle
  <2>2. \A w \in Ref : rc'[w] = 0 => target'[w] = None
    BY <1>0, <1>1 DEF Gone
  <2>. QED
    BY <2>1, <2>2, QuietLists
<1>10. Counted'
  <2>. SUFFICES ASSUME NEW c \in Cell PROVE rc'[c] = Owing(c)'
    BY DEF Counted
  <2>1. rc[c] = Roots(c) + Heap(c) /\ Roots(c) \in Nat /\ Heap(c) \in Nat
    BY <1>1, Idle
  <2>2. Roots(c)' = Roots(c)
    BY <1>1, SameTerms
  <2>3. \A n, o : ~Spent(n, o)
    BY <1>1, Idle
  <2>4. /\ Entries(c)' + One(entry[m][k] = c /\ ~Spent(m, k))
             = Entries(c) + One(entry'[m][k] = c /\ ~Spent(m, k)')
        /\ Entries(c)' \in Nat
    BY <1>2, <1>7, <2>3, EntryPut
  <2>5. One(entry[m][k] = c /\ ~Spent(m, k)) = One(x = c)
    BY <1>a, <2>3 DEF One
  <2>6. One(entry'[m][k] = c /\ ~Spent(m, k)') = 0
    BY <1>2, Kinds DEF One
  <2>7. Fields(c)' = Fields(c) /\ Helds(c)' = Helds(c)
    BY <1>1, SameTerms
  <2>8. Fields(c) \in Nat /\ Entries(c) \in Nat /\ Helds(c) \in Nat /\ One(x = c) \in Nat
    BY <1>0, TermsNat DEF One
  <2>9. Heap(c)' + One(x = c) = Heap(c) /\ Heap(c)' \in Nat
    BY <2>4, <2>5, <2>6, <2>7, <2>8 DEF Heap
  <2>10. Stack(c)' = One(x = c)
    <3>1. Stack(c)' = One(c = x /\ c \in Object) + Bears(<<e>>, c)
      BY <1>1, <1>c, StackBears DEF Behind
    <3>2. Bears(<<e>>, c) = 0
      BY <1>3, BearsOne, NoOne
    <3>3. x \in Object \cup {Primitive, None} /\ c # Primitive /\ c # None
      BY <1>0, <1>a, Kinds DEF TypeOK
    <3>4. One(c = x /\ c \in Object) = One(x = c)
      BY <3>3 DEF One
    <3>. QED
      BY <2>8, <3>1, <3>2, <3>4
  <2>. QED
    BY <1>1, <2>1, <2>2, <2>8, <2>9, <2>10 DEF Owing
<1>. QED
  BY <1>0, <1>1, <1>5, <1>6, <1>8, <1>9, <1>10, <1>11, FiledSame, ListedSame, GivingSame
     DEF RegistryInv, Listed

-----------------------------------------------------------------------------
(* Registrations come, and a sweep is asked for.                           *)

\* A sweep, and the drops of what it took.
Sweeping(e, i) ==
  \/ i # 1 /\ ObjectDrop(e)
  \/ i = 1 /\ e.op = "sweep" /\ e.cell \in Reg /\ e.key \in Object /\ e.value = None

\* A sweep and drops are such as may be on the stack.
LEMMA SweepStack ==
  ASSUME NEW s \in Seq(CallSet), s = work', \A i \in DOMAIN s : Sweeping(s[i], i)
  PROVE  /\ Stacked' /\ Separate'
         /\ \A m, k : ~Spent(m, k)'
<1>1. \A i \in DOMAIN s :
         /\ s[i].op \in {"drop", "sweep"} /\ s[i].value = None
         /\ s[i].op = "drop" => s[i] = Drop(s[i].cell) /\ s[i].cell \in Object
         /\ s[i].op = "sweep" => i = 1 /\ s[i].cell \in Reg /\ s[i].key \in Object
         /\ i # 1 => s[i].op = "drop"
  BY DropIs DEF Sweeping, ObjectDrop
<1>2. Plain' /\ DropsOK' /\ SweepsOK'
  BY <1>1 DEF Plain, DropsOK, SweepsOK
<1>3. WalksOK' /\ NextsOK' /\ EntriesOK' /\ DroppingOK' /\ StoresOK' /\ LeavingOK' /\ OneWalk'
  BY <1>1 DEF WalksOK, NextsOK, EntriesOK, DroppingOK, StoresOK, LeavingOK, OneWalk
<1>4. Stacked'
  BY <1>2, <1>3 DEF Stacked
<1>5. Separate'
  BY <1>1, NoMapStack, Kinds
<1>6. \A m, k : ~Spent(m, k)'
  BY <1>1 DEF Spent
<1>. QED
  BY <1>4, <1>5, <1>6

\* Unregister: a sweep is asked for.
LEMMA UnregisterStep ==
  ASSUME RegistryInv, NEW f \in Reg, NEW k \in Object, Unregister(f, k)
  PROVE  RegistryInv'
<1>0. /\ Types /\ TypeOK /\ Filed /\ Listed /\ Gone /\ Stacked /\ Separate
      /\ Counted /\ Giving
      /\ NodesOnce /\ RefNodes /\ TargetNodes /\ TokenNodes /\ MapNodes
  BY Parts
<1>a. PICK u, e : u = <<e>> /\ e = Call("sweep", f, k, None)
  OBVIOUS
<1>1. /\ work = <<>> /\ work' = u
      /\ UNCHANGED <<rc, owned, field, nodes, target, entry, rec, cells, pending, queue, kept, phase,
                     cleaning, given, stopped>>
  BY <1>a DEF Unregister, Running, weak, fin, host
<1>2. /\ e \in CallSet /\ e.op = "sweep" /\ e.cell = f /\ e.key = k /\ e.value = None
      /\ e.op # "drop"
  BY <1>a, Kinds DEF Call, CallSet, Ops, Word, Value
<1>3. u \in Seq(CallSet) /\ \A i \in DOMAIN u : Sweeping(u[i], i)
  BY <1>a, <1>2 DEF Sweeping
<1>4. Stacked' /\ Separate' /\ \A m, o : ~Spent(m, o)'
  BY <1>1, <1>3, SweepStack
<1>5. Types'
  BY <1>0, <1>1, <1>3 DEF Types, TypeOK
<1>6. MapNodes' /\ Gone'
  BY <1>1, QuietSame
<1>7. Counted'
  <2>. SUFFICES ASSUME NEW c \in Cell PROVE rc'[c] = Owing(c)'
    BY DEF Counted
  <2>1. rc[c] = Roots(c) + Heap(c) /\ Roots(c) \in Nat /\ Heap(c) \in Nat
    BY <1>1, Idle
  <2>2. Heap(c)' = Heap(c)
    BY <1>1, <1>4, UnspentHeap
  <2>3. Roots(c)' = Roots(c)
    BY <1>1, SameTerms
  <2>4. Stack(c)' = 0
    <3>1. Bears(<<e>>, c) = 0
      BY <1>2, BearsOne, NoOne
    <3>. QED
      BY <1>1, <1>a, <3>1, StackBears
  <2>. QED
    BY <1>1, <2>1, <2>2, <2>3, <2>4 DEF Owing
<1>. QED
  BY <1>0, <1>1, <1>4, <1>5, <1>6, <1>7, FiledSame, ListedSame, GivingSame DEF RegistryInv, Listed

\* A free record becomes a live one, at the end of the vector of f.
LEMMA RecordFiled ==
  ASSUME Types, Filed, NEW f \in Reg, NEW r \in Record, NEW x \in RecordSet, rec[r] = Unused,
         x.state = "live", x.of = f, x.target \in Object, x.idx = Len(cells[f]) + 1,
         rec' = [rec EXCEPT ![r] = x], cells' = [cells EXCEPT ![f] = Append(cells[f], r)],
         UNCHANGED <<pending, cleaning, queue, stopped>>
  PROVE  /\ Filed' /\ cells' \in [Reg -> Seq(Record)] /\ rec' \in [Record -> RecordSet]
         /\ rec'[r] = x /\ \A q \in Record : q # r => rec'[q] = rec[q]
<1>1. /\ Placed /\ LiveCells /\ DueCells /\ Once(queue) /\ \A g \in Reg : Once(pending[g])
  BY DEF Filed
<1>2. /\ pending \in [Reg -> Seq(Record)] /\ rec \in [Record -> RecordSet]
      /\ cells \in [Reg -> Seq(Record)]
  BY DEF Types
<1>3. PICK cs, out, n : cs = cells[f] /\ out = Append(cells[f], r) /\ n = Len(cells[f])
  OBVIOUS
<1>4. /\ out \in Seq(Record) /\ DOMAIN cs = 1 .. n /\ n \in Nat /\ DOMAIN out = 1 .. n + 1
      /\ \A i \in 1 .. n : out[i] = cs[i]
      /\ out[n + 1] = r
  BY <1>2, <1>3, AppendAt
<1>5. /\ cells' \in [Reg -> Seq(Record)] /\ cells'[f] = out
      /\ \A g \in Reg : g # f => cells'[g] = cells[g]
  BY <1>2, <1>3, <1>4
<1>6. /\ rec' \in [Record -> RecordSet] /\ rec'[r] = x
      /\ \A q \in Record : q # r => rec'[q] = rec[q]
  BY <1>2
<1>7. LiveAt(r)'
  BY <1>3, <1>4, <1>5, <1>6 DEF LiveAt
<1>8. ASSUME NEW q \in Record, q # r, LiveAt(q) PROVE LiveAt(q)'
  <2>1. /\ rec[q].of \in Reg /\ rec[q].target \in Object
        /\ rec[q].idx \in DOMAIN cells[rec[q].of] /\ cells[rec[q].of][rec[q].idx] = q
    BY <1>8 DEF LiveAt
  <2>2. rec[q].of = f => rec[q].idx \in DOMAIN out /\ out[rec[q].idx] = q
    BY <1>3, <1>4, <2>1
  <2>. QED
    BY <1>5, <1>6, <1>8, <2>1, <2>2 DEF LiveAt
<1>9. ASSUME NEW q \in Record, q # r, Due(q) PROVE Due(q)'
  BY <1>6, <1>9 DEF Due
<1>10. Placed'
  <2>. SUFFICES ASSUME NEW q \in Record
                PROVE  /\ rec'[q].state = "free" => rec'[q] = Unused
                       /\ rec'[q].state = "live" => LiveAt(q)'
                       /\ rec'[q].state = "pending" => Due(q)'
    BY DEF Placed, Unused
  <2>1. CASE q = r
    BY <1>6, <1>7, <2>1
  <2>2. CASE q # r
    BY <1>1, <1>6, <1>8, <1>9, <2>2 DEF Placed
  <2>. QED
    BY <2>1, <2>2
<1>11. LiveCells'
  <2>. SUFFICES ASSUME NEW g \in Reg, NEW j \in DOMAIN cells'[g]
                PROVE  /\ rec'[cells'[g][j]].state = "live"
                       /\ rec'[cells'[g][j]].of = g /\ rec'[cells'[g][j]].idx = j
    BY DEF LiveCells
  <2>1. ASSUME j \in DOMAIN cells[g], cells'[g][j] = cells[g][j]
        PROVE  /\ rec'[cells'[g][j]].state = "live"
               /\ rec'[cells'[g][j]].of = g /\ rec'[cells'[g][j]].idx = j
    <3>1. /\ cells[g][j] \in Record /\ rec[cells[g][j]].state = "live"
          /\ rec[cells[g][j]].of = g /\ rec[cells[g][j]].idx = j
      BY <1>1, <1>2, <2>1 DEF LiveCells
    <3>2. cells[g][j] # r
      BY <3>1, UnusedIs
    <3>. QED
      BY <1>6, <2>1, <3>1, <3>2
  <2>2. CASE g # f
    BY <1>5, <2>1, <2>2
  <2>3. CASE g = f /\ j # n + 1
    <3>1. j \in 1 .. n
      BY <1>4, <1>5, <2>3
    <3>. QED
      BY <1>3, <1>4, <1>5, <2>1, <2>3, <3>1
  <2>4. CASE g = f /\ j = n + 1
    BY <1>3, <1>4, <1>5, <1>6, <2>4
  <2>. QED
    BY <2>2, <2>3, <2>4
<1>12. DueCells'
  <2>. SUFFICES ASSUME NEW g \in Reg, NEW j \in DOMAIN pending[g]
                PROVE  rec'[pending[g][j]].state = "pending" /\ rec'[pending[g][j]].of = g
    BY DEF DueCells
  <2>1. /\ pending[g][j] \in Record /\ rec[pending[g][j]].state = "pending"
        /\ rec[pending[g][j]].of = g
    BY <1>1, <1>2 DEF DueCells
  <2>. QED
    BY <1>6, <2>1, UnusedIs
<1>. QED
  BY <1>1, <1>5, <1>6, <1>10, <1>11, <1>12 DEF Filed

\* Register: a record is filed, observed by its target and by its token.
LEMMA RegisterStep ==
  ASSUME RegistryInv, NEW f \in Reg, NEW t \in Object, NEW h \in Value,
         NEW k \in Word, Register(f, t, h, k)
  PROVE  RegistryInv'
<1>0. /\ Types /\ TypeOK /\ Filed /\ Listed /\ Gone /\ Stacked /\ Separate
      /\ Counted /\ Giving
      /\ NodesOnce /\ RefNodes /\ TargetNodes /\ TokenNodes /\ MapNodes
  BY Parts
<1>1. PICK r \in Record :
        /\ rec[r] = Unused
        /\ rec' = [rec EXCEPT ![r] = [state |-> "live", of |-> f, target |-> t, held |-> h,
                                       token |-> k, idx |-> Len(cells[f]) + 1]]
        /\ cells' = [cells EXCEPT ![f] = Append(cells[f], r)]
        /\ nodes' = IF k = None THEN Registered(nodes, t, Node("target", r))
                    ELSE Registered(Registered(nodes, t, Node("target", r)), k, Node("token", r))
  BY DEF Register
<1>2. /\ work = <<>> /\ {f, t} \subseteq owned /\ k \in owned \cup {None} /\ rc' = Inc(rc, h)
      /\ work' = <<>>
      /\ UNCHANGED <<owned, field, target, entry, pending, queue, kept, work, phase,
                     cleaning, given, stopped>>
  BY DEF Register, Running, host
<1>a. PICK x : x = [state |-> "live", of |-> f, target |-> t, held |-> h,
                    token |-> k, idx |-> Len(cells[f]) + 1]
  OBVIOUS
<1>3. /\ x \in RecordSet /\ x.state = "live" /\ x.of = f /\ x.target = t /\ x.held = h
      /\ x.token = k /\ x.idx = Len(cells[f]) + 1
  <2>1. Len(cells[f]) + 1 \in Nat
    BY <1>0 DEF Types
  <2>. QED
    BY <1>a, <2>1 DEF RecordSet, Word
<1>4. /\ Filed' /\ cells' \in [Reg -> Seq(Record)] /\ rec' \in [Record -> RecordSet]
      /\ rec'[r] = x /\ \A q \in Record : q # r => rec'[q] = rec[q]
  BY <1>0, <1>1, <1>2, <1>3, <1>a, RecordFiled
<1>5. /\ rc' \in [Cell -> Nat]
      /\ \A c \in Cell : rc'[c] = rc[c] + One(h = c) /\ One(h = c) \in Nat /\ rc[c] \in Nat
  BY <1>0, <1>2, IncIs
<1>b. PICK ns, watched : ns = nodes' /\ watched = Registered(nodes, t, Node("target", r))
  OBVIOUS
<1>6. \A u \in Object : ~Has(nodes[u], Node("target", r)) /\ ~Has(nodes[u], Node("token", r))
  BY <1>0, <1>1, UnusedIs, Kinds DEF TargetNodes, TokenNodes
<1>7. /\ ListsOK(watched)
      /\ \A u \in Object : u # t => watched[u] = nodes[u]
      /\ \A u \in Object : \A y : Has(watched[u], y) <=> Has(nodes[u], y) \/ (u = t /\ y = Node("target", r))
  <2>1. ListsOK(nodes) /\ Node("target", r) \in NodeSet
    BY <1>0, ListsAre, NodeIn
  <2>. QED
    BY <1>6, <1>b, <2>1, ListPut
<1>8. /\ ListsOK(ns)
      /\ \A u \in Object : u # t /\ u # k => ns[u] = nodes[u]
      /\ \A u \in Object : \A y : Has(ns[u], y) <=> (Has(nodes[u], y) \/ (u = t /\ y = Node("target", r))
                                                \/ (u = k /\ y = Node("token", r)))
  <2>1. CASE k = None
    <3>1. ns = watched /\ \A u \in Object : u # k
      BY <1>1, <1>b, <2>1, Kinds
    <3>. QED
      BY <1>7, <3>1
  <2>2. CASE k # None
    <3>1. k \in Object /\ ns = Registered(watched, k, Node("token", r))
      BY <1>1, <1>b, <2>2 DEF Word
    <3>2. Node("token", r) \in NodeSet /\ ~Has(watched[k], Node("token", r))
      BY <1>6, <1>7, <3>1, NodeIn, NodeIs
    <3>3. /\ ListsOK(ns)
          /\ \A u \in Object : u # k => ns[u] = watched[u]
          /\ \A u \in Object : \A y : Has(ns[u], y) <=> Has(watched[u], y) \/ (u = k /\ y = Node("token", r))
      BY <1>7, <3>1, <3>2, ListPut
    <3>. QED
      BY <1>7, <3>3
  <2>. QED
    BY <2>1, <2>2
<1>9. Stacked' /\ Separate' /\ work' \in Seq(CallSet)
  BY <1>2, EmptyStack
<1>10. Types' /\ NodesOnce'
  BY <1>0, <1>2, <1>4, <1>5, <1>8, <1>9, <1>b DEF Types, TypeOK, ListsOK, NodesOnce
<1>11. \A y, z : /\ Node("ref", y) # Node("target", z) /\ Node("ref", y) # Node("token", z)
                 /\ Node("map", y) # Node("target", z) /\ Node("map", y) # Node("token", z)
                 /\ Node("target", y) # Node("token", z)
                 /\ Node("target", y) = Node("target", z) <=> y = z
                 /\ Node("token", y) = Node("token", z) <=> y = z
  BY NodeIs
<1>12. RefNodes'
  BY <1>0, <1>2, <1>8, <1>11, <1>b DEF RefNodes
<1>13. TargetNodes'
  <2>. SUFFICES ASSUME NEW u \in Object, NEW q \in Record
                PROVE  Has(ns[u], Node("target", q)) <=> rec'[q].target = u
    BY <1>b DEF TargetNodes
  <2>1. Has(nodes[u], Node("target", q)) <=> rec[q].target = u
    BY <1>0 DEF TargetNodes
  <2>2. Has(ns[u], Node("target", q)) <=> Has(nodes[u], Node("target", q)) \/ (u = t /\ q = r)
    BY <1>8, <1>11
  <2>. QED
    BY <1>3, <1>4, <1>6, <2>1, <2>2
<1>14. TokenNodes'
  <2>. SUFFICES ASSUME NEW u \in Object, NEW q \in Record
                PROVE  Has(ns[u], Node("token", q)) <=> rec'[q].token = u
    BY <1>b DEF TokenNodes
  <2>1. Has(nodes[u], Node("token", q)) <=> rec[q].token = u
    BY <1>0 DEF TokenNodes
  <2>2. Has(ns[u], Node("token", q)) <=> Has(nodes[u], Node("token", q)) \/ (u = k /\ q = r)
    BY <1>8, <1>11
  <2>. QED
    BY <1>3, <1>4, <1>6, <2>1, <2>2
<1>15. MapNodes' /\ Gone'
  <2>1. \A u \in Object, m \in WMap : Has(nodes'[u], Node("map", m)) <=> entry'[m][u] # None
    <3>1. \A u \in Object, m \in WMap : Has(nodes[u], Node("map", m)) <=> entry[m][u] # None
      BY <1>2, Idle
    <3>2. ASSUME NEW u \in Object, NEW m
          PROVE  Has(ns[u], Node("map", m)) <=> Has(nodes[u], Node("map", m))
      <4>1. Node("map", m) # Node("target", r) /\ Node("map", m) # Node("token", r)
        BY <1>11
      <4>. QED
        BY <1>8, <4>1
    <3>. QED
      BY <1>2, <1>b, <3>1, <3>2
  <2>2. \A c \in Cell : rc'[c] = 0 => rc[c] = 0
    BY <1>5
  <2>3. ASSUME NEW u \in Object, rc'[u] = 0 PROVE nodes'[u] = <<>>
    <3>1. rc[u] = 0
      BY <2>2, <2>3, Kinds
    <3>2. u # t /\ u # k
      BY <1>2, <3>1, Idle, Kinds
    <3>. QED
      BY <1>2, <1>8, <1>b, <3>1, <3>2, Idle
  <2>4. \A w \in Ref : rc'[w] = 0 => target'[w] = None
    BY <1>0, <1>2, <2>2, Kinds DEF Gone
  <2>. QED
    BY <2>1, <2>3, <2>4, QuietLists
<1>16. Counted'
  <2>1. ASSUME NEW c \in Cell PROVE rc'[c] = Roots(c)' + Heap(c)' /\ rc'[c] \in Nat
    <3>1. rc[c] = Roots(c) + Heap(c) /\ rc[c] \in Nat /\ Roots(c) \in Nat /\ Heap(c) \in Nat
      BY <1>2, Idle
    <3>2. Roots(c)' = Roots(c)
      BY <1>2, SameTerms
    <3>3. /\ Helds(c)' + One(rec[r].held = c) = Helds(c) + One(rec'[r].held = c)
          /\ Helds(c)' \in Nat
      BY <1>4, HeldPut
    <3>4. One(rec[r].held = c) = 0 /\ rec'[r].held = h
      BY <1>1, <1>3, <1>4, UnusedIs, NoOne
    <3>5. Fields(c)' = Fields(c) /\ Entries(c)' = Entries(c)
      BY <1>2, SameTerms
    <3>6. Fields(c) \in Nat /\ Entries(c) \in Nat /\ Helds(c) \in Nat
      BY <1>0, TermsNat
    <3>7. Heap(c)' = Heap(c) + One(h = c)
      BY <1>5, <3>3, <3>4, <3>5, <3>6 DEF Heap
    <3>. QED
      BY <1>5, <3>1, <3>2, <3>7
  <2>. QED
    BY <1>2, <2>1, IdleAgain
<1>. QED
  BY <1>0, <1>2, <1>4, <1>9, <1>10, <1>12, <1>13, <1>14, <1>15, <1>16, GivingSame
     DEF RegistryInv, Listed

-----------------------------------------------------------------------------
(* A cascade at its base: the call at the head is the last.                *)

\* Calls that have no other below them.
LEMMA HeadAlone ==
  ASSUME RegistryInv, work # <<>>,
         \/ Now.op \in {"entries", "store", "deregister"}
         \/ Now.op = "drop" /\ Now.cell \notin Object
  PROVE  /\ Now \in CallSet /\ DOMAIN work = {1} /\ work[1] = Now /\ Tail(work) = <<>>
         /\ work = <<Now>>
<1>1. Types /\ EntriesOK /\ StoresOK /\ LeavingOK /\ DropsOK
  BY Parts
<1>2. /\ 1 \in DOMAIN work /\ Now = work[1] /\ Now \in CallSet
      /\ Len(Tail(work)) = Len(work) - 1 /\ Tail(work) \in Seq(CallSet)
      /\ DOMAIN work = 1 .. Len(work) /\ work = <<Now>> \o Tail(work)
  BY <1>1, HeadIs
<1>3. 1 = Len(work)
  BY <1>1, <1>2 DEF EntriesOK, StoresOK, LeavingOK, DropsOK
<1>4. Tail(work) = <<>> /\ DOMAIN work = {1}
  <2>0. 1 .. 1 = {1}
    OBVIOUS
  <2>1. DOMAIN work = {1}
    BY <1>2, <1>3, <2>0, Zenon
  <2>2. PICK t \in Seq(CallSet) : t = Tail(work)
    BY <1>2
  <2>3. Len(t) = 0
    BY <1>2, <1>3, <2>2
  <2>4. t = <<>>
    BY <2>3
  <2>. QED
    BY <2>1, <2>2, <2>4
<1>5. <<Now>> \o <<>> = <<Now>>
  OBVIOUS
<1>. QED
  BY <1>2, <1>4, <1>5

\* Where no walk is under way.
LEMMA Calm ==
  ASSUME RegistryInv, \A i \in DOMAIN work : work[i].op \notin {"walk", "next"}
  PROVE  /\ \A t \in Object : rc[t] = 0 => nodes[t] = <<>>
         /\ \A t \in Object, m \in WMap :
               /\ entry[m][t] # None => Has(nodes[t], Node("map", m))
               /\ Has(nodes[t], Node("map", m)) => entry[m][t] # None \/ Leaves(m, t)
         /\ \A c \in Cell : /\ rc[c] = Roots(c) + Heap(c) + Bears(work, c) /\ rc[c] \in Nat
                            /\ Roots(c) \in Nat /\ Heap(c) \in Nat /\ Bears(work, c) \in Nat
<1>1. Types /\ TypeOK /\ Gone /\ MapNodes /\ Counted
  BY Parts
<1>2. \A t \in Object : rc[t] = 0 => nodes[t] = <<>>
  BY <1>1 DEF Gone, Vacant, Calls
<1>3. \A t \in Object, m \in WMap :
         /\ entry[m][t] # None => Has(nodes[t], Node("map", m))
         /\ Has(nodes[t], Node("map", m)) => entry[m][t] # None \/ Leaves(m, t)
  BY <1>1 DEF MapNodes, Nexts, Calls
<1>4. ASSUME NEW c \in Cell
      PROVE  /\ rc[c] = Roots(c) + Heap(c) + Bears(work, c) /\ rc[c] \in Nat
             /\ Roots(c) \in Nat /\ Heap(c) \in Nat /\ Bears(work, c) \in Nat
  <2>1. rc[c] \in Nat /\ Roots(c) \in Nat /\ Heap(c) \in Nat /\ Stack(c) \in Nat
    BY <1>1, TermsNat DEF TypeOK
  <2>2. rc[c] = Roots(c) + Heap(c) + Stack(c)
    BY <1>1 DEF Counted, Owing
  <2>. QED
    BY <2>1, <2>2, StackBears
<1>. QED
  BY <1>2, <1>3, <1>4

\* The next state's lists and counts, where no walk is under way in it.
LEMMA CalmAgain ==
  ASSUME \A t \in Object, m \in WMap : Has(nodes'[t], Node("map", m)) <=> entry'[m][t] # None,
         \A t \in Object : rc'[t] = 0 => nodes'[t] = <<>>,
         \A w \in Ref : rc'[w] = 0 => target'[w] = None
  PROVE  MapNodes' /\ Gone'
  BY QuietLists

\* DropShared, of a container: a reference goes and others remain.
LEMMA DropSharedBase ==
  ASSUME RegistryInv, DropShared, Now.cell \notin Object
  PROVE  RegistryInv'
<1>0. /\ Types /\ TypeOK /\ Filed /\ Listed /\ Gone /\ Stacked /\ Separate
      /\ Counted /\ Giving /\ Plain
      /\ NodesOnce /\ RefNodes /\ TargetNodes /\ TokenNodes /\ MapNodes
  BY Parts
<1>a. PICK b : b = Now.cell
  OBVIOUS
<1>1. /\ At("drop") /\ rc[b] # 1 /\ rc' = [rc EXCEPT ![b] = @ - 1]
      /\ work' = Tail(work)
      /\ UNCHANGED <<owned, field, nodes, target, entry, rec, cells, pending, queue, kept, phase,
                     cleaning, given, stopped>>
  BY <1>a DEF DropShared, weak, fin, host
<1>2. Now = Drop(b) /\ work # <<>> /\ b \in Cell
  BY <1>0, <1>1, <1>a, DropNow
<1>3. DOMAIN work = {1} /\ work[1] = Now /\ work' = <<>> /\ work = <<Drop(b)>>
  <2>1. Now.op = "drop"
    BY <1>2, DropIs
  <2>2. DOMAIN work = {1} /\ work[1] = Now /\ Tail(work) = <<>> /\ work = <<Now>>
    BY <1>2, <2>1, HeadAlone
  <2>. QED
    BY <1>1, <1>2, <2>2
<1>4. rc[b] \in Nat \ {0} /\ \A i \in DOMAIN work : work[i].op = "drop"
  BY <1>0, <1>2, <1>3, Alive, DropIs
<1>5. /\ rc' \in [Cell -> Nat] /\ rc'[b] = rc[b] - 1 /\ rc'[b] # 0
      /\ \A c \in Cell : c # b => rc'[c] = rc[c]
  BY <1>0, <1>1, <1>2, <1>4 DEF TypeOK
<1>6. Stacked' /\ Separate' /\ work' \in Seq(CallSet)
  BY <1>3, EmptyStack
<1>7. Types'
  BY <1>0, <1>1, <1>5, <1>6 DEF Types, TypeOK
<1>8. MapNodes' /\ Gone'
  <2>1. \A t \in Object, m \in WMap : Has(nodes[t], Node("map", m)) <=> entry[m][t] # None
    BY <1>4, Calm DEF Leaves, CallsOn
  <2>2. \A c \in Cell : rc'[c] = 0 => rc[c] = 0
    BY <1>5
  <2>3. \A t \in Object : rc'[t] = 0 => nodes'[t] = <<>>
    BY <1>1, <1>4, <2>2, Calm, Kinds
  <2>4. \A w \in Ref : rc'[w] = 0 => target'[w] = None
    BY <1>0, <1>1, <2>2, Kinds DEF Gone
  <2>. QED
    BY <1>1, <2>1, <2>3, <2>4, CalmAgain
<1>9. \A m, k : ~Spent(m, k) /\ ~Spent(m, k)'
  BY <1>3, <1>4 DEF Spent
<1>10. Counted'
  <2>1. ASSUME NEW c \in Cell PROVE rc'[c] = Roots(c)' + Heap(c)' /\ rc'[c] \in Nat
    <3>1. rc[c] = Roots(c) + Heap(c) + Bears(work, c) /\ Roots(c) \in Nat /\ Heap(c) \in Nat
      BY <1>4, Calm
    <3>2. Bears(work, c) = One(b = c)
      BY <1>2, <1>3, BearsDrop
    <3>3. Roots(c)' = Roots(c) /\ Fields(c)' = Fields(c) /\ Helds(c)' = Helds(c)
      BY <1>1, SameTerms
    <3>4. Entries(c)' = Entries(c)
      BY <1>1, <1>9, EntriesSame
    <3>5. Heap(c)' = Heap(c)
      BY <3>3, <3>4 DEF Heap
    <3>6. One(b = c) = IF c = b THEN 1 ELSE 0
      BY DEF One
    <3>. QED
      BY <1>5, <3>1, <3>2, <3>3, <3>5, <3>6
  <2>. QED
    BY <1>3, <2>1, IdleAgain
<1>. QED
  BY <1>0, <1>1, <1>6, <1>7, <1>8, <1>10, FiledSame, ListedSame, GivingSame DEF RegistryInv, Listed

\* The last reference of a container goes.
LEMMA LastIs ==
  ASSUME RegistryInv, NEW b \in Cell, b \notin Object, Last1(b)
  PROVE  /\ rc[b] = 1 /\ rc' \in [Cell -> Nat] /\ rc'[b] = 0 /\ \A c \in Cell : c # b => rc'[c] = rc[c]
         /\ DOMAIN work = {1} /\ work = <<Drop(b)>> /\ work[1] = Drop(b) /\ Tail(work) = <<>>
         /\ \A m, k : ~Spent(m, k)
         /\ \A t \in Object : rc'[t] = 0 => nodes[t] = <<>>
         /\ \A t \in Object, m \in WMap : Has(nodes[t], Node("map", m)) <=> entry[m][t] # None
         /\ \A c \in Cell : /\ rc'[c] = Roots(c) + Heap(c)
                            /\ Roots(c) \in Nat /\ Heap(c) \in Nat
<1>0. Types /\ TypeOK /\ Plain
  BY Parts
<1>1. At("drop") /\ Now.cell = b /\ rc[b] = 1 /\ rc' = [rc EXCEPT ![b] = 0]
  BY DEF Last1
<1>2. Now = Drop(b) /\ work # <<>>
  BY <1>0, <1>1, DropNow
<1>3. DOMAIN work = {1} /\ work[1] = Drop(b) /\ work = <<Drop(b)>> /\ Tail(work) = <<>>
  <2>1. Now.op = "drop"
    BY <1>2, DropIs
  <2>2. DOMAIN work = {1} /\ work[1] = Now /\ Tail(work) = <<>> /\ work = <<Now>>
    BY <1>1, <1>2, <2>1, HeadAlone
  <2>. QED
    BY <1>2, <2>2
<1>4. \A i \in DOMAIN work : work[i].op = "drop"
  BY <1>3, DropIs
<1>5. rc' \in [Cell -> Nat] /\ rc'[b] = 0 /\ \A c \in Cell : c # b => rc'[c] = rc[c]
  BY <1>0, <1>1 DEF TypeOK
<1>6. \A t \in Object : rc'[t] = 0 => nodes[t] = <<>>
  BY <1>4, <1>5, Calm, Kinds
<1>7. \A t \in Object, m \in WMap : Has(nodes[t], Node("map", m)) <=> entry[m][t] # None
  BY <1>4, Calm DEF Leaves, CallsOn
<1>8. \A m, k : ~Spent(m, k)
  BY <1>4 DEF Spent
<1>9. ASSUME NEW c \in Cell
      PROVE  rc'[c] = Roots(c) + Heap(c) /\ Roots(c) \in Nat /\ Heap(c) \in Nat
  <2>1. rc[c] = Roots(c) + Heap(c) + Bears(work, c) /\ Roots(c) \in Nat /\ Heap(c) \in Nat
    BY <1>4, Calm
  <2>2. Bears(work, c) = IF c = b THEN 1 ELSE 0
    BY <1>3, BearsDrop DEF One
  <2>. QED
    BY <1>1, <1>5, <2>1, <2>2
<1>. QED
  BY <1>1, <1>3, <1>5, <1>6, <1>7, <1>8, <1>9

\* RefDies: a WeakRef goes from its target's list.
LEMMA RefDiesStep ==
  ASSUME RegistryInv, NEW w \in Ref, RefDies(w)
  PROVE  RegistryInv'
<1>0. /\ Types /\ TypeOK /\ Filed /\ Listed /\ Gone /\ Stacked /\ Separate
      /\ Counted /\ Giving /\ Plain
      /\ NodesOnce /\ RefNodes /\ TargetNodes /\ TokenNodes /\ MapNodes
  BY Parts
<1>a. PICK o, n, ns : o = target[w] /\ n = Node("ref", w) /\ ns = nodes'
  OBVIOUS
<1>1. /\ Last1(w) /\ ns = Deregistered(nodes, o, n) /\ target' = [target EXCEPT ![w] = None]
      /\ work' = Tail(work)
      /\ UNCHANGED <<owned, field, entry, rec, cells, pending, queue, kept, phase,
                     cleaning, given, stopped>>
  BY <1>a DEF RefDies, fin, host
<1>b. w \in Cell /\ w \notin Object
  BY Kinds
<1>2. /\ rc[w] = 1 /\ rc' \in [Cell -> Nat] /\ rc'[w] = 0 /\ \A c \in Cell : c # w => rc'[c] = rc[c]
      /\ work' = <<>>
      /\ \A m, k : ~Spent(m, k)
  BY <1>1, <1>b, LastIs
<1>3. /\ \A t \in Object : rc'[t] = 0 => nodes[t] = <<>>
      /\ \A t \in Object, m \in WMap : Has(nodes[t], Node("map", m)) <=> entry[m][t] # None
  BY <1>1, <1>b, LastIs
<1>4. /\ ListsOK(ns)
      /\ \A u \in Object : \A x : Has(ns[u], x) <=> Has(nodes[u], x) /\ ~(u = o /\ x = n)
      /\ \A u \in Object : nodes[u] = <<>> => ns[u] = <<>>
  BY <1>0, <1>1, ListsAre, ListLose
<1>5. /\ target' \in [Ref -> Object \cup {None}] /\ target'[w] = None
      /\ \A v \in Ref : v # w => target'[v] = target[v]
  BY <1>0, <1>1 DEF TypeOK
<1>6. Stacked' /\ Separate' /\ work' \in Seq(CallSet) /\ \A m, k : ~Spent(m, k)'
  BY <1>2, EmptyStack
<1>7. Types' /\ NodesOnce'
  BY <1>0, <1>1, <1>2, <1>4, <1>5, <1>6, <1>a DEF Types, TypeOK, ListsOK, NodesOnce
<1>8. RefNodes'
  <2>. SUFFICES ASSUME NEW u \in Object, NEW v \in Ref
                PROVE  Has(ns[u], Node("ref", v)) <=> target'[v] = u
    BY <1>a DEF RefNodes
  <2>1. Has(nodes[u], Node("ref", v)) <=> target[v] = u
    BY <1>0 DEF RefNodes
  <2>2. Node("ref", v) = n <=> v = w
    BY <1>a, NodeIs
  <2>. QED
    BY <1>4, <1>5, <1>a, <2>1, <2>2, Kinds
<1>9. \A k, x : k # "ref" => Node(k, x) # n
  BY <1>a, NodeIs
<1>10. \A u \in Object : \A x : x # n => (Has(nodes'[u], x) <=> Has(nodes[u], x))
  BY <1>4, <1>a
<1>11. TargetNodes' /\ TokenNodes'
  <2>1. TargetNodes'
    BY <1>0, <1>1, <1>9, <1>10 DEF TargetNodes
  <2>2. TokenNodes'
    BY <1>0, <1>1, <1>9, <1>10 DEF TokenNodes
  <2>. QED
    BY <2>1, <2>2
<1>12. MapNodes' /\ Gone'
  <2>1. \A t \in Object, m \in WMap : Has(nodes'[t], Node("map", m)) <=> entry'[m][t] # None
    BY <1>1, <1>3, <1>9, <1>10
  <2>2. \A t \in Object : rc'[t] = 0 => nodes'[t] = <<>>
    BY <1>3, <1>4, <1>a
  <2>3. \A v \in Ref : rc'[v] = 0 => target'[v] = None
    BY <1>0, <1>2, <1>5, Kinds DEF Gone
  <2>. QED
    BY <2>1, <2>2, <2>3, CalmAgain
<1>13. Counted'
  <2>1. ASSUME NEW c \in Cell PROVE rc'[c] = Roots(c)' + Heap(c)' /\ rc'[c] \in Nat
    <3>1. rc'[c] = Roots(c) + Heap(c)
      BY <1>1, <1>b, LastIs
    <3>3. Roots(c)' = Roots(c) /\ Fields(c)' = Fields(c) /\ Helds(c)' = Helds(c)
      BY <1>1, SameTerms
    <3>4. Entries(c)' = Entries(c)
      BY <1>1, <1>2, <1>6, EntriesSame
    <3>5. Heap(c)' = Heap(c)
      BY <3>3, <3>4 DEF Heap
    <3>. QED
      BY <1>2, <3>1, <3>3, <3>5
  <2>. QED
    BY <1>2, <2>1, IdleAgain
<1>. QED
  BY <1>0, <1>1, <1>6, <1>7, <1>8, <1>11, <1>12, <1>13, FiledSame, GivingSame DEF RegistryInv, Listed

\* MapDies: the entries are to be dropped.
LEMMA MapDiesStep ==
  ASSUME RegistryInv, NEW m \in WMap, MapDies(m)
  PROVE  RegistryInv'
<1>0. /\ Types /\ TypeOK /\ Filed /\ Listed /\ Gone /\ Stacked /\ Separate
      /\ Counted /\ Giving /\ Plain
      /\ NodesOnce /\ RefNodes /\ TargetNodes /\ TokenNodes /\ MapNodes
  BY Parts
<1>b. m \in Cell /\ m \notin Object
  BY Kinds
<1>a. PICK u, e : u = <<e>> /\ e = Call("entries", m, None, None)
  OBVIOUS
<1>1. /\ Last1(m) /\ work' = u \o Tail(work)
      /\ UNCHANGED <<owned, field, nodes, target, entry, rec, cells, pending, queue, kept, phase,
                     cleaning, given, stopped>>
  BY <1>a DEF MapDies, weak, fin, host
<1>2. /\ e \in CallSet /\ e.op = "entries" /\ e.cell = m /\ e.value = None
  BY <1>a, <1>b DEF Call, CallSet, Ops, Word, Value
<1>3. u \in Seq(CallSet) /\ DOMAIN u = {1} /\ Len(u) = 1 /\ u[1] = e /\ u \o <<>> = u
  BY <1>a, <1>2
<1>4. /\ rc' \in [Cell -> Nat] /\ rc'[m] = 0 /\ \A c \in Cell : c # m => rc'[c] = rc[c]
      /\ work' = u /\ work[1] = Drop(m) /\ DOMAIN work = {1}
      /\ \A n, k : ~Spent(n, k)
  BY <1>1, <1>3, <1>b, LastIs
<1>5. Stacked'
  <2>1. \A i \in DOMAIN u : Settled(u, i)
    BY <1>2, <1>3 DEF Settled
  <2>. QED
    BY <1>3, <1>4, <2>1, BaseStacked
<1>6. Separate'
  <2>1. work[1].op = "drop" /\ work[1].cell = m
    BY <1>4, DropIs
  <2>2. PICK s \in SUBSET Object : Apart(m, s)
    BY <1>0, <1>4, <2>1 DEF Separate
  <2>3. Apart(m, s)'
    BY <1>1, <2>2 DEF Apart, Follows
  <2>4. Under(m, s)'
    BY <1>2, <1>3, <1>4 DEF Under
  <2>. QED
    BY <1>2, <1>3, <1>4, <2>3, <2>4 DEF Separate
<1>7. \A n, k : ~Spent(n, k)'
  BY <1>2, <1>3, <1>4 DEF Spent
<1>8. Types'
  BY <1>0, <1>1, <1>3, <1>4 DEF Types, TypeOK
<1>9. MapNodes' /\ Gone'
  <2>1. \A t \in Object, n \in WMap : Has(nodes'[t], Node("map", n)) <=> entry'[n][t] # None
    BY <1>1, <1>b, LastIs
  <2>2. \A t \in Object : rc'[t] = 0 => nodes'[t] = <<>>
    BY <1>1, <1>b, LastIs
  <2>3. \A v \in Ref : rc'[v] = 0 => target'[v] = None
    BY <1>0, <1>1, <1>4, Kinds DEF Gone
  <2>. QED
    BY <2>1, <2>2, <2>3, CalmAgain
<1>10. Counted'
  <2>. SUFFICES ASSUME NEW c \in Cell PROVE rc'[c] = Owing(c)'
    BY DEF Counted
  <2>1. rc'[c] = Roots(c) + Heap(c) /\ Roots(c) \in Nat /\ Heap(c) \in Nat
    BY <1>1, <1>b, LastIs
  <2>3. Roots(c)' = Roots(c) /\ Fields(c)' = Fields(c) /\ Helds(c)' = Helds(c)
    BY <1>1, SameTerms
  <2>4. Entries(c)' = Entries(c)
    BY <1>1, <1>4, <1>7, EntriesSame
  <2>5. Heap(c)' = Heap(c)
    BY <2>3, <2>4 DEF Heap
  <2>6. Stack(c)' = 0
    <3>1. Bears(<<e>>, c) = 0
      BY <1>2, BearsOne, NoOne
    <3>. QED
      BY <1>4, <1>a, <3>1, StackBears
  <2>. QED
    BY <2>1, <2>3, <2>5, <2>6 DEF Owing
<1>. QED
  BY <1>0, <1>1, <1>5, <1>6, <1>8, <1>9, <1>10, FiledSame, ListedSame, GivingSame DEF RegistryInv, Listed

-----------------------------------------------------------------------------
(* A cascade at its base: entries.                                         *)

\* What a stack bears, by its head and the rest.
LEMMA BearsTail ==
  ASSUME Types, work # <<>>, NEW c
  PROVE  /\ Bears(work, c) = Bears(<<Now>>, c) + Bears(Tail(work), c)
         /\ Bears(<<Now>>, c) \in Nat /\ Bears(Tail(work), c) \in Nat
<1>1. PICK t, u : t = Tail(work) /\ u = <<Now>>
  OBVIOUS
<1>2. t \in Seq(CallSet) /\ Now \in CallSet /\ work = u \o t
  BY <1>1, HeadIs
<1>3. u \in Seq(CallSet)
  BY <1>1, <1>2
<1>4. /\ Bears(u \o t, c) = Bears(u, c) + Bears(t, c)
      /\ Bears(u, c) \in Nat /\ Bears(t, c) \in Nat
  BY <1>2, <1>3, BearsJoin
<1>. QED
  BY <1>1, <1>2, <1>4

\* The call at the head, when no other is below it.
LEMMA AloneIs ==
  ASSUME RegistryInv, work # <<>>, Now.op \in {"entries", "store", "deregister"}
  PROVE  /\ Now \in CallSet /\ DOMAIN work = {1} /\ work[1] = Now /\ Tail(work) = <<>>
         /\ work = <<Now>>
         /\ \A n, o : Spent(n, o) <=> Now.op = "store" /\ Now.cell = n /\ Now.key = o
         /\ \A t \in Object : rc[t] = 0 => nodes[t] = <<>>
         /\ \A t \in Object, m \in WMap :
               /\ entry[m][t] # None => Has(nodes[t], Node("map", m))
               /\ Has(nodes[t], Node("map", m)) =>
                     entry[m][t] # None \/ (Now.op = "deregister" /\ Now.cell = m /\ Now.key = t)
         /\ \A c \in Cell : /\ rc[c] = Roots(c) + Heap(c) + One(Now.value = c)
                            /\ Roots(c) \in Nat /\ Heap(c) \in Nat
<1>1. /\ Now \in CallSet /\ DOMAIN work = {1} /\ work[1] = Now /\ Tail(work) = <<>>
      /\ work = <<Now>>
  BY HeadAlone
<1>2. \A i \in DOMAIN work : work[i].op \notin {"walk", "next"}
  BY <1>1
<1>3. \A n, o : Spent(n, o) <=> Now.op = "store" /\ Now.cell = n /\ Now.key = o
  BY <1>1 DEF Spent
<1>4. \A m, t : Leaves(m, t) <=> Now.op = "deregister" /\ Now.cell = m /\ Now.key = t
  BY <1>1 DEF Leaves, CallsOn
<1>5. /\ \A t \in Object : rc[t] = 0 => nodes[t] = <<>>
      /\ \A t \in Object, m \in WMap :
            /\ entry[m][t] # None => Has(nodes[t], Node("map", m))
            /\ Has(nodes[t], Node("map", m)) => entry[m][t] # None \/ Leaves(m, t)
  BY <1>2, Calm
<1>6. ASSUME NEW c \in Cell
      PROVE  /\ rc[c] = Roots(c) + Heap(c) + One(Now.value = c)
             /\ Roots(c) \in Nat /\ Heap(c) \in Nat
  <2>1. /\ rc[c] = Roots(c) + Heap(c) + Bears(work, c)
        /\ Roots(c) \in Nat /\ Heap(c) \in Nat
    BY <1>2, Calm
  <2>2. Bears(<<Now>>, c) = One(Now.value = c)
    BY <1>1, BearsOne
  <2>. QED
    BY <1>1, <2>1, <2>2
<1>. QED
  BY <1>1, <1>3, <1>4, <1>5, <1>6

\* Store: the new value takes the place of the one dropped.
LEMMA StoreStep ==
  ASSUME RegistryInv, Store
  PROVE  RegistryInv'
<1>0. /\ Types /\ TypeOK /\ Filed /\ Listed /\ Gone /\ Stacked /\ Separate
      /\ Counted /\ Giving /\ Plain /\ StoresOK
      /\ NodesOnce /\ RefNodes /\ TargetNodes /\ TokenNodes /\ MapNodes
  BY Parts
<1>a. PICK m, k, v : m = Now.cell /\ k = Now.key /\ v = Now.value
  OBVIOUS
<1>1. /\ work # <<>> /\ Now.op = "store" /\ entry' = [entry EXCEPT ![m][k] = v]
      /\ work' = Tail(work)
      /\ UNCHANGED <<rc, owned, field, nodes, target, rec, cells, pending, queue, kept, phase,
                     cleaning, given, stopped>>
  BY <1>a DEF Store, At, Now, fin, host
<1>2. /\ Now \in CallSet /\ DOMAIN work = {1} /\ work[1] = Now /\ work' = <<>>
      /\ \A n, o : Spent(n, o) <=> Now.op = "store" /\ Now.cell = n /\ Now.key = o
  BY <1>1, AloneIs
<1>3. /\ m \in WMap /\ k \in Object /\ entry[m][k] # None /\ v # None
      /\ v \in Object \cup {Primitive}
  BY <1>0, <1>1, <1>2, <1>a DEF StoresOK, CallSet, Value
<1>4. /\ entry' \in [WMap -> [Object -> Object \cup {Primitive, None}]] /\ entry'[m][k] = v
      /\ \A n \in WMap, o \in Object : <<n, o>> # <<m, k>> => entry'[n][o] = entry[n][o]
  BY <1>0, <1>1, <1>3 DEF TypeOK
<1>5. Stacked' /\ Separate' /\ work' \in Seq(CallSet) /\ \A n, o : ~Spent(n, o)'
  BY <1>2, EmptyStack
<1>6. Types'
  BY <1>0, <1>1, <1>4, <1>5 DEF Types, TypeOK
<1>7. MapNodes' /\ Gone'
  <2>1. \A t \in Object, n \in WMap : Has(nodes[t], Node("map", n)) <=> entry[n][t] # None
    BY <1>1, AloneIs
  <2>2. \A t \in Object, n \in WMap : Has(nodes'[t], Node("map", n)) <=> entry'[n][t] # None
    BY <1>1, <1>3, <1>4, <2>1
  <2>3. \A t \in Object : rc'[t] = 0 => nodes'[t] = <<>>
    BY <1>1, AloneIs
  <2>4. \A w \in Ref : rc'[w] = 0 => target'[w] = None
    BY <1>0, <1>1 DEF Gone
  <2>. QED
    BY <2>2, <2>3, <2>4, CalmAgain
<1>8. Counted'
  <2>1. ASSUME NEW c \in Cell PROVE rc'[c] = Roots(c)' + Heap(c)' /\ rc'[c] \in Nat
    <3>1. rc[c] = Roots(c) + Heap(c) + One(v = c) /\ Roots(c) \in Nat /\ Heap(c) \in Nat
      BY <1>1, <1>a, AloneIs
    <3>2. Roots(c)' = Roots(c) /\ Fields(c)' = Fields(c) /\ Helds(c)' = Helds(c)
      BY <1>1, SameTerms
    <3>3. Spent(m, k) /\ ~Spent(m, k)'
      BY <1>1, <1>2, <1>5, <1>a
    <3>4. \A n, o : <<n, o>> # <<m, k>> => ~Spent(n, o)
      BY <1>2, <1>a
    <3>5. /\ Entries(c)' + One(entry[m][k] = c /\ ~Spent(m, k))
               = Entries(c) + One(entry'[m][k] = c /\ ~Spent(m, k)')
          /\ Entries(c)' \in Nat
      BY <1>3, <1>4, <1>5, <3>4, EntryPut
    <3>6. One(entry[m][k] = c /\ ~Spent(m, k)) = 0
      BY <3>3 DEF One
    <3>7. One(entry'[m][k] = c /\ ~Spent(m, k)') = One(v = c) /\ One(v = c) \in Nat
      BY <1>4, <3>3 DEF One
    <3>8. Fields(c) \in Nat /\ Entries(c) \in Nat /\ Helds(c) \in Nat
      BY <1>0, TermsNat
    <3>9. Heap(c)' = Heap(c) + One(v = c)
      BY <3>2, <3>5, <3>6, <3>7, <3>8 DEF Heap
    <3>10. rc[c] \in Nat
      BY <1>0 DEF TypeOK
    <3>. QED
      BY <1>1, <3>1, <3>2, <3>7, <3>9, <3>10
  <2>. QED
    BY <1>2, <2>1, IdleAgain
<1>. QED
  BY <1>0, <1>1, <1>5, <1>6, <1>7, <1>8, FiledSame, ListedSame, GivingSame DEF RegistryInv, Listed

\* One node of a map leaves a list.
LEMMA MapNodeLeaves ==
  ASSUME Types, NodesOnce, RefNodes, TargetNodes, TokenNodes, NEW k \in Object, NEW m \in WMap,
         nodes' = Deregistered(nodes, k, Node("map", m)), UNCHANGED <<target, rec>>
  PROVE  /\ nodes' \in [Object -> Seq(NodeSet)]
         /\ NodesOnce' /\ RefNodes' /\ TargetNodes' /\ TokenNodes'
         /\ \A t \in Object : nodes[t] = <<>> => nodes'[t] = <<>>
         /\ \A t \in Object : \A n : Has(nodes'[t], Node("map", n)) <=>
               Has(nodes[t], Node("map", n)) /\ ~(t = k /\ n = m)
<1>1. PICK ns, x : ns = nodes' /\ x = Node("map", m)
  OBVIOUS
<1>2. /\ ListsOK(ns)
      /\ \A t \in Object : \A y : Has(ns[t], y) <=> Has(nodes[t], y) /\ ~(t = k /\ y = x)
      /\ \A t \in Object : nodes[t] = <<>> => ns[t] = <<>>
  BY <1>1, ListsAre, ListLose
<1>3. /\ \A l, y : l # "map" => Node(l, y) # x
      /\ \A n : Node("map", n) = x <=> n = m
  BY <1>1, NodeIs
<1>4. \A t \in Object : \A y : y # x => (Has(nodes'[t], y) <=> Has(nodes[t], y))
  BY <1>1, <1>2
<1>5. RefNodes'
  BY <1>3, <1>4 DEF RefNodes
<1>6. TargetNodes'
  BY <1>3, <1>4 DEF TargetNodes
<1>7. TokenNodes'
  BY <1>3, <1>4 DEF TokenNodes
<1>8. nodes' \in [Object -> Seq(NodeSet)] /\ NodesOnce'
  BY <1>1, <1>2 DEF ListsOK, NodesOnce
<1>. QED
  BY <1>1, <1>2, <1>3, <1>5, <1>6, <1>7, <1>8

\* Deregister: the node of a deleted entry goes.
LEMMA DeregisterStep ==
  ASSUME RegistryInv, Deregister
  PROVE  RegistryInv'
<1>0. /\ Types /\ TypeOK /\ Filed /\ Listed /\ Gone /\ Stacked /\ Separate
      /\ Counted /\ Giving /\ Plain /\ LeavingOK
      /\ NodesOnce /\ RefNodes /\ TargetNodes /\ TokenNodes /\ MapNodes
  BY Parts
<1>a. PICK m, k : m = Now.cell /\ k = Now.key
  OBVIOUS
<1>1. /\ work # <<>> /\ Now.op = "deregister"
      /\ nodes' = Deregistered(nodes, k, Node("map", m))
      /\ work' = Tail(work)
      /\ UNCHANGED <<rc, owned, field, target, entry, rec, cells, pending, queue, kept, phase,
                     cleaning, given, stopped>>
  BY <1>a DEF Deregister, At, Now, fin, host
<1>2. /\ Now \in CallSet /\ DOMAIN work = {1} /\ work[1] = Now /\ work' = <<>>
      /\ \A n, o : Spent(n, o) <=> Now.op = "store" /\ Now.cell = n /\ Now.key = o
  BY <1>1, AloneIs
<1>3. m \in WMap /\ k \in Object /\ entry[m][k] = None /\ Now.value = None
  BY <1>0, <1>1, <1>2, <1>a DEF LeavingOK, Plain
<1>4. /\ nodes' \in [Object -> Seq(NodeSet)]
      /\ NodesOnce' /\ RefNodes' /\ TargetNodes' /\ TokenNodes'
      /\ \A t \in Object : nodes[t] = <<>> => nodes'[t] = <<>>
      /\ \A t \in Object : \A n : Has(nodes'[t], Node("map", n)) <=>
            Has(nodes[t], Node("map", n)) /\ ~(t = k /\ n = m)
  BY <1>0, <1>1, <1>3, MapNodeLeaves
<1>5. Stacked' /\ Separate' /\ work' \in Seq(CallSet) /\ \A n, o : ~Spent(n, o)'
  BY <1>2, EmptyStack
<1>6. Types'
  BY <1>0, <1>1, <1>4, <1>5 DEF Types, TypeOK
<1>7. MapNodes' /\ Gone'
  <2>1. \A t \in Object, n \in WMap :
               /\ entry[n][t] # None => Has(nodes[t], Node("map", n))
               /\ Has(nodes[t], Node("map", n)) => entry[n][t] # None \/ (m = n /\ k = t)
    BY <1>1, <1>a, AloneIs
  <2>2. \A t \in Object, n \in WMap : Has(nodes'[t], Node("map", n)) <=> entry'[n][t] # None
    BY <1>1, <1>3, <1>4, <2>1
  <2>3. \A t \in Object : rc'[t] = 0 => nodes'[t] = <<>>
    BY <1>1, <1>4, AloneIs
  <2>4. \A w \in Ref : rc'[w] = 0 => target'[w] = None
    BY <1>0, <1>1 DEF Gone
  <2>. QED
    BY <2>2, <2>3, <2>4, CalmAgain
<1>8. Counted'
  <2>1. ASSUME NEW c \in Cell PROVE rc'[c] = Roots(c)' + Heap(c)' /\ rc'[c] \in Nat
    <3>1. rc[c] = Roots(c) + Heap(c) + One(None = c) /\ Roots(c) \in Nat /\ Heap(c) \in Nat
      BY <1>1, <1>3, AloneIs
    <3>2. Roots(c)' = Roots(c) /\ Fields(c)' = Fields(c) /\ Helds(c)' = Helds(c)
      BY <1>1, SameTerms
    <3>3. Entries(c)' = Entries(c)
      BY <1>1, <1>2, <1>5, EntriesSame
    <3>4. Heap(c)' = Heap(c)
      BY <3>2, <3>3 DEF Heap
    <3>. QED
      BY <1>1, <3>1, <3>2, <3>4, NoOne
  <2>. QED
    BY <1>2, <2>1, IdleAgain
<1>. QED
  BY <1>0, <1>1, <1>4, <1>5, <1>6, <1>7, <1>8, FiledSame, GivingSame DEF RegistryInv, Listed

\* The entries of a dropped map are all gone.
LEMMA EntriesEndStep ==
  ASSUME RegistryInv, At("entries"), work' = Tail(work),
         UNCHANGED <<rc, owned, field, weak, fin, kept, host>>
  PROVE  RegistryInv'
<1>0. /\ Types /\ TypeOK /\ Filed /\ Listed /\ Gone /\ Stacked /\ Separate
      /\ Counted /\ Giving /\ Plain
      /\ NodesOnce /\ RefNodes /\ TargetNodes /\ TokenNodes /\ MapNodes
  BY Parts
<1>1. /\ work # <<>> /\ Now.op = "entries" /\ work' = Tail(work)
      /\ UNCHANGED <<rc, owned, field, nodes, target, entry, rec, cells, pending, queue, kept, phase,
                     cleaning, given, stopped>>
  BY DEF At, Now, weak, fin, host
<1>2. /\ Now \in CallSet /\ DOMAIN work = {1} /\ work[1] = Now /\ work' = <<>>
      /\ \A n, o : ~Spent(n, o)
  BY <1>1, AloneIs
<1>3. Now.value = None
  BY <1>0, <1>1, <1>2 DEF Plain
<1>4. Stacked' /\ Separate' /\ work' \in Seq(CallSet) /\ \A n, o : ~Spent(n, o)'
  BY <1>2, EmptyStack
<1>5. Types'
  BY <1>0, <1>1, <1>4 DEF Types, TypeOK
<1>6. MapNodes' /\ Gone'
  <2>1. \A t \in Object, n \in WMap : Has(nodes'[t], Node("map", n)) <=> entry'[n][t] # None
    BY <1>1, AloneIs
  <2>2. \A t \in Object : rc'[t] = 0 => nodes'[t] = <<>>
    BY <1>1, AloneIs
  <2>3. \A w \in Ref : rc'[w] = 0 => target'[w] = None
    BY <1>0, <1>1 DEF Gone
  <2>. QED
    BY <2>1, <2>2, <2>3, CalmAgain
<1>7. Counted'
  <2>1. ASSUME NEW c \in Cell PROVE rc'[c] = Roots(c)' + Heap(c)' /\ rc'[c] \in Nat
    <3>1. rc[c] = Roots(c) + Heap(c) + One(None = c) /\ Roots(c) \in Nat /\ Heap(c) \in Nat
      BY <1>1, <1>3, AloneIs
    <3>2. Roots(c)' = Roots(c) /\ Fields(c)' = Fields(c) /\ Helds(c)' = Helds(c)
      BY <1>1, SameTerms
    <3>3. Entries(c)' = Entries(c)
      BY <1>1, <1>2, <1>4, EntriesSame
    <3>4. Heap(c)' = Heap(c)
      BY <3>2, <3>3 DEF Heap
    <3>. QED
      BY <1>1, <3>1, <3>2, <3>4, NoOne
  <2>. QED
    BY <1>2, <2>1, IdleAgain
<1>. QED
  BY <1>0, <1>1, <1>4, <1>5, <1>6, <1>7, FiledSame, ListedSame, GivingSame DEF RegistryInv, Listed

\* The stack of the drop of an entry: the value's, then the entry's, then the map's.
EntryStack(s, v, e, b) ==
  /\ s \in Seq(CallSet) /\ Len(s) \in Nat /\ DOMAIN s = 1 .. Len(s)
  /\ \A i \in DOMAIN s : \/ ObjectDrop(s[i]) /\ s[i].cell = v
                         \/ i = Len(s) - 1 /\ s[i] = e
                         \/ i = Len(s) /\ s[i] = b
  /\ s[Len(s)] = b /\ Len(s) \in DOMAIN s
  /\ s[Len(s) - 1] = e /\ Len(s) - 1 \in DOMAIN s
  /\ \A c \in Cell : Bears(s, c) = One(c = v /\ c \in Object) + Bears(<<e>>, c) + Bears(<<b>>, c)

\* Such a stack bears the value once.
LEMMA EntryStackIs ==
  ASSUME NEW v, NEW e \in CallSet, NEW b \in CallSet, NEW d, Behind(d, v, e)
  PROVE  EntryStack(d \o <<b>>, v, e, b)
<1>1. PICK s, u : u = <<b>> /\ s = d \o u
  OBVIOUS
<1>2. /\ d \in Seq(CallSet) /\ Len(d) \in DOMAIN d /\ d[Len(d)] = e
      /\ \A i \in DOMAIN d : (ObjectDrop(d[i]) /\ d[i].cell = v) \/ (i = Len(d) /\ d[i] = e)
  BY DEF Behind
<1>3. u \in Seq(CallSet) /\ Len(u) = 1 /\ u[1] = b
  BY <1>1
<1>4. s \in Seq(CallSet)
  BY <1>1, <1>2, <1>3
<1>5. /\ DOMAIN d = 1 .. Len(d) /\ Len(d) \in Nat
      /\ DOMAIN s = 1 .. Len(d) + 1
      /\ \A i \in 1 .. Len(d) : s[i] = d[i]
      /\ s[Len(d) + 1] = b
  BY <1>1, <1>2, <1>3, ConcatAt
<1>6. Len(s) = Len(d) + 1 /\ Len(s) \in Nat /\ Len(s) - 1 = Len(d)
  BY <1>4, <1>5
<1>7. \A i \in DOMAIN s : i \in 1 .. Len(d) \/ i = Len(s)
  BY <1>5, <1>6
<1>8. \A i \in DOMAIN s : \/ ObjectDrop(s[i]) /\ s[i].cell = v
                          \/ i = Len(s) - 1 /\ s[i] = e
                          \/ i = Len(s) /\ s[i] = b
  BY <1>2, <1>5, <1>6, <1>7
<1>9. /\ s[Len(s)] = b /\ Len(s) \in DOMAIN s
      /\ s[Len(s) - 1] = e /\ Len(s) - 1 \in DOMAIN s
  BY <1>2, <1>5, <1>6
<1>10. \A c \in Cell : Bears(s, c) = One(c = v /\ c \in Object) + Bears(<<e>>, c) + Bears(u, c)
  <2>1. \A c : Bears(d \o u, c) = Bears(d, c) + Bears(u, c)
    BY <1>2, <1>3, BearsJoin
  <2>2. \A c \in Cell : Bears(d, c) = One(c = v /\ c \in Object) + Bears(<<e>>, c)
    BY DEF Behind
  <2>. QED
    BY <1>1, <2>1, <2>2
<1>11. EntryStack(s, v, e, b)
  BY <1>1, <1>4, <1>5, <1>6, <1>8, <1>9, <1>10 DEF EntryStack
<1>. QED
  BY <1>1, <1>11

\* The value of one of them is dropped.
LEMMA EntryDropsStep ==
  ASSUME RegistryInv, At("entries"), NEW k \in Object, entry[Now.cell][k] # None,
         work' = Drops(<<entry[Now.cell][k]>>) \o <<Call("entryDropped", Now.cell, k, None)>> \o work,
         UNCHANGED <<rc, owned, field, weak, fin, kept, host>>
  PROVE  RegistryInv'
<1>0. /\ Types /\ TypeOK /\ Filed /\ Listed /\ Gone /\ Stacked /\ Separate
      /\ Counted /\ Giving /\ Plain /\ EntriesOK
      /\ NodesOnce /\ RefNodes /\ TargetNodes /\ TokenNodes /\ MapNodes
  BY Parts
<1>a. PICK b, m, v : b = Now /\ m = Now.cell /\ v = entry[Now.cell][k]
  OBVIOUS
<1>b. PICK e : e = Call("entryDropped", m, k, None)
  OBVIOUS
<1>c. PICK d : d = Drops(<<v>>) \o <<e>>
  OBVIOUS
<1>d. PICK s : s = d \o <<b>>
  OBVIOUS
<1>1. /\ work # <<>> /\ b.op = "entries" /\ b.cell = m /\ entry[m][k] # None /\ v = entry[m][k]
      /\ UNCHANGED <<rc, owned, field, nodes, target, entry, rec, cells, pending, queue, kept, phase,
                     cleaning, given, stopped>>
  BY <1>a DEF At, Now, weak, fin, host
<1>2. /\ b \in CallSet /\ DOMAIN work = {1} /\ work[1] = b /\ work = <<b>>
      /\ \A n, o : ~Spent(n, o)
  BY <1>1, <1>a, AloneIs
<1>3. work' = s
  BY <1>2, <1>a, <1>b, <1>c, <1>d
<1>4. b.value = None /\ m \in WMap /\ m \in Cell /\ m \notin Object
  BY <1>0, <1>1, <1>2, Kinds DEF Plain, EntriesOK
<1>5. /\ e \in CallSet /\ e.op = "entryDropped" /\ e.cell = m /\ e.key = k /\ e.value = None
  BY <1>4, <1>b DEF Call, CallSet, Ops, Word, Value
<1>6. EntryStack(s, v, e, b)
  <2>1. Behind(d, v, e)
    BY <1>5, <1>c, OneBehind
  <2>. QED
    BY <1>2, <1>5, <1>d, <2>1, EntryStackIs
<1>7. /\ s \in Seq(CallSet)
      /\ \A i \in DOMAIN s : \/ ObjectDrop(s[i]) /\ s[i].cell = v
                             \/ i = Len(s) - 1 /\ s[i] = e
                             \/ i = Len(s) /\ s[i] = b
      /\ s[Len(s)] = b /\ Len(s) \in DOMAIN s /\ Len(s) \in Nat
      /\ s[Len(s) - 1] = e /\ Len(s) - 1 \in DOMAIN s
  BY <1>6 DEF EntryStack
<1>8. Stacked'
  <2>. SUFFICES ASSUME NEW i \in DOMAIN s PROVE Settled(s, i)
    BY <1>3, <1>7, BaseStacked
  <2>1. CASE ObjectDrop(s[i])
    BY <2>1 DEF Settled
  <2>2. CASE i = Len(s) - 1 /\ s[i] = e
    <3>1. i + 1 = Len(s)
      BY <1>7, <2>2
    <3>. QED
      BY <1>1, <1>4, <1>5, <1>7, <2>2, <3>1 DEF Settled
  <2>3. CASE i = Len(s) /\ s[i] = b
    BY <1>1, <1>4, <2>3 DEF Settled
  <2>. QED
    BY <1>7, <2>1, <2>2, <2>3
<1>9. Separate'
  <2>1. PICK z \in SUBSET Object : Apart(m, z)
    BY <1>0, <1>1, <1>2, <1>4 DEF Separate
  <2>2. Apart(m, z)'
    BY <1>1, <2>1 DEF Apart, Follows
  <2>3. v \in z \cup {Primitive, None}
    BY <1>1, <2>1 DEF Apart
  <2>4. Under(m, z)'
    <3>. SUFFICES ASSUME NEW i \in DOMAIN s, s[i].op \in {"drop", "walk", "next"}, s[i].cell # m
                  PROVE  s[i].cell \in z
      BY <1>3 DEF Under
    <3>1. ObjectDrop(s[i]) /\ s[i].cell = v
      BY <1>1, <1>5, <1>7
    <3>. QED
      BY <2>3, <3>1, Kinds DEF ObjectDrop
  <2>5. \A i \in DOMAIN s : s[i].op \in {"drop", "entries"} /\ s[i].cell \in WMap => s[i].cell = m
    BY <1>1, <1>5, <1>7, Kinds DEF ObjectDrop
  <2>. QED
    BY <1>3, <2>2, <2>4, <2>5 DEF Separate
<1>10. \A n, o : Spent(n, o)' <=> n = m /\ o = k
  <2>1. \A i \in DOMAIN s : s[i].op \in {"entryDropped", "store"} => s[i] = e
    BY <1>1, <1>7, DropIs DEF ObjectDrop
  <2>2. \A n, o : Spent(n, o)' <=> \E i \in DOMAIN s :
           s[i].op \in {"entryDropped", "store"} /\ s[i].cell = n /\ s[i].key = o
    BY <1>3 DEF Spent
  <2>. QED
    BY <1>5, <1>7, <2>1, <2>2
<1>11. Types'
  BY <1>0, <1>1, <1>3, <1>7 DEF Types, TypeOK
<1>12. MapNodes' /\ Gone'
  <2>1. \A t \in Object, n \in WMap : Has(nodes'[t], Node("map", n)) <=> entry'[n][t] # None
    BY <1>1, <1>a, AloneIs
  <2>2. \A t \in Object : rc'[t] = 0 => nodes'[t] = <<>>
    BY <1>1, <1>a, AloneIs
  <2>3. \A w \in Ref : rc'[w] = 0 => target'[w] = None
    BY <1>0, <1>1 DEF Gone
  <2>. QED
    BY <2>1, <2>2, <2>3, CalmAgain
<1>13. Counted'
  <2>. SUFFICES ASSUME NEW c \in Cell PROVE rc'[c] = Owing(c)'
    BY DEF Counted
  <2>1. rc[c] = Roots(c) + Heap(c) + One(None = c) /\ Roots(c) \in Nat /\ Heap(c) \in Nat
    BY <1>1, <1>4, <1>a, AloneIs
  <2>2. Roots(c)' = Roots(c) /\ Fields(c)' = Fields(c) /\ Helds(c)' = Helds(c)
    BY <1>1, SameTerms
  <2>4. /\ Entries(c)' + One(entry[m][k] = c /\ ~Spent(m, k))
             = Entries(c) + One(entry'[m][k] = c /\ ~Spent(m, k)')
        /\ Entries(c)' \in Nat
    <3>1. \A n \in WMap, o \in Object : <<n, o>> # <<m, k>> =>
             entry'[n][o] = entry[n][o] /\ (Spent(n, o)' <=> Spent(n, o))
      BY <1>1, <1>2, <1>10
    <3>. QED
      BY <1>4, <3>1, EntryPut
  <2>5. One(entry[m][k] = c /\ ~Spent(m, k)) = One(v = c)
    BY <1>1, <1>2 DEF One
  <2>6. One(entry'[m][k] = c /\ ~Spent(m, k)') = 0
    BY <1>10 DEF One
  <2>8. Fields(c) \in Nat /\ Entries(c) \in Nat /\ Helds(c) \in Nat /\ One(v = c) \in Nat
    BY <1>0, TermsNat DEF One
  <2>9. Heap(c)' + One(v = c) = Heap(c) /\ Heap(c)' \in Nat
    BY <2>2, <2>4, <2>5, <2>6, <2>8 DEF Heap
  <2>10. Stack(c)' = One(v = c)
    <3>1. Stack(c)' = One(c = v /\ c \in Object) + Bears(<<e>>, c) + Bears(<<b>>, c)
      BY <1>3, <1>6, StackBears DEF EntryStack
    <3>2. Bears(<<e>>, c) = 0 /\ Bears(<<b>>, c) = 0
      BY <1>1, <1>2, <1>4, <1>5, BearsOne, NoOne
    <3>3. v \in Object \cup {Primitive, None} /\ c # Primitive /\ c # None
      BY <1>0, <1>1, <1>4, Kinds DEF TypeOK
    <3>4. One(c = v /\ c \in Object) = One(v = c)
      BY <3>3 DEF One
    <3>. QED
      BY <2>8, <3>1, <3>2, <3>4
  <2>. QED
    BY <1>1, <2>1, <2>2, <2>8, <2>9, <2>10, NoOne DEF Owing
<1>. QED
  BY <1>0, <1>1, <1>8, <1>9, <1>11, <1>12, <1>13, FiledSame, ListedSame, GivingSame
     DEF RegistryInv, Listed

\* DropEntry, the one way or the other.
LEMMA DropEntryStep ==
  ASSUME RegistryInv, DropEntry
  PROVE  RegistryInv'
<1>1. At("entries") /\ UNCHANGED <<rc, owned, field, weak, fin, kept, host>>
  BY DEF DropEntry
<1>2. \/ work' = Tail(work)
      \/ \E k \in Object :
            /\ entry[Now.cell][k] # None
            /\ work' = Drops(<<entry[Now.cell][k]>>)
                       \o <<Call("entryDropped", Now.cell, k, None)>> \o work
  BY DEF DropEntry
<1>. QED
  BY <1>1, <1>2, EntriesEndStep, EntryDropsStep

\* An entry of a dropped map goes, once its value has.
LEMMA EntryDroppedStep ==
  ASSUME RegistryInv, EntryDropped
  PROVE  RegistryInv'
<1>0. /\ Types /\ TypeOK /\ Filed /\ Listed /\ Gone /\ Stacked /\ Separate
      /\ Counted /\ Giving /\ Plain /\ DroppingOK
      /\ NodesOnce /\ RefNodes /\ TargetNodes /\ TokenNodes /\ MapNodes
  BY Parts
<1>a. PICK m, k, t : m = Now.cell /\ k = Now.key /\ t = Tail(work)
  OBVIOUS
<1>1. /\ work # <<>> /\ Now.op = "entryDropped"
      /\ nodes' = Deregistered(nodes, k, Node("map", m))
      /\ entry' = [entry EXCEPT ![m][k] = None]
      /\ work' = t
      /\ UNCHANGED <<rc, owned, field, target, rec, cells, pending, queue, kept, phase,
                     cleaning, given, stopped>>
  BY <1>a DEF EntryDropped, At, Now, fin, host
<1>2. /\ 1 \in DOMAIN work /\ Now = work[1] /\ Now \in CallSet /\ Len(work) \in Nat
      /\ t \in Seq(CallSet) /\ Len(t) = Len(work) - 1 /\ DOMAIN work = 1 .. Len(work)
      /\ work = <<Now>> \o t
  BY <1>0, <1>1, <1>a, HeadIs
<1>3. /\ Len(work) = 2 /\ m \in WMap /\ k \in Object /\ entry[m][k] # None
      /\ work[2].op = "entries" /\ work[2].cell = m /\ Now.value = None
  <2>1. /\ 1 = Len(work) - 1 /\ work[1 + 1].op = "entries" /\ work[1 + 1].cell = m
        /\ m \in WMap /\ k \in Object /\ entry[m][k] # None
    <3>1. work[1].op = "entryDropped" /\ work[1].cell = m /\ work[1].key = k
      BY <1>1, <1>2, <1>a
    <3>. QED
      BY <1>0, <1>2, <3>1 DEF DroppingOK
  <2>2. Len(work) = 2 /\ 1 + 1 = 2
    BY <1>2, <2>1
  <2>3. Now.value = None
    BY <1>0, <1>1, <1>2 DEF Plain
  <2>. QED
    BY <2>1, <2>2, <2>3
<1>4. PICK b : b = work[2]
  OBVIOUS
<1>5. DOMAIN work = {1, 2} /\ DOMAIN t = {1} /\ t[1] = b /\ Len(t) = 1
  <2>1. 1 .. 2 = {1, 2} /\ 1 .. 1 = {1}
    OBVIOUS
  <2>2. DOMAIN work = {1, 2}
    BY <1>2, <1>3, <2>1, Zenon
  <2>3. Len(t) = 1
    BY <1>2, <1>3
  <2>4. DOMAIN t = 1 .. 1 /\ t[1] = b
    BY <1>0, <1>1, <1>2, <1>4, <1>a, <2>3, TailAt DEF Types
  <2>. QED
    BY <2>1, <2>2, <2>3, <2>4, Zenon
<1>6. b.op = "entries" /\ b.cell = m /\ b.value = None /\ b \in CallSet
  BY <1>0, <1>2, <1>3, <1>4, <1>5 DEF Plain, Types
<1>7. \A i \in DOMAIN work : (i = 1 /\ work[i] = Now) \/ (i = 2 /\ work[i] = b)
  BY <1>2, <1>4, <1>5
<1>8. \A n, o : (Spent(n, o) <=> n = m /\ o = k) /\ ~Spent(n, o)'
  <2>1. \A n, o : Spent(n, o) <=> n = m /\ o = k
    BY <1>1, <1>2, <1>6, <1>7, <1>a DEF Spent
  <2>2. \A n, o : ~Spent(n, o)'
    BY <1>1, <1>5, <1>6 DEF Spent
  <2>. QED
    BY <2>1, <2>2
<1>9. /\ nodes' \in [Object -> Seq(NodeSet)]
      /\ NodesOnce' /\ RefNodes' /\ TargetNodes' /\ TokenNodes'
      /\ \A u \in Object : nodes[u] = <<>> => nodes'[u] = <<>>
      /\ \A u \in Object : \A n : Has(nodes'[u], Node("map", n)) <=>
            Has(nodes[u], Node("map", n)) /\ ~(u = k /\ n = m)
  BY <1>0, <1>1, <1>3, MapNodeLeaves
<1>10. /\ entry' \in [WMap -> [Object -> Object \cup {Primitive, None}]] /\ entry'[m][k] = None
       /\ \A n \in WMap, o \in Object : <<n, o>> # <<m, k>> => entry'[n][o] = entry[n][o]
  BY <1>0, <1>1, <1>3 DEF TypeOK
<1>11. Stacked'
  <2>1. \A i \in DOMAIN t : Settled(t, i)
    BY <1>3, <1>5, <1>6 DEF Settled
  <2>. QED
    BY <1>1, <1>2, <2>1, BaseStacked
<1>12. Separate'
  <2>1. PICK z \in SUBSET Object : Apart(m, z)
    BY <1>0, <1>3, <1>4, <1>5, <1>6 DEF Separate
  <2>2. \A o \in Object, n \in WMap : entry'[n][o] = entry[n][o] \/ entry'[n][o] = None
    BY <1>3, <1>10
  <2>3. \A o \in Object : Follows(o)' \subseteq Follows(o)
    BY <1>1, <2>2, Kinds DEF Follows
  <2>4. Apart(m, z)'
    <3>1. \A o \in z : Follows(o)' \subseteq z /\ entry'[m][o] = None
      BY <1>3, <2>1, <2>2, <2>3 DEF Apart
    <3>2. \A o \in Object : entry'[m][o] \in z \cup {Primitive, None}
      BY <1>3, <2>1, <2>2 DEF Apart
    <3>. QED
      BY <3>1, <3>2 DEF Apart
  <2>5. Under(m, z)'
    BY <1>1, <1>5, <1>6 DEF Under
  <2>. QED
    BY <1>1, <1>5, <1>6, <2>4, <2>5 DEF Separate
<1>13. Types'
  BY <1>0, <1>1, <1>2, <1>9, <1>10 DEF Types, TypeOK
<1>14. MapNodes' /\ Gone'
  <2>0. \A i \in DOMAIN work : work[i].op \notin {"walk", "next", "deregister"}
    BY <1>1, <1>6, <1>7
  <2>1. \A u \in Object, n \in WMap : Has(nodes[u], Node("map", n)) <=> entry[n][u] # None
    BY <2>0, Calm DEF Leaves, CallsOn
  <2>2. \A u \in Object, n \in WMap : Has(nodes'[u], Node("map", n)) <=> entry'[n][u] # None
    BY <1>3, <1>9, <1>10, <2>1
  <2>3. \A u \in Object : rc'[u] = 0 => nodes'[u] = <<>>
    BY <1>1, <1>9, <2>0, Calm
  <2>4. \A w \in Ref : rc'[w] = 0 => target'[w] = None
    BY <1>0, <1>1 DEF Gone
  <2>. QED
    BY <2>2, <2>3, <2>4, CalmAgain
<1>15. Counted'
  <2>. SUFFICES ASSUME NEW c \in Cell PROVE rc'[c] = Owing(c)'
    BY DEF Counted
  <2>1. rc[c] = Roots(c) + Heap(c) + Stack(c)
    BY <1>0 DEF Counted, Owing
  <2>2. Roots(c)' = Roots(c) /\ Fields(c)' = Fields(c) /\ Helds(c)' = Helds(c)
    BY <1>1, SameTerms
  <2>3. /\ Entries(c)' + One(entry[m][k] = c /\ ~Spent(m, k))
             = Entries(c) + One(entry'[m][k] = c /\ ~Spent(m, k)')
        /\ Entries(c)' \in Nat
    <3>1. \A n \in WMap, o \in Object : <<n, o>> # <<m, k>> =>
             entry'[n][o] = entry[n][o] /\ (Spent(n, o)' <=> Spent(n, o))
      BY <1>8, <1>10
    <3>. QED
      BY <1>3, <3>1, EntryPut
  <2>4. One(entry[m][k] = c /\ ~Spent(m, k)) = 0
    BY <1>8 DEF One
  <2>5. One(entry'[m][k] = c /\ ~Spent(m, k)') = 0
    BY <1>10, Kinds DEF One
  <2>6. Entries(c) \in Nat
    BY <1>0, TermsNat
  <2>7. Heap(c)' = Heap(c)
    BY <2>2, <2>3, <2>4, <2>5, <2>6 DEF Heap
  <2>8. Stack(c)' = Stack(c)
    <3>1. Bears(work, c) = Bears(<<Now>>, c) + Bears(t, c) /\ Bears(t, c) \in Nat
      BY <1>0, <1>1, <1>a, BearsTail
    <3>2. Bears(<<Now>>, c) = 0
      BY <1>1, <1>2, <1>3, BearsOne, NoOne
    <3>. QED
      BY <1>1, <3>1, <3>2, StackBears
  <2>. QED
    BY <1>1, <2>1, <2>2, <2>7, <2>8 DEF Owing
<1>. QED
  BY <1>0, <1>1, <1>9, <1>11, <1>12, <1>13, <1>14, <1>15, FiledSame, GivingSame
     DEF RegistryInv, Listed

-----------------------------------------------------------------------------
(* A sweep under way.                                                      *)

\* The sweep is the head of a stack of drops.
LEMMA SweepIs ==
  ASSUME RegistryInv, At("sweep")
  PROVE  /\ work # <<>> /\ Now \in CallSet /\ Now.cell \in Reg /\ Now.key \in Object
         /\ Now.value = None /\ Now.op = "sweep"
         /\ \A i \in DOMAIN work : Sweeping(work[i], i)
         /\ \A i \in DOMAIN work : work[i].op \in {"drop", "sweep"}
         /\ \A m, k : ~Spent(m, k)
         /\ \A t \in Object : rc[t] = 0 => nodes[t] = <<>>
         /\ \A t \in Object, m \in WMap : Has(nodes[t], Node("map", m)) <=> entry[m][t] # None
         /\ \A c \in Cell : /\ rc[c] = Roots(c) + Heap(c) + Bears(work, c) /\ rc[c] \in Nat
                            /\ Roots(c) \in Nat /\ Heap(c) \in Nat /\ Bears(work, c) \in Nat
<1>0. Types /\ Plain /\ SweepsOK
  BY Parts
<1>1. work # <<>> /\ Now.op = "sweep"
  BY DEF At, Now
<1>2. 1 \in DOMAIN work /\ Now = work[1] /\ Now \in CallSet
  BY <1>0, <1>1, HeadIs
<1>3. /\ Now.cell \in Reg /\ Now.key \in Object /\ Now.value = None
      /\ \A j \in DOMAIN work : j # 1 => work[j].op = "drop" /\ work[j].cell \in Object
  BY <1>0, <1>1, <1>2 DEF SweepsOK, Plain
<1>4. \A i \in DOMAIN work : Sweeping(work[i], i)
  BY <1>0, <1>1, <1>2, <1>3 DEF Sweeping, ObjectDrop, Plain
<1>5. \A i \in DOMAIN work : work[i].op \in {"drop", "sweep"}
  BY <1>1, <1>2, <1>3
<1>6. \A m, k : ~Spent(m, k)
  BY <1>5 DEF Spent
<1>7. \A i \in DOMAIN work : work[i].op \notin {"walk", "next"}
  BY <1>5
<1>8. /\ \A t \in Object : rc[t] = 0 => nodes[t] = <<>>
      /\ \A t \in Object, m \in WMap : Has(nodes[t], Node("map", m)) <=> entry[m][t] # None
      /\ \A c \in Cell : /\ rc[c] = Roots(c) + Heap(c) + Bears(work, c) /\ rc[c] \in Nat
                         /\ Roots(c) \in Nat /\ Heap(c) \in Nat /\ Bears(work, c) \in Nat
  <2>1. \A m, t : ~Leaves(m, t)
    BY <1>5 DEF Leaves, CallsOn
  <2>. QED
    BY <1>7, <2>1, Calm
<1>. QED
  BY <1>1, <1>2, <1>3, <1>4, <1>5, <1>6, <1>8

\* SweepEnds: nothing is left to take, and what was held is released.
LEMMA SweepEndsStep ==
  ASSUME RegistryInv, SweepEnds
  PROVE  RegistryInv'
<1>0. /\ Types /\ TypeOK /\ Filed /\ Listed /\ Gone /\ Stacked /\ Separate
      /\ Counted /\ Giving
      /\ NodesOnce /\ RefNodes /\ TargetNodes /\ TokenNodes /\ MapNodes
  BY Parts
<1>a. PICK t : t = Tail(work)
  OBVIOUS
<1>1. /\ At("sweep") /\ work' = t
      /\ UNCHANGED <<rc, owned, field, nodes, target, entry, rec, cells, pending, queue, kept, phase,
                     cleaning, given, stopped>>
  BY <1>a DEF SweepEnds, weak, fin, host
<1>2. /\ work # <<>> /\ Now \in CallSet /\ Now.value = None /\ Now.op = "sweep"
      /\ \A i \in DOMAIN work : Sweeping(work[i], i)
      /\ \A m, k : ~Spent(m, k)
      /\ \A c \in Cell : /\ rc[c] = Roots(c) + Heap(c) + Bears(work, c)
                         /\ Roots(c) \in Nat /\ Heap(c) \in Nat /\ Bears(work, c) \in Nat
  BY <1>1, SweepIs
<1>3. /\ t \in Seq(CallSet) /\ DOMAIN t = 1 .. Len(work) - 1 /\ Len(work) \in Nat
      /\ DOMAIN work = 1 .. Len(work)
      /\ \A i \in 1 .. Len(work) - 1 : t[i] = work[i + 1]
  BY <1>0, <1>2, <1>a, TailAt DEF Types
<1>4. \A i \in DOMAIN t : Falls(t[i], i, Len(t))
  <2>1. \A i \in 1 .. Len(work) - 1 : i + 1 \in 1 .. Len(work) /\ i + 1 # 1
    BY <1>3
  <2>. QED
    BY <1>2, <1>3, <2>1 DEF Sweeping, Falls
<1>5. Stacked' /\ Separate' /\ \A m, k : ~Spent(m, k)'
  BY <1>1, <1>3, <1>4, FallStack
<1>6. Types'
  BY <1>0, <1>1, <1>3 DEF Types, TypeOK
<1>7. MapNodes' /\ Gone'
  <2>1. \A u \in Object, n \in WMap : Has(nodes'[u], Node("map", n)) <=> entry'[n][u] # None
    BY <1>1, SweepIs
  <2>2. \A u \in Object : rc'[u] = 0 => nodes'[u] = <<>>
    BY <1>1, SweepIs
  <2>3. \A w \in Ref : rc'[w] = 0 => target'[w] = None
    BY <1>0, <1>1 DEF Gone
  <2>. QED
    BY <2>1, <2>2, <2>3, CalmAgain
<1>8. Counted'
  <2>. SUFFICES ASSUME NEW c \in Cell PROVE rc'[c] = Owing(c)'
    BY DEF Counted
  <2>1. rc[c] = Roots(c) + Heap(c) + Bears(work, c)
    BY <1>2
  <2>2. Roots(c)' = Roots(c) /\ Fields(c)' = Fields(c) /\ Helds(c)' = Helds(c)
    BY <1>1, SameTerms
  <2>3. Entries(c)' = Entries(c)
    BY <1>1, <1>2, <1>5, EntriesSame
  <2>4. Heap(c)' = Heap(c)
    BY <2>2, <2>3 DEF Heap
  <2>5. Stack(c)' = Bears(work, c)
    <3>1. Bears(work, c) = Bears(<<Now>>, c) + Bears(t, c) /\ Bears(t, c) \in Nat
      BY <1>0, <1>2, <1>a, BearsTail
    <3>2. Bears(<<Now>>, c) = 0
      BY <1>2, BearsOne, NoOne
    <3>. QED
      BY <1>1, <3>1, <3>2, StackBears
  <2>. QED
    BY <1>1, <2>1, <2>2, <2>4, <2>5 DEF Owing
<1>. QED
  BY <1>0, <1>1, <1>5, <1>6, <1>7, <1>8, FiledSame, ListedSame, GivingSame DEF RegistryInv, Listed

\* A record is taken, and its value due behind what is.
LEMMA TakeCellStep ==
  ASSUME RegistryInv, At("sweep"), NEW r \in Record, rec'[r] = Unused,
         \A q \in Record : q # r => /\ rec'[q].held = rec[q].held /\ rec'[q].target = rec[q].target
                                    /\ rec'[q].token = rec[q].token,
         nodes' = Detached(nodes, {r}), work' = work \o Drops(<<rec[r].held>>),
         UNCHANGED <<rc, owned, field, target, entry, queue, kept, host>>,
         Filed', rec' \in [Record -> RecordSet], cells' \in [Reg -> Seq(Record)],
         pending' \in [Reg -> Seq(Record)]
  PROVE  RegistryInv'
<1>0. /\ Types /\ TypeOK /\ Filed /\ Listed /\ Gone /\ Stacked /\ Separate
      /\ Counted /\ Giving
      /\ NodesOnce /\ RefNodes /\ TargetNodes /\ TokenNodes /\ MapNodes
  BY Parts
<1>a. PICK h, d : h = rec[r].held /\ d = Drops(<<h>>)
  OBVIOUS
<1>1. /\ work' = work \o d
      /\ UNCHANGED <<rc, owned, field, target, entry, queue, kept, phase, cleaning, given, stopped>>
  BY <1>a DEF host
<1>2. /\ \A i \in DOMAIN work : Sweeping(work[i], i)
      /\ \A m, k : ~Spent(m, k)
      /\ \A c \in Cell : /\ rc[c] = Roots(c) + Heap(c) + Bears(work, c)
                         /\ Roots(c) \in Nat /\ Heap(c) \in Nat /\ Bears(work, c) \in Nat
      /\ work # <<>>
  BY SweepIs
<1>3. h \in Value
  BY <1>0, <1>a DEF Types, RecordSet
<1>4. d \in Seq(CallSet) /\ \A i \in DOMAIN d : ObjectDrop(d[i])
  <2>1. <<h>> \in Seq(Value)
    BY <1>3
  <2>. QED
    BY <1>a, <2>1, DropsFall
<1>5. work \in Seq(CallSet)
  BY <1>0 DEF Types
<1>6. PICK s \in Seq(CallSet) : s = work \o d
  <2>1. work \o d \in Seq(CallSet)
    BY <1>4, <1>5, ConcatAt
  <2>. QED
    BY <2>1
<1>7. \A i \in DOMAIN s : Sweeping(s[i], i)
  <2>1. /\ DOMAIN s = 1 .. Len(work) + Len(d) /\ Len(work) \in Nat /\ Len(d) \in Nat
        /\ DOMAIN work = 1 .. Len(work) /\ DOMAIN d = 1 .. Len(d)
        /\ \A i \in 1 .. Len(work) : s[i] = work[i]
        /\ \A i \in Len(work) + 1 .. Len(work) + Len(d) : s[i] = d[i - Len(work)]
    BY <1>4, <1>5, <1>6, ConcatAt
  <2>2. Len(work) > 0
    BY <1>2, <1>5
  <2>. SUFFICES ASSUME NEW i \in DOMAIN s PROVE Sweeping(s[i], i)
    OBVIOUS
  <2>3. CASE i \in 1 .. Len(work)
    BY <1>2, <2>1, <2>3
  <2>4. CASE i \notin 1 .. Len(work)
    <3>1. /\ i \in Len(work) + 1 .. Len(work) + Len(d) /\ i # 1
          /\ i - Len(work) \in 1 .. Len(d)
      BY <2>1, <2>2, <2>4
    <3>2. s[i] = d[i - Len(work)]
      BY <2>1, <3>1
    <3>3. ObjectDrop(s[i])
      BY <1>4, <2>1, <3>1, <3>2
    <3>. QED
      BY <3>1, <3>3 DEF Sweeping
  <2>. QED
    BY <2>3, <2>4
<1>8. Stacked' /\ Separate' /\ \A m, k : ~Spent(m, k)'
  BY <1>1, <1>6, <1>7, SweepStack
<1>9. /\ ListsOK(nodes')
      /\ NodesOnce' /\ RefNodes' /\ TargetNodes' /\ TokenNodes'
      /\ \A t \in Object : \A m : Has(nodes'[t], Node("map", m)) <=> Has(nodes[t], Node("map", m))
      /\ \A t \in Object : nodes[t] = <<>> => nodes'[t] = <<>>
  <2>1. PICK rs : rs = {r}
    OBVIOUS
  <2>2. /\ rs \in SUBSET Record /\ nodes' = Detached(nodes, rs) /\ target' = target
        /\ \A q \in rs : rec'[q].target = None /\ rec'[q].token = None
        /\ \A q \in Record \ rs : rec'[q].target = rec[q].target /\ rec'[q].token = rec[q].token
    BY <1>1, <2>1, UnusedIs
  <2>. QED
    BY <1>0, <2>2, DetachedLists
<1>10. Types'
  BY <1>0, <1>1, <1>6, <1>9 DEF Types, TypeOK, ListsOK
<1>11. MapNodes' /\ Gone'
  <2>1. \A t \in Object, m \in WMap : Has(nodes'[t], Node("map", m)) <=> entry'[m][t] # None
    BY <1>1, <1>9, SweepIs
  <2>2. \A t \in Object : rc'[t] = 0 => nodes'[t] = <<>>
    BY <1>1, <1>9, SweepIs
  <2>3. \A w \in Ref : rc'[w] = 0 => target'[w] = None
    BY <1>0, <1>1 DEF Gone
  <2>. QED
    BY <2>1, <2>2, <2>3, CalmAgain
<1>12. Counted'
  <2>. SUFFICES ASSUME NEW c \in Cell PROVE rc'[c] = Owing(c)'
    BY DEF Counted
  <2>1. /\ rc[c] = Roots(c) + Heap(c) + Bears(work, c)
        /\ Roots(c) \in Nat /\ Heap(c) \in Nat /\ Bears(work, c) \in Nat
    BY <1>2
  <2>2. Roots(c)' = Roots(c) /\ Fields(c)' = Fields(c)
    BY <1>1, SameTerms
  <2>3. Entries(c)' = Entries(c)
    BY <1>1, <1>2, <1>8, EntriesSame
  <2>4. /\ Helds(c)' + One(h = c) = Helds(c) + One(rec'[r].held = c)
        /\ Helds(c)' \in Nat
    BY <1>a, HeldPut
  <2>5. One(rec'[r].held = c) = 0
    BY UnusedIs, NoOne
  <2>6. Fields(c) \in Nat /\ Entries(c) \in Nat /\ Helds(c) \in Nat /\ One(h = c) \in Nat
    BY <1>0, TermsNat DEF One
  <2>7. Heap(c)' + One(h = c) = Heap(c) /\ Heap(c)' \in Nat
    BY <2>2, <2>3, <2>4, <2>5, <2>6 DEF Heap
  <2>8. Stack(c)' = Bears(work, c) + One(h = c)
    <3>1. Stack(c)' = Bears(s, c)
      BY <1>1, <1>6, StackBears
    <3>2. Bears(work \o d, c) = Bears(work, c) + Bears(d, c)
      BY <1>4, <1>5, BearsJoin
    <3>3. Bears(d, c) = One(c = h /\ c \in Object)
      BY <1>a, BearsValue
    <3>4. One(c = h /\ c \in Object) = One(h = c)
      BY <1>3, Kinds DEF One, Value
    <3>. QED
      BY <1>6, <3>1, <3>2, <3>3, <3>4
  <2>. QED
    BY <1>1, <2>1, <2>2, <2>6, <2>7, <2>8 DEF Owing
<1>13. Giving'
  BY <1>0, <1>1, GivingSame
<1>. QED
  BY <1>8, <1>9, <1>10, <1>11, <1>12, <1>13 DEF RegistryInv, Listed

\* SweepLive: a live record leaves its vector, the last taking its place.
LEMMA SweepLiveStep ==
  ASSUME RegistryInv, SweepLive
  PROVE  RegistryInv'
<1>0. /\ Types /\ TypeOK /\ Filed /\ Placed /\ LiveCells /\ DueCells
  BY Parts
<1>a. PICK f : f = Now.cell
  OBVIOUS
<1>1. PICK i \in DOMAIN cells[f] :
         /\ cells' = [cells EXCEPT ![f] = SwapRemoved(@, i)]
         /\ TakeCell(cells[f][i], Reindexed(rec, cells[f], i))
  BY <1>a DEF SweepLive
<1>2. At("sweep") /\ UNCHANGED <<rc, owned, field, target, entry, pending, queue, kept, host>>
  BY DEF SweepLive
<1>3. PICK r, rs : r = cells[f][i] /\ rs = Reindexed(rec, cells[f], i)
  OBVIOUS
<1>4. /\ rec' = [rs EXCEPT ![r] = Unused] /\ nodes' = Detached(nodes, {r})
      /\ work' = work \o Drops(<<rec[r].held>>)
  BY <1>1, <1>3 DEF TakeCell
<1>5. f \in Reg
  BY <1>2, <1>a, SweepIs
<1>6. r \in Record /\ rs \in [Record -> RecordSet]
  <2>1. PICK cs, out : cs = cells[f] /\ out = SwapRemoved(cs, i)
    OBVIOUS
  <2>2. cs[i] \in Record /\ rs \in [Record -> RecordSet]
    BY <1>0, <1>3, <1>5, <2>1, SwapAt
  <2>. QED
    BY <1>3, <2>1, <2>2
<1>7. /\ rec' \in [Record -> RecordSet] /\ rec'[r] = Unused
      /\ \A q \in Record : q # r => rec'[q] = rs[q]
  BY <1>4, <1>6, UnusedIs
<1>8. Taken(f, i, r, rs)
  BY <1>1, <1>3, <1>5, <1>7, UnusedIs DEF Taken
<1>9. /\ rec[r].state = "live" /\ rec[r].of = f /\ Alike(rs)
      /\ cells' \in [Reg -> Seq(Record)] /\ LiveCells'
      /\ \A q \in Record : q # r /\ LiveAt(q) => LiveAt(q)'
  BY <1>0, <1>8, SwapFiles
<1>10. UNCHANGED <<pending, queue, stopped, cleaning>>
  BY <1>2 DEF host
<1>11. \A q \in Record : rec[q].state # "live" => q # r /\ rec'[q] = rec[q]
  BY <1>7, <1>9 DEF Alike
<1>12. Placed'
  <2>. SUFFICES ASSUME NEW q \in Record
                PROVE  /\ rec'[q].state = "free" => rec'[q] = Unused
                       /\ rec'[q].state = "live" => LiveAt(q)'
                       /\ rec'[q].state = "pending" => Due(q)'
    BY DEF Placed, Unused
  <2>1. CASE q = r
    BY <1>7, <2>1, UnusedIs
  <2>2. CASE q # r
    <3>1. /\ rec[q].state = "free" => rec[q] = Unused
          /\ rec[q].state = "live" => LiveAt(q)
          /\ rec[q].state = "pending" => Due(q)
      BY <1>0 DEF Placed
    <3>2. rec'[q].state = rec[q].state
      BY <1>7, <1>9, <2>2 DEF Alike
    <3>3. Due(q) /\ rec'[q] = rec[q] => Due(q)'
      BY <1>10 DEF Due
    <3>. QED
      BY <1>9, <1>11, <2>2, <3>1, <3>2, <3>3
  <2>. QED
    BY <2>1, <2>2
<1>13. DueCells'
  <2>. SUFFICES ASSUME NEW g \in Reg, NEW j \in DOMAIN pending[g]
                PROVE  rec'[pending[g][j]].state = "pending" /\ rec'[pending[g][j]].of = g
    BY <1>10 DEF DueCells
  <2>1. /\ pending[g][j] \in Record /\ rec[pending[g][j]].state = "pending"
        /\ rec[pending[g][j]].of = g
    BY <1>0 DEF DueCells, Types
  <2>. QED
    BY <1>11, <2>1
<1>14. Filed'
  BY <1>0, <1>9, <1>10, <1>12, <1>13 DEF Filed
<1>15. \A q \in Record : q # r => /\ rec'[q].held = rec[q].held /\ rec'[q].target = rec[q].target
                                  /\ rec'[q].token = rec[q].token
  BY <1>7, <1>9 DEF Alike
<1>16. pending' \in [Reg -> Seq(Record)]
  BY <1>0, <1>10 DEF Types
<1>. QED
  BY <1>2, <1>4, <1>6, <1>7, <1>9, <1>14, <1>15, <1>16, TakeCellStep

\* One is taken out of a vector.
LEMMA OneLeft ==
  ASSUME NEW S, NEW s \in Seq(S), Once(s), NEW r, NEW K, K = S \ {r}
  PROVE  /\ Filter(s, K) \in Seq(S) /\ Once(Filter(s, K))
         /\ \A x : Has(Filter(s, K), x) <=> Has(s, x) /\ x # r
<1>1. Filter(s, K) \in Seq(S) /\ \A j \in DOMAIN Filter(s, K) : Filter(s, K)[j] \in K
  BY FilterSeq
<1>2. Once(Filter(s, K))
  BY FilterDistinct DEF Once
<1>3. ASSUME NEW j \in DOMAIN Filter(s, K) PROVE \E i \in DOMAIN s : Filter(s, K)[j] = s[i]
  BY FilterFrom
<1>4. ASSUME NEW i \in DOMAIN s, s[i] # r PROVE Has(Filter(s, K), s[i])
  <2>1. s[i] \in K
    BY <1>4
  <2>2. /\ Passed(s, K, i) \in DOMAIN Filter(s, K)
        /\ Filter(s, K)[Passed(s, K, i)] = s[i]
    BY <2>1, FilterKeeps, ZenonT(60)
  <2>. QED
    BY <2>2, Zenon DEF Has
<1>5. PICK out : out = Filter(s, K)
  OBVIOUS
<1>6. \A x : Has(out, x) => Has(s, x) /\ x # r
  BY <1>1, <1>3, <1>5 DEF Has
<1>7. \A x : Has(s, x) /\ x # r => Has(out, x)
  BY <1>4, <1>5 DEF Has
<1>. QED
  BY <1>1, <1>2, <1>5, <1>6, <1>7

\* SweepPending: a pending record leaves its vector.
LEMMA SweepPendingStep ==
  ASSUME RegistryInv, SweepPending
  PROVE  RegistryInv'
<1>0. /\ Types /\ TypeOK /\ Filed /\ Placed /\ LiveCells /\ DueCells
  BY Parts
<1>a. PICK f : f = Now.cell
  OBVIOUS
<1>1. PICK i \in DOMAIN pending[f] :
         /\ pending' = [pending EXCEPT ![f] = Filter(pending[f], Record \ {pending[f][i]})]
         /\ TakeCell(pending[f][i], rec)
  BY <1>a DEF SweepPending
<1>2. At("sweep") /\ UNCHANGED <<rc, owned, field, target, entry, cells, queue, kept, host>>
  BY DEF SweepPending
<1>3. PICK r, out : r = pending[f][i] /\ out = Filter(pending[f], Record \ {r})
  OBVIOUS
<1>4. /\ rec' = [rec EXCEPT ![r] = Unused] /\ nodes' = Detached(nodes, {r})
      /\ work' = work \o Drops(<<rec[r].held>>) /\ pending' = [pending EXCEPT ![f] = out]
  BY <1>1, <1>3 DEF TakeCell
<1>5. f \in Reg
  BY <1>2, <1>a, SweepIs
<1>6. /\ out \in Seq(Record) /\ Once(out)
      /\ \A x : Has(out, x) <=> Has(pending[f], x) /\ x # r
  <2>1. pending[f] \in Seq(Record) /\ Once(pending[f])
    BY <1>0, <1>5 DEF Types, Filed
  <2>2. PICK p, K : p = pending[f] /\ K = Record \ {r}
    OBVIOUS
  <2>3. p \in Seq(Record) /\ Once(p) /\ out = Filter(p, K)
    BY <1>3, <2>1, <2>2
  <2>4. /\ Filter(p, K) \in Seq(Record) /\ Once(Filter(p, K))
        /\ \A x : Has(Filter(p, K), x) <=> Has(p, x) /\ x # r
    BY <2>2, <2>3, OneLeft, ZenonT(60)
  <2>. QED
    BY <2>2, <2>3, <2>4
<1>7. Has(pending[f], r)
  BY <1>3 DEF Has
<1>8. /\ Filed' /\ r \in Record
      /\ pending' \in [Reg -> Seq(Record)] /\ rec' \in [Record -> RecordSet]
      /\ rec'[r] = Unused /\ \A q \in Record : q # r => rec'[q] = rec[q]
  <2>1. UNCHANGED <<cells, cleaning, queue, stopped>>
    BY <1>2 DEF host
  <2>. QED
    BY <1>0, <1>4, <1>5, <1>6, <1>7, <2>1, PendingTaken
<1>9. cells' \in [Reg -> Seq(Record)]
  BY <1>0, <1>2 DEF Types
<1>10. \A q \in Record : q # r => /\ rec'[q].held = rec[q].held /\ rec'[q].target = rec[q].target
                                  /\ rec'[q].token = rec[q].token
  BY <1>8
<1>. QED
  BY <1>2, <1>4, <1>8, <1>9, <1>10, TakeCellStep

\* All that a registry has: its live records, and its pending ones.
LEMMA AllOf ==
  ASSUME Types, Filed, NEW f \in Reg, NEW all, all = cells[f] \o pending[f]
  PROVE  /\ all \in Seq(Record) /\ Once(all)
         /\ \A q : Has(all, q) <=> Has(cells[f], q) \/ Has(pending[f], q)
<1>1. PICK s, t : s = cells[f] /\ t = pending[f]
  OBVIOUS
<1>2. s \in Seq(Record) /\ t \in Seq(Record) /\ all = s \o t
  BY <1>1 DEF Types
<1>3. /\ \A i \in DOMAIN s : rec[s[i]].state = "live" /\ rec[s[i]].idx = i
      /\ \A i \in DOMAIN t : rec[t[i]].state = "pending"
      /\ Once(t)
  BY <1>1 DEF Filed, LiveCells, DueCells
<1>4. PICK n, m : n = Len(s) /\ m = Len(t)
  OBVIOUS
<1>5. /\ all \in Seq(Record) /\ n \in Nat /\ m \in Nat /\ DOMAIN s = 1 .. n /\ DOMAIN t = 1 .. m
      /\ DOMAIN all = 1 .. n + m
      /\ \A i \in 1 .. n : all[i] = s[i]
      /\ \A i \in 1 .. m : all[n + i] = t[i]
      /\ \A i \in n + 1 .. n + m : all[i] = t[i - n]
  BY <1>2, <1>4, ConcatAt
<1>6. \A i \in 1 .. n + m : i \in 1 .. n \/ (i \in n + 1 .. n + m /\ i - n \in 1 .. m)
  BY <1>5
<1>9. \A i \in 1 .. n : rec[all[i]].state = "live" /\ rec[all[i]].idx = i
  <2>1. ASSUME NEW i \in 1 .. n PROVE rec[all[i]].state = "live" /\ rec[all[i]].idx = i
    <3>1. all[i] = s[i] /\ i \in DOMAIN s
      BY <1>5
    <3>2. rec[s[i]].state = "live" /\ rec[s[i]].idx = i
      BY <1>3, <3>1
    <3>. QED
      BY <3>1, <3>2
  <2>. QED
    BY <2>1
<1>10. \A i \in n + 1 .. n + m : i - n \in 1 .. m => all[i] = t[i - n] /\ rec[all[i]].state = "pending"
  <2>1. ASSUME NEW i \in n + 1 .. n + m, i - n \in 1 .. m
        PROVE  all[i] = t[i - n] /\ rec[all[i]].state = "pending"
    <3>1. all[i] = t[i - n] /\ i - n \in DOMAIN t
      BY <1>5, <2>1
    <3>2. rec[t[i - n]].state = "pending"
      BY <1>3, <3>1
    <3>. QED
      BY <3>1, <3>2
  <2>. QED
    BY <2>1
<1>11. \A i, j \in 1 .. m : t[i] = t[j] => i = j
  BY <1>3, <1>5 DEF Once
<1>7. Once(all)
  <2>. SUFFICES ASSUME NEW i \in 1 .. n + m, NEW j \in 1 .. n + m, all[i] = all[j] PROVE i = j
    BY <1>5 DEF Once
  <2>1. CASE i \in 1 .. n /\ j \in 1 .. n
    BY <1>9, <2>1
  <2>2. CASE i \in n + 1 .. n + m /\ i - n \in 1 .. m /\ j \in n + 1 .. n + m /\ j - n \in 1 .. m
    <3>1. i - n = j - n
      BY <1>10, <1>11, <2>2
    <3>. QED
      BY <1>5, <2>2, <3>1
  <2>3. CASE i \in 1 .. n /\ j \in n + 1 .. n + m /\ j - n \in 1 .. m
    BY <1>9, <1>10, <2>3
  <2>4. CASE j \in 1 .. n /\ i \in n + 1 .. n + m /\ i - n \in 1 .. m
    BY <1>9, <1>10, <2>4
  <2>. QED
    BY <1>6, <2>1, <2>2, <2>3, <2>4
<1>8. ASSUME NEW q PROVE Has(all, q) <=> Has(s, q) \/ Has(t, q)
  <2>1. \A i \in 1 .. n : i \in 1 .. n + m
    BY <1>5
  <2>2. \A i \in 1 .. m : n + i \in 1 .. n + m
    BY <1>5
  <2>3. Has(s, q) => Has(all, q)
    BY <1>5, <2>1 DEF Has
  <2>4. Has(t, q) => Has(all, q)
    BY <1>5, <2>2 DEF Has
  <2>5. Has(all, q) => Has(s, q) \/ Has(t, q)
    BY <1>5, <1>6 DEF Has
  <2>. QED
    BY <2>3, <2>4, <2>5
<1>. QED
  BY <1>1, <1>5, <1>7, <1>8

\* The held values, by the records of a list and by the list.
LEMMA HeldsOf ==
  ASSUME NEW all \in Seq(Record), Once(all), NEW c,
         NEW helds, helds = [i \in DOMAIN all |-> rec[all[i]].held]
  PROVE  Times(c, helds) = Cardinality({q \in Range(all) : rec[q].held = c})
<1>1. PICK I : I = {i \in DOMAIN all : rec[all[i]].held = c}
  OBVIOUS
<1>2. PICK T : T = {q \in Range(all) : rec[q].held = c}
  OBVIOUS
<1>3. IsFiniteSet(I)
  <2>1. DOMAIN all = 1 .. Len(all) /\ Len(all) \in Nat
    OBVIOUS
  <2>2. IsFiniteSet(1 .. Len(all))
    BY <2>1, FS_Interval
  <2>. QED
    BY <1>1, <2>1, <2>2, FS_Subset
<1>4. PICK g : g = [i \in I |-> all[i]]
  OBVIOUS
<1>5. g \in [I -> T]
  BY <1>1, <1>2, <1>4 DEF Range
<1>6. \A a, b \in I : g[a] = g[b] => a = b
  BY <1>1, <1>4 DEF Once
<1>7. \A t \in T : \E a \in I : g[a] = t
  BY <1>1, <1>2, <1>4 DEF Range
<1>8. Cardinality(T) = Cardinality(I)
  BY <1>3, <1>5, <1>6, <1>7, SameCount
<1>9. {i \in DOMAIN helds : helds[i] = c} = I
  BY <1>1
<1>. QED
  BY <1>2, <1>8, <1>9 DEF Times

\* RegistryDies: all its records are detached, and what they held is due.
LEMMA RegistryDiesStep ==
  ASSUME RegistryInv, NEW f \in Reg, RegistryDies(f)
  PROVE  RegistryInv'
<1>0. /\ Types /\ TypeOK /\ Filed /\ Listed /\ Gone /\ Stacked /\ Separate
      /\ Counted /\ Giving /\ Placed /\ LiveCells /\ DueCells
      /\ NodesOnce /\ RefNodes /\ TargetNodes /\ TokenNodes /\ MapNodes
  BY Parts
<1>a. PICK all : all = cells[f] \o pending[f]
  OBVIOUS
<1>b. PICK rs, helds : rs = Range(all) /\ helds = [i \in DOMAIN all |-> rec[all[i]].held]
  OBVIOUS
<1>c. PICK d : d = Drops(helds)
  OBVIOUS
<1>1. /\ Last1(f) /\ nodes' = Detached(nodes, rs)
      /\ rec' = [q \in Record |-> IF q \in rs THEN Unused ELSE rec[q]]
      /\ cells' = [cells EXCEPT ![f] = <<>>]
      /\ pending' = [pending EXCEPT ![f] = <<>>]
      /\ work' = d \o Tail(work)
      /\ stopped' = stopped \ {f}
      /\ UNCHANGED <<owned, field, target, entry, queue, kept, phase, cleaning, given>>
  BY <1>a, <1>b, <1>c DEF RegistryDies
<1>2. f \in Cell /\ f \notin Object
  BY Kinds
<1>3. /\ all \in Seq(Record) /\ Once(all)
      /\ \A q : Has(all, q) <=> Has(cells[f], q) \/ Has(pending[f], q)
  BY <1>0, <1>a, AllOf
<1>4. /\ rs \subseteq Record
      /\ \A q : q \in rs <=> Has(cells[f], q) \/ Has(pending[f], q)
  <2>1. rs = {all[i] : i \in DOMAIN all}
    BY <1>b DEF Range
  <2>2. rs \subseteq Record
    BY <1>3, <2>1
  <2>3. \A q : q \in rs <=> Has(all, q)
    BY <2>1 DEF Has
  <2>. QED
    BY <1>3, <2>2, <2>3
<1>5. \A q \in rs : rec[q].of = f
  BY <1>0, <1>4 DEF LiveCells, DueCells, Has
<1>6. helds \in Seq(Value) /\ d \in Seq(CallSet) /\ \A i \in DOMAIN d : ObjectDrop(d[i])
  <2>1. \A i \in DOMAIN all : rec[all[i]].held \in Value
    BY <1>0, <1>3 DEF Types, RecordSet
  <2>2. DOMAIN all = 1 .. Len(all) /\ Len(all) \in Nat
    BY <1>3
  <2>3. helds \in Seq(Value)
    BY <1>b, <2>1, <2>2
  <2>. QED
    BY <1>c, <2>3, DropsFall
<1>7. /\ rc' \in [Cell -> Nat] /\ rc'[f] = 0 /\ \A c \in Cell : c # f => rc'[c] = rc[c]
      /\ Tail(work) = <<>> /\ \A m, k : ~Spent(m, k)
  BY <1>1, <1>2, LastIs
<1>8. work' = d
  <2>1. d \o <<>> = d
    BY <1>6
  <2>2. Tail(work) = <<>> /\ work' = d \o Tail(work)
    BY <1>1, <1>7
  <2>. QED
    BY <2>1, <2>2
<1>9. Stacked' /\ Separate' /\ \A m, k : ~Spent(m, k)'
  <2>1. \A i \in DOMAIN d : Falls(d[i], i, Len(d))
    BY <1>6 DEF Falls
  <2>. QED
    BY <1>6, <1>8, <2>1, FallStack
<1>10. /\ rec' \in [Record -> RecordSet] /\ \A q \in rs : rec'[q] = Unused
       /\ \A q \in Record \ rs : rec'[q] = rec[q]
  BY <1>0, <1>1, <1>4, UnusedIs DEF Types
<1>11. /\ cells' \in [Reg -> Seq(Record)] /\ cells'[f] = <<>>
       /\ pending' \in [Reg -> Seq(Record)] /\ pending'[f] = <<>>
       /\ \A g \in Reg : g # f => cells'[g] = cells[g] /\ pending'[g] = pending[g]
  <2>1. <<>> \in Seq(Record)
    OBVIOUS
  <2>. QED
    BY <1>0, <1>1, <2>1 DEF Types
<1>12. /\ ListsOK(nodes')
       /\ NodesOnce' /\ RefNodes' /\ TargetNodes' /\ TokenNodes'
       /\ \A t \in Object : \A m : Has(nodes'[t], Node("map", m)) <=> Has(nodes[t], Node("map", m))
       /\ \A t \in Object : nodes[t] = <<>> => nodes'[t] = <<>>
  <2>1. /\ \A q \in rs : rec'[q].target = None /\ rec'[q].token = None
        /\ \A q \in Record \ rs : rec'[q].target = rec[q].target /\ rec'[q].token = rec[q].token
    BY <1>10, UnusedIs
  <2>2. rs \in SUBSET Record /\ target' = target
    BY <1>1, <1>4
  <2>. QED
    BY <1>0, <1>1, <2>1, <2>2, DetachedLists
<1>13. Types'
  <2>1. stopped' \subseteq Reg /\ work' \in Seq(CallSet)
    BY <1>0, <1>1, <1>6, <1>8 DEF TypeOK
  <2>. QED
    BY <1>0, <1>1, <1>7, <1>10, <1>11, <1>12, <2>1 DEF Types, TypeOK, ListsOK
<1>14. Filed'
  <2>1. Placed'
    <3>. SUFFICES ASSUME NEW q \in Record
                  PROVE  /\ rec'[q].state = "free" => rec'[q] = Unused
                         /\ rec'[q].state = "live" => LiveAt(q)'
                         /\ rec'[q].state = "pending" => Due(q)'
      BY DEF Placed, Unused
    <3>1. CASE q \in rs
      BY <1>10, <3>1, UnusedIs
    <3>2. CASE q \notin rs
      <4>1. /\ rec'[q] = rec[q]
            /\ rec[q].state = "free" => rec[q] = Unused
            /\ rec[q].state = "live" => LiveAt(q)
            /\ rec[q].state = "pending" => Due(q)
        BY <1>0, <1>10, <3>2 DEF Placed
      <4>2. LiveAt(q) => LiveAt(q)'
        <5>1. LiveAt(q) => rec[q].of # f
          BY <1>4, <3>2 DEF LiveAt, Has
        <5>. QED
          BY <1>11, <4>1, <5>1 DEF LiveAt
      <4>3. Due(q) => Due(q)'
        <5>1. Due(q) => rec[q].of # f
          BY <1>4, <3>2 DEF Due
        <5>. QED
          BY <1>1, <1>11, <4>1, <5>1 DEF Due
      <4>. QED
        BY <4>1, <4>2, <4>3
    <3>. QED
      BY <3>1, <3>2
  <2>2. LiveCells'
    <3>. SUFFICES ASSUME NEW g \in Reg, NEW j \in DOMAIN cells'[g]
                  PROVE  /\ rec'[cells'[g][j]].state = "live"
                         /\ rec'[cells'[g][j]].of = g /\ rec'[cells'[g][j]].idx = j
      BY DEF LiveCells
    <3>1. g # f
      BY <1>11
    <3>2. /\ cells'[g][j] = cells[g][j] /\ j \in DOMAIN cells[g] /\ cells[g][j] \in Record
          /\ rec[cells[g][j]].state = "live"
          /\ rec[cells[g][j]].of = g /\ rec[cells[g][j]].idx = j
      BY <1>0, <1>11, <3>1 DEF LiveCells, Types
    <3>. QED
      BY <1>5, <1>10, <3>1, <3>2
  <2>3. DueCells'
    <3>. SUFFICES ASSUME NEW g \in Reg, NEW j \in DOMAIN pending'[g]
                  PROVE  rec'[pending'[g][j]].state = "pending" /\ rec'[pending'[g][j]].of = g
      BY DEF DueCells
    <3>1. g # f
      BY <1>11
    <3>2. /\ pending'[g][j] = pending[g][j] /\ j \in DOMAIN pending[g] /\ pending[g][j] \in Record
          /\ rec[pending[g][j]].state = "pending" /\ rec[pending[g][j]].of = g
      BY <1>0, <1>11, <3>1 DEF DueCells, Types
    <3>. QED
      BY <1>5, <1>10, <3>1, <3>2
  <2>4. \A g \in Reg : Once(pending'[g])
    <3>1. Once(<<>>)
      BY DEF Once
    <3>. QED
      BY <1>0, <1>11, <3>1 DEF Filed
  <2>5. Once(queue')
    BY <1>0, <1>1 DEF Filed
  <2>. QED
    BY <2>1, <2>2, <2>3, <2>4, <2>5 DEF Filed
<1>15. MapNodes' /\ Gone'
  <2>1. \A t \in Object, m \in WMap : Has(nodes'[t], Node("map", m)) <=> entry'[m][t] # None
    BY <1>1, <1>2, <1>12, LastIs
  <2>2. \A t \in Object : rc'[t] = 0 => nodes'[t] = <<>>
    BY <1>1, <1>2, <1>12, LastIs
  <2>3. \A w \in Ref : rc'[w] = 0 => target'[w] = None
    BY <1>0, <1>1, <1>7, Kinds DEF Gone
  <2>. QED
    BY <2>1, <2>2, <2>3, CalmAgain
<1>16. Counted'
  <2>. SUFFICES ASSUME NEW c \in Cell PROVE rc'[c] = Owing(c)'
    BY DEF Counted
  <2>1. rc'[c] = Roots(c) + Heap(c) /\ Roots(c) \in Nat /\ Heap(c) \in Nat
    BY <1>1, <1>2, LastIs
  <2>2. Roots(c)' = Roots(c) /\ Fields(c)' = Fields(c)
    BY <1>1, SameTerms
  <2>3. Entries(c)' = Entries(c)
    BY <1>1, <1>7, <1>9, EntriesSame
  <2>4. Helds(c) = Helds(c)' + Times(c, helds) /\ Helds(c)' \in Nat /\ Times(c, helds) \in Nat
    <3>1. PICK A, B : /\ A = {q \in Record : rec'[q].held = c}
                      /\ B = {q \in rs : rec[q].held = c}
      OBVIOUS
    <3>2. IsFiniteSet(A) /\ IsFiniteSet(B)
      BY <1>4, <3>1, FiniteParts, FS_Subset
    <3>3. \A q \in rs : rec'[q].held # c
      BY <1>10, UnusedIs, Kinds
    <3>4. A \cap B = {} /\ {q \in Record : rec[q].held = c} = A \cup B
      BY <1>4, <1>10, <3>1, <3>3
    <3>5. /\ Cardinality(A) \in Nat /\ Cardinality(B) \in Nat
          /\ Cardinality(A \cup B) = Cardinality(A) + Cardinality(B)
      BY <3>2, <3>4, DisjointCount
    <3>6. Times(c, helds) = Cardinality(B)
      BY <1>3, <1>b, <3>1, HeldsOf
    <3>7. Helds(c) = Cardinality(A \cup B) /\ Helds(c)' = Cardinality(A)
      BY <3>1, <3>4 DEF Helds
    <3>. QED
      BY <3>5, <3>6, <3>7
  <2>5. Fields(c) \in Nat /\ Entries(c) \in Nat
    BY <1>0, TermsNat
  <2>6. Heap(c) = Heap(c)' + Times(c, helds) /\ Heap(c)' \in Nat
    BY <2>2, <2>3, <2>4, <2>5 DEF Heap
  <2>7. Stack(c)' = Times(c, helds)
    <3>1. Stack(c)' = IF c \in Object THEN Times(c, helds) ELSE 0
      BY <1>6, <1>8, <1>c, StackBears, BearsDrops
    <3>2. c \notin Object => Times(c, helds) = 0
      <4>1. c \notin Object => c \notin Value
        BY Kinds DEF Value
      <4>2. c \notin Object => \A i \in DOMAIN helds : helds[i] # c
        BY <1>6, <4>1
      <4>. QED
        BY <1>6, <4>2, TimesNat
    <3>. QED
      BY <3>1, <3>2
  <2>. QED
    BY <2>1, <2>2, <2>4, <2>6, <2>7 DEF Owing
<1>17. Giving'
  BY <1>0, <1>1, GivingSame
<1>. QED
  BY <1>9, <1>12, <1>13, <1>14, <1>15, <1>16, <1>17 DEF RegistryInv, Listed

-----------------------------------------------------------------------------
(* The invariant holds.                                                    *)

\* Nothing is there at first.
LEMMA InitHolds == Init => RegistryInv
<1>. SUFFICES ASSUME Init PROVE RegistryInv
  OBVIOUS
<1>1. /\ rc = [c \in Cell |-> 0] /\ owned = {} /\ field = [o \in Object |-> None]
      /\ nodes = [o \in Object |-> <<>>] /\ target = [w \in Ref |-> None]
      /\ entry = [m \in WMap |-> [o \in Object |-> None]]
      /\ rec = [r \in Record |-> Unused]
      /\ cells = [f \in Reg |-> <<>>] /\ pending = [f \in Reg |-> <<>>]
      /\ queue = <<>> /\ kept = <<>> /\ work = <<>> /\ phase = "job" /\ cleaning = None
      /\ given = Primitive /\ stopped = {}
  BY DEF Init
<1>2. DOMAIN <<>> = {} /\ \A S : <<>> \in Seq(S)
  OBVIOUS
<1>3. TypeOK
  BY <1>1, <1>2, Kinds, BoundAssumption DEF TypeOK
<1>4. Types
  <2>1. rec \in [Record -> RecordSet]
    BY <1>1, UnusedIs
  <2>. QED
    BY <1>1, <1>2, <1>3, <2>1 DEF Types
<1>5. Filed
  <2>1. Placed
    BY <1>1, UnusedIs DEF Placed
  <2>2. LiveCells /\ DueCells
    BY <1>1, <1>2 DEF LiveCells, DueCells
  <2>3. Once(queue) /\ \A f \in Reg : Once(pending[f])
    BY <1>1, <1>2 DEF Once
  <2>. QED
    BY <2>1, <2>2, <2>3 DEF Filed
<1>6. Listed
  <2>1. \A t \in Object : \A x : ~Has(nodes[t], x)
    BY <1>1, <1>2 DEF Has
  <2>2. NodesOnce
    BY <1>1, <1>2 DEF NodesOnce, Once
  <2>3. RefNodes
    BY <1>1, <2>1, Kinds DEF RefNodes
  <2>4. TargetNodes /\ TokenNodes
    BY <1>1, <2>1, UnusedIs, Kinds DEF TargetNodes, TokenNodes
  <2>5. MapNodes
    BY <1>1, <2>1 DEF MapNodes
  <2>. QED
    BY <2>2, <2>3, <2>4, <2>5 DEF Listed
<1>7. Gone
  BY <1>1 DEF Gone, Vacant
<1>8. DOMAIN work = {}
  BY <1>1, <1>2
<1>9. Stacked
  BY <1>8 DEF Stacked, Plain, DropsOK, WalksOK, NextsOK, EntriesOK, DroppingOK, StoresOK,
              LeavingOK, SweepsOK, OneWalk
<1>10. Separate
  BY <1>8 DEF Separate
<1>11. Counted
  <2>. SUFFICES ASSUME NEW c \in Cell PROVE Owing(c) = 0
    BY <1>1 DEF Counted
  <2>0. c # None /\ c # Primitive
    BY Kinds
  <2>1. Roots(c) = 0
    <3>1. Own(c) = 0 /\ Cleans(c) = 0 /\ Gives(c) = 0
      BY <1>1, <2>0 DEF Own, Cleans, Gives, One
    <3>2. Times(c, <<>>) = 0
      BY <1>2, TimesNat
    <3>. QED
      BY <1>1, <3>1, <3>2 DEF Roots, Keeps, Queues
  <2>2. Heap(c) = 0
    <3>1. {o \in Object : field[o] = c} = {}
      BY <1>1, <2>0
    <3>2. {mk \in WMap \X Object : entry[mk[1]][mk[2]] = c /\ ~Spent(mk[1], mk[2])} = {}
      BY <1>1, <2>0
    <3>3. {r \in Record : rec[r].held = c} = {}
      BY <1>1, <2>0, UnusedIs
    <3>4. Cardinality({}) = 0
      BY FS_EmptySet
    <3>5. Fields(c) = 0
      BY <3>1, <3>4, Zenon DEF Fields
    <3>6. Entries(c) = 0
      BY <3>2, <3>4, Zenon DEF Entries
    <3>7. Helds(c) = 0
      BY <3>3, <3>4, Zenon DEF Helds
    <3>. QED
      BY <3>5, <3>6, <3>7 DEF Heap
  <2>3. Stack(c) = 0
    BY <1>1, StackBears, BearsParts
  <2>. QED
    BY <2>1, <2>2, <2>3 DEF Owing
<1>12. Giving
  BY <1>1 DEF Giving
<1>. QED
  BY <1>4, <1>5, <1>6, <1>7, <1>9, <1>10, <1>11, <1>12 DEF RegistryInv

\* A step of others changes nothing.
LEMMA StutterHolds == RegistryInv /\ UNCHANGED vars => RegistryInv'
<1>. SUFFICES ASSUME RegistryInv, UNCHANGED vars PROVE RegistryInv'
  OBVIOUS
<1>0. /\ Types /\ TypeOK /\ Filed /\ Listed /\ Gone /\ Stacked /\ Separate
      /\ Counted /\ Giving
      /\ NodesOnce /\ RefNodes /\ TargetNodes /\ TokenNodes /\ MapNodes
  BY Parts
<1>1. UNCHANGED <<rc, owned, field, nodes, target, entry, rec, cells, pending, queue, kept, work,
                  phase, cleaning, given, stopped>>
  BY DEF vars, weak, fin, host
<1>2. Types'
  BY <1>0, <1>1 DEF Types, TypeOK
<1>3. MapNodes'
  BY <1>0, <1>1, MapNodesSame
<1>4. Gone'
  BY <1>0, <1>1, GoneSame
<1>5. Stacked'
  <2>1. Plain' /\ DropsOK' /\ WalksOK' /\ NextsOK'
    BY <1>1, Parts DEF Plain, DropsOK, WalksOK, NextsOK
  <2>2. EntriesOK' /\ DroppingOK' /\ StoresOK'
    BY <1>1, Parts DEF EntriesOK, DroppingOK, StoresOK
  <2>3. LeavingOK' /\ SweepsOK' /\ OneWalk'
    BY <1>1, Parts DEF LeavingOK, SweepsOK, OneWalk
  <2>. QED
    BY <2>1, <2>2, <2>3 DEF Stacked
<1>6. Separate'
  BY <1>0, <1>1 DEF Separate, Apart, Under, Follows
<1>7. Counted'
  <2>1. \A c : Roots(c)' = Roots(c) /\ Heap(c)' = Heap(c) /\ Values(c)' = Values(c) /\ Owed(c)' = Owed(c)
    BY <1>1, SameTerms
  <2>2. \A c \in Cell : rc[c] = Owing(c)
    BY <1>0 DEF Counted
  <2>3. \A c : Owing(c)' = Owing(c)
    BY <2>1 DEF Owing, Stack
  <2>. QED
    BY <1>1, <2>2, <2>3 DEF Counted
<1>. QED
  BY <1>0, <1>1, <1>2, <1>3, <1>4, <1>5, <1>6, <1>7, FiledSame, ListedSame, GivingSame
     DEF RegistryInv, Listed

\* Every action keeps the invariant, if no map is dropped that loops.
LEMMA NextHolds ==
  ASSUME ~Loops, RegistryInv, Next
  PROVE  RegistryInv'
<1>0. Key \subseteq Object /\ Held \subseteq Object /\ Token \subseteq Object
  BY RoleAssumption
<1>1. CASE Program
  <2>1. CASE \E c \in Cell : New(c) \/ Release(c)
    BY <2>1, NewStep, ReleaseStep
  <2>2. CASE \E o, p \in Object : Link(o, p)
    BY <2>2, LinkStep
  <2>3. CASE \E w \in Ref, t \in Object : RefCreate(w, t)
    BY <2>3, RefCreateStep
  <2>4. CASE \E w \in Ref : Deref(w)
    BY <2>4, DerefStep
  <2>5. CASE \E m \in WMap, k \in Key, v \in Held \cup {Primitive} : MapSet(m, k, v)
    <3>1. PICK m \in WMap, k \in Object, v \in Value : MapSet(m, k, v)
      BY <1>0, <2>5 DEF Value
    <3>. QED
      BY <3>1, EntryMadeStep, OverwriteStep
  <2>6. CASE \E m \in WMap, k \in Key : MapGet(m, k) \/ MapDelete(m, k)
    BY <1>0, <2>6, MapGetStep, MapDeleteStep
  <2>7. CASE \E f \in Reg, t \in Object, h \in Held \cup {Primitive}, k \in Token \cup {None} :
                Register(f, t, h, k)
    <3>1. PICK f \in Reg, t \in Object, h \in Value, k \in Word : Register(f, t, h, k)
      BY <1>0, <2>7 DEF Value, Word
    <3>. QED
      BY <3>1, RegisterStep
  <2>8. CASE \E f \in Reg, k \in Token : Unregister(f, k)
    BY <1>0, <2>8, UnregisterStep
  <2>. QED
    BY <1>1, <2>1, <2>2, <2>3, <2>4, <2>5, <2>6, <2>7, <2>8 DEF Program
<1>2. CASE Cascade
  <2>1. CASE DropShared
    BY <2>1, DropSharedObject, DropSharedBase
  <2>2. CASE \E o \in Object : ObjectDies(o)
    BY <2>2, ObjectDiesStep
  <2>3. CASE \E w \in Ref : RefDies(w)
    BY <2>3, RefDiesStep
  <2>4. CASE \E m \in WMap : MapDies(m)
    BY <2>4, MapDiesStep
  <2>5. CASE \E f \in Reg : RegistryDies(f)
    BY <2>5, RegistryDiesStep
  <2>6. CASE SweepLive \/ SweepPending \/ SweepEnds
    BY <2>6, SweepLiveStep, SweepPendingStep, SweepEndsStep
  <2>7. CASE DropEntry \/ EntryDropped \/ Store \/ Deregister
    BY <2>7, DropEntryStep, EntryDroppedStep, StoreStep, DeregisterStep
  <2>8. CASE ClearRef \/ InvalidateKey \/ NextNode \/ TargetDied \/ TokenDied \/ WalkEnds
    BY <2>8, ClearRefStep, InvalidateKeyStep, NextNodeStep, TargetDiedStep, TokenDiedStep,
       WalkEndsStep
  <2>. QED
    BY <1>2, <2>1, <2>2, <2>3, <2>4, <2>5, <2>6, <2>7, <2>8 DEF Cascade
<1>3. CASE Host
  <2>1. CASE EndJob \/ NextJob \/ QueuePop
    BY <2>1, EndJobStep, NextJobStep, QueuePopStep
  <2>2. CASE TakePending \/ CallbackReturns
    BY <2>2, TakePendingStep, CallbackReturnsStep
  <2>3. CASE NothingPending \/ CallbackThrows
    BY <2>3, HostEndsStep
  <2>. QED
    BY <1>3, <2>1, <2>2, <2>3 DEF Host
<1>. QED
  BY <1>1, <1>2, <1>3 DEF Next

(* RegistryInv holds of every behaviour, for any objects, containers and    *)
(* records, as long as no WeakMap is dropped one of whose values holds one  *)
(* of its keys: then a value may be released twice (ReleasedOnce).          *)
THEOREM RegistryHolds ==
  ASSUME ~Loops
  PROVE  Spec => []RegistryInv
<1>1. Init => RegistryInv
  BY InitHolds
<1>2. RegistryInv /\ [Next]_vars => RegistryInv'
  BY NextHolds, StutterHolds
<1>. QED
  BY <1>1, <1>2, PTL DEF Spec

-----------------------------------------------------------------------------
(* What it says of the properties.                                         *)

\* The terms of the sum in the order of the property.
LEMMA SumOrder ==
  ASSUME NEW a \in Nat, NEW b \in Nat, NEW c \in Nat, NEW d \in Nat, NEW e \in Nat,
         NEW f \in Nat, NEW g \in Nat, NEW h \in Nat, NEW i \in Nat, NEW j \in Nat
  PROVE  (a + e + f + g + h) + (b + c + d) + (i + j) = a + b + c + d + e + f + g + h + i + j
  OBVIOUS

(* Every count is the number of those who hold the cell, in every cascade   *)
(* of deaths: nothing is released twice, nothing leaks.                     *)
THEOREM OwnersCounted ==
  ASSUME ~Loops
  PROVE  Spec => []CountsOwners
<1>1. RegistryInv => CountsOwners
  <2>. SUFFICES ASSUME RegistryInv PROVE CountsOwners
    OBVIOUS
  <2>1. Types /\ TypeOK /\ Counted
    BY Parts
  <2>2. ASSUME NEW c \in Cell
        PROVE  rc[c] = Own(c) + Fields(c) + Entries(c) + Helds(c) + Keeps(c) + Queues(c)
                       + Cleans(c) + Gives(c) + Owed(c) + Values(c)
    <3>1. /\ Own(c) \in Nat /\ Fields(c) \in Nat /\ Entries(c) \in Nat
          /\ Helds(c) \in Nat /\ Keeps(c) \in Nat /\ Queues(c) \in Nat
          /\ Cleans(c) \in Nat /\ Gives(c) \in Nat /\ Owed(c) \in Nat /\ Values(c) \in Nat
      BY <2>1, TermsNat
    <3>2. rc[c] = (Own(c) + Keeps(c) + Queues(c) + Cleans(c) + Gives(c))
                  + (Fields(c) + Entries(c) + Helds(c)) + (Owed(c) + Values(c))
      BY <2>1 DEF Counted, Owing, Roots, Heap, Stack
    <3>. HIDE DEF Own, Fields, Entries, Helds, Keeps, Queues, Cleans, Gives, Owed, Values
    <3>. QED
      BY <3>1, <3>2, SumOrder
  <2>. QED
    BY <2>1, <2>2 DEF CountsOwners, Own, Fields, Entries, Helds, Keeps, Queues, Cleans, Gives,
                      Owed, Values
<1>. QED
  BY <1>1, RegistryHolds, PTL

(* Observers and the lists of what they observe agree: nothing outlives     *)
(* what it names, and no observer is forgotten.                             *)
THEOREM RegistriesAgree ==
  ASSUME ~Loops
  PROVE  Spec => []RegistryAgrees
<1>1. RegistryInv => RegistryAgrees
  <2>. SUFFICES ASSUME RegistryInv, NEW t \in Object, ~Walked(t)
                PROVE  /\ \A node \in Observers(t) : Times(node, nodes[t]) = 1
                       /\ Range(nodes[t]) \subseteq Observers(t) \cup Leaving(t)
                       /\ rc[t] = 0 => Observers(t) = {}
    BY DEF RegistryAgrees
  <2>0. /\ Types /\ Gone /\ NodesOnce /\ RefNodes /\ TargetNodes /\ TokenNodes /\ MapNodes
    BY Parts
  <2>1. ~Calls(work, "walk", t) /\ ~Calls(work, "next", t)
    BY DEF Walked, Calls
  <2>2. nodes[t] \in Seq(NodeSet) /\ Once(nodes[t])
    BY <2>0 DEF Types, NodesOnce
  <2>3. \A node \in Observers(t) : Has(nodes[t], node)
    BY <2>0 DEF Observers, RefNodes, TargetNodes, TokenNodes, MapNodes
  <2>4. \A node \in Observers(t) : Times(node, nodes[t]) = 1
    <3>. SUFFICES ASSUME NEW node \in Observers(t) PROVE Times(node, nodes[t]) = 1
      OBVIOUS
    <3>1. \E i \in DOMAIN nodes[t] : nodes[t][i] = node
      BY <2>3 DEF Has
    <3>2. PICK s : s = nodes[t]
      OBVIOUS
    <3>3. Times(node, s) = One(\E i \in DOMAIN s : s[i] = node)
      BY <2>2, <3>2, TimesOnce
    <3>. QED
      BY <3>1, <3>2, <3>3 DEF One
  <2>5. ASSUME NEW i \in DOMAIN nodes[t] PROVE nodes[t][i] \in Observers(t) \cup Leaving(t)
    <3>1. PICK n \in NodeSet : n = nodes[t][i]
      BY <2>2
    <3>2. Has(nodes[t], n)
      BY <3>1 DEF Has
    <3>3. CASE n.kind = "ref" /\ n.owner \in Ref /\ n = Node("ref", n.owner)
      BY <2>0, <3>1, <3>2, <3>3 DEF RefNodes, Observers
    <3>4. CASE n.kind = "map" /\ n.owner \in WMap /\ n = Node("map", n.owner)
      <4>1. entry[n.owner][t] # None \/ Leaves(n.owner, t)
        BY <2>0, <2>1, <3>2, <3>4 DEF MapNodes, Nexts
      <4>2. entry[n.owner][t] # None => n \in Observers(t)
        BY <3>4 DEF Observers
      <4>3. Leaves(n.owner, t) => n \in Leaving(t)
        BY <3>4 DEF Leaves, CallsOn, Leaving
      <4>. QED
        BY <3>1, <4>1, <4>2, <4>3
    <3>5. CASE n.kind = "target" /\ n.owner \in Record /\ n = Node("target", n.owner)
      BY <2>0, <3>1, <3>2, <3>5 DEF TargetNodes, Observers
    <3>6. CASE n.kind = "token" /\ n.owner \in Record /\ n = Node("token", n.owner)
      BY <2>0, <3>1, <3>2, <3>6 DEF TokenNodes, Observers
    <3>. QED
      BY <3>3, <3>4, <3>5, <3>6, NodeKinds
  <2>6. rc[t] = 0 => Observers(t) = {}
    <3>1. rc[t] = 0 => nodes[t] = <<>>
      BY <2>0, <2>1 DEF Gone, Vacant
    <3>2. \A x : ~Has(<<>>, x)
      BY DEF Has
    <3>. QED
      BY <2>3, <3>1, <3>2
  <2>. QED
    BY <2>4, <2>5, <2>6 DEF Range
<1>. QED
  BY <1>1, RegistryHolds, PTL

(* A record is where its index says, and a registry with pending records    *)
(* is queued, being drained, or stopped by a throw.                         *)
THEOREM RecordsAreFiled ==
  ASSUME ~Loops
  PROVE  Spec => []RecordsFiled
<1>1. RegistryInv => RecordsFiled
  <2>. SUFFICES ASSUME RegistryInv PROVE RecordsFiled
    OBVIOUS
  <2>0. Types /\ TypeOK /\ Filed /\ Placed /\ LiveCells /\ DueCells
    BY Parts
  <2>1. \A s, x : x \in Range(s) <=> Has(s, x)
    BY DEF Range, Has
  <2>2. ASSUME NEW r \in Record
        PROVE  /\ rec[r].state = "live" =>
                     /\ rec[r].idx \in DOMAIN cells[rec[r].of]
                     /\ cells[rec[r].of][rec[r].idx] = r
               /\ rec[r].state = "pending" =>
                     /\ r \in Range(pending[rec[r].of])
                     /\ cleaning = rec[r].of \/ rec[r].of \in Range(queue) \cup stopped
    BY <2>0, <2>1 DEF Placed, LiveAt, Due
  <2>3. ASSUME NEW f \in Reg
        PROVE  /\ \A i \in DOMAIN cells[f] : rec[cells[f][i]].state = "live"
               /\ \A i \in DOMAIN pending[f] : rec[pending[f][i]].state = "pending"
               /\ Times(f, queue) <= 1
    <3>1. Times(f, queue) = One(\E i \in DOMAIN queue : queue[i] = f)
      BY <2>0, TimesOnce DEF TypeOK, Filed
    <3>2. Times(f, queue) <= 1
      BY <3>1 DEF One
    <3>. QED
      BY <2>0, <3>2 DEF LiveCells, DueCells
  <2>. QED
    BY <2>2, <2>3 DEF RecordsFiled
<1>. QED
  BY <1>1, RegistryHolds, PTL

(* Without such maps, no drop meets a count that is already zero.           *)
THEOREM ReleasedOnceOnly ==
  ASSUME ~Loops
  PROVE  Spec => []ReleasedOnce
<1>1. RegistryInv => ReleasedOnce
  <2>. SUFFICES ASSUME RegistryInv, At("drop") PROVE rc[Now.cell] > 0
    BY DEF ReleasedOnce
  <2>1. Types /\ Counted /\ Plain
    BY Parts
  <2>2. work # <<>> /\ Now.op = "drop"
    BY DEF At, Now
  <2>3. 1 \in DOMAIN work /\ Now = work[1]
    BY <2>1, <2>2, HeadIs
  <2>4. rc[Now.cell] \in Nat \ {0}
    BY <2>1, <2>2, <2>3, Alive
  <2>. QED
    BY <2>4
<1>. QED
  BY <1>1, RegistryHolds, PTL

\* What the list keeps is alive, and only the walk of the dead clears a WeakRef.
LEMMA SeenStaysStep ==
  ASSUME RegistryInv, [Next]_vars, NEW w \in Ref, target[w] \in Range(kept)
  PROVE  target'[w] = target[w] \/ rc'[w] = 0
<1>0. Types /\ TypeOK /\ Gone /\ Counted /\ Plain /\ WalksOK /\ NodesOnce /\ RefNodes
  BY Parts
<1>1. target[w] \in Object /\ rc[target[w]] # 0
  <2>1. PICK i \in DOMAIN kept : kept[i] = target[w]
    BY DEF Range
  <2>. QED
    BY <1>0, <2>1, Alive DEF TypeOK
<1>2. ASSUME NEW v \in Ref, NEW t \in Object, RefCreate(v, t) PROVE target'[w] = target[w]
  <2>1. rc[v] = 0 /\ target' = [target EXCEPT ![v] = t]
    BY <1>2 DEF RefCreate
  <2>2. v # w
    BY <1>0, <1>1, <2>1, Kinds DEF Gone
  <2>. QED
    BY <1>0, <2>1, <2>2 DEF TypeOK
<1>3. ASSUME NEW v \in Ref, RefDies(v) PROVE target'[w] = target[w] \/ rc'[w] = 0
  <2>1. target' = [target EXCEPT ![v] = None] /\ rc' = [rc EXCEPT ![v] = 0]
    BY <1>3 DEF RefDies, Last1
  <2>. QED
    BY <1>0, <2>1, Kinds DEF TypeOK
<1>4. ASSUME ClearRef PROVE target'[w] = target[w]
  <2>1. PICK o, h : o = Now.cell /\ h = Head(nodes[o])
    OBVIOUS
  <2>2. /\ work # <<>> /\ Now.op = "walk" /\ nodes[o] # <<>> /\ h.kind = "ref"
        /\ target' = [target EXCEPT ![h.owner] = None]
    BY <1>4, <2>1 DEF ClearRef, Meets, Observer, At, Now
  <2>3. o \in Object /\ rc[o] = 0
    <3>1. 1 \in DOMAIN work /\ Now = work[1]
      BY <1>0, <2>2, HeadIs
    <3>. QED
      BY <1>0, <2>1, <2>2, <3>1 DEF WalksOK
  <2>4. h \in NodeSet /\ Has(nodes[o], h)
    <3>1. nodes[o] \in Seq(NodeSet) /\ Once(nodes[o])
      BY <1>0, <2>3 DEF Types, NodesOnce
    <3>. QED
      BY <2>1, <2>2, <3>1, NodeFreed
  <2>5. h.owner \in Ref /\ h = Node("ref", h.owner)
    BY <2>2, <2>4, NodeKinds
  <2>6. target[h.owner] = o
    BY <1>0, <2>3, <2>4, <2>5 DEF RefNodes
  <2>7. h.owner # w
    BY <1>1, <2>3, <2>6
  <2>. QED
    BY <1>0, <2>2, <2>7 DEF TypeOK
<1>5. CASE Program
  <2>1. \/ UNCHANGED target
        \/ \E v \in Ref, t \in Object : RefCreate(v, t)
    BY <1>5 DEF Program, New, Release, Link, Deref, MapSet, MapGet, MapDelete, Register,
                Unregister, weak
  <2>. QED
    BY <1>2, <2>1
<1>6. CASE Cascade
  <2>1. \/ UNCHANGED target
        \/ ClearRef
        \/ \E v \in Ref : RefDies(v)
    BY <1>6 DEF Cascade, DropShared, ObjectDies, MapDies, RegistryDies, SweepLive, SweepPending,
                SweepEnds, DropEntry, EntryDropped, Store, Deregister, InvalidateKey, NextNode,
                TargetDied, TokenDied, WalkEnds, weak
  <2>. QED
    BY <1>3, <1>4, <2>1
<1>7. CASE Host \/ UNCHANGED vars
  <2>1. UNCHANGED target
    BY <1>7 DEF Host, EndJob, NextJob, QueuePop, TakePending, CallbackReturns, NothingPending,
                CallbackThrows, DrainEnds, weak, vars
  <2>. QED
    BY <2>1
<1>. QED
  BY <1>5, <1>6, <1>7 DEF Next

(* A target made or seen in a job answers until the job ends, whatever the  *)
(* job drops.                                                               *)
THEOREM SeenAnswers ==
  ASSUME ~Loops
  PROVE  Spec => SeenStays
<1>1. RegistryInv /\ [Next]_vars =>
        [kept' # <<>> =>
           \A w \in Ref : target[w] \in Range(kept) =>
                            target'[w] = target[w] \/ rc'[w] = 0]_vars
  BY SeenStaysStep
<1>. QED
  BY <1>1, RegistryHolds, PTL DEF Spec, SeenStays

=============================================================================
