---------------------- MODULE RejectionTracker_proofs ----------------------
(***************************************************************************)
(* Every entry owns its cell, and the list reports what is owed, for every *)
(* set of promises and every first capacity.  The invariant splits into    *)
(* the lists, whose entries are all different, and the heap, whose counts  *)
(* are the names and the entries; a step that moves a reference moves it   *)
(* in both.                                                                *)
(***************************************************************************)
EXTENDS RejectionTracker, Filtering_proofs

Distinct(s) == \A i, n \in DOMAIN s : s[i] = s[n] => i = n
Listed == Entries(list) \cup Entries(swept)

ListsOK ==
    /\ list \in Seq(Promise) /\ swept \in Seq(Promise)
    /\ cap \in Nat /\ Len(list) <= cap
    /\ Distinct(list) /\ Distinct(swept)
    /\ Entries(list) \cap Entries(swept) = {}

HeapOK ==
    /\ st \in [Promise -> {"free", "pending", "rejected"}]
    /\ rc \in [Promise -> Nat]
    /\ named \subseteq Promise /\ Listed \subseteq Promise
    /\ \A p \in Promise : rc[p] = One(p \in named) + One(p \in Listed)
    /\ \A p \in Listed : st[p] = "rejected"
    /\ \A p \in named : st[p] # "free"

PhaseOK ==
    /\ handled \in [Promise -> BOOLEAN]
    /\ listener \in BOOLEAN /\ occurred \in BOOLEAN
    /\ told \in Promise \cup {Nobody}
    /\ phase \in {"running", "sweeping", "listener", "over"}
    /\ phase = "running" => swept = <<>>
    /\ phase = "listener" => swept # <<>>

Inv == ListsOK /\ HeapOK /\ PhaseOK

-----------------------------------------------------------------------------
(* The lists.                                                              *)

\* The first entry leaves, and it was the only one of its promise.
LEMMA TailEntries ==
    ASSUME NEW s \in Seq(Promise), s # <<>>, Distinct(s)
    PROVE  /\ Head(s) \in Promise /\ Head(s) \in Entries(s)
           /\ Tail(s) \in Seq(Promise) /\ Distinct(Tail(s))
           /\ Entries(Tail(s)) = Entries(s) \ {Head(s)}
<1>1. /\ Len(s) \in Nat \ {0} /\ DOMAIN s = 1 .. Len(s) /\ Head(s) = s[1]
      /\ Tail(s) \in Seq(Promise) /\ DOMAIN Tail(s) = 1 .. Len(s) - 1
      /\ \A i \in 1 .. Len(s) - 1 : Tail(s)[i] = s[i + 1]
  OBVIOUS
<1>2. Head(s) \in Promise /\ Head(s) \in Entries(s)
  BY <1>1 DEF Entries
<1>3. Distinct(Tail(s))
  BY <1>1 DEF Distinct
<1>4. Entries(Tail(s)) \subseteq Entries(s) \ {Head(s)}
  BY <1>1 DEF Entries, Distinct
<1>5. ASSUME NEW x \in Entries(s) \ {Head(s)} PROVE x \in Entries(Tail(s))
  <2>1. PICK i \in 1 .. Len(s) : x = s[i]
    BY <1>1 DEF Entries
  <2>2. i # 1 /\ i - 1 \in 1 .. Len(s) - 1 /\ (i - 1) + 1 = i
    BY <1>1, <1>5, <2>1
  <2>3. Tail(s)[i - 1] = x
    BY <1>1, <2>1, <2>2
  <2> QED
    BY <1>1, <2>2, <2>3 DEF Entries
<1> QED
  BY <1>1, <1>2, <1>3, <1>4, <1>5

\* A promise that is not listed is appended.
LEMMA AppendEntries ==
    ASSUME NEW s \in Seq(Promise), Distinct(s), NEW p \in Promise, p \notin Entries(s)
    PROVE  /\ Append(s, p) \in Seq(Promise) /\ Distinct(Append(s, p))
           /\ Len(Append(s, p)) = Len(s) + 1
           /\ Entries(Append(s, p)) = Entries(s) \cup {p}
<1> DEFINE t == Append(s, p)
<1>1. /\ t \in Seq(Promise) /\ Len(s) \in Nat /\ Len(t) = Len(s) + 1
      /\ DOMAIN s = 1 .. Len(s) /\ DOMAIN t = 1 .. Len(s) + 1
      /\ t[Len(s) + 1] = p /\ \A i \in 1 .. Len(s) : t[i] = s[i]
  OBVIOUS
<1> HIDE DEF t
<1>2. \A i \in 1 .. Len(s) : s[i] # p
  BY <1>1 DEF Entries
<1>3. Distinct(t)
  BY <1>1, <1>2 DEF Distinct
<1>4. Entries(t) = Entries(s) \cup {p}
  BY <1>1 DEF Entries
<1> QED
  BY <1>1, <1>3, <1>4 DEF t

\* A compaction keeps the entries nobody has observed, each once.
LEMMA SurvivorEntries ==
    ASSUME list \in Seq(Promise), Distinct(list)
    PROVE  /\ Survivors \in Seq(Promise) /\ Distinct(Survivors)
           /\ Len(Survivors) \in Nat /\ Len(Survivors) <= Len(list)
           /\ Entries(Survivors) = {p \in Entries(list) : ~handled[p]}
<1>1. /\ Survivors \in Seq(Promise)
      /\ Len(Survivors) = Passed(list, Unseen, Len(list))
      /\ \A j \in DOMAIN Survivors : Survivors[j] \in Unseen
  BY FilterSeq DEF Survivors
<1>2. Len(Survivors) \in Nat /\ Len(Survivors) <= Len(list)
  <2>1. Len(list) \in Nat
    OBVIOUS
  <2> QED
    BY <1>1, <2>1, PassedNat
<1>3. Distinct(Survivors)
  BY FilterDistinct DEF Survivors, Distinct
<1>4. {p \in Entries(list) : ~handled[p]} \subseteq Entries(Survivors)
  <2> SUFFICES ASSUME NEW i \in DOMAIN list, ~handled[list[i]]
               PROVE  list[i] \in Entries(Survivors)
    BY DEF Entries
  <2>1. list[i] \in Unseen
    BY DEF Unseen
  <2> QED
    BY <2>1, FilterKeeps DEF Survivors, Entries
<1>5. ASSUME NEW j \in DOMAIN Survivors
      PROVE  Survivors[j] \in Entries(list)
  <2>1. j \in 1 .. Passed(list, Unseen, Len(list))
    BY FilterSeq DEF Survivors
  <2>2. Survivors[j] = list[Source(list, Unseen, j)]
        /\ Source(list, Unseen, j) \in DOMAIN list
    BY <2>1, SourceCorrect DEF Survivors, Filter
  <2> QED
    BY <2>2 DEF Entries
<1>6. Entries(Survivors) \subseteq {p \in Entries(list) : ~handled[p]}
  BY <1>1, <1>5 DEF Entries, Unseen
<1> QED
  BY <1>1, <1>2, <1>3, <1>4, <1>6

-----------------------------------------------------------------------------
(* The heap.                                                               *)

\* References taken and given in step with the names and the entries leave
\* every count what it counts, and no cell of an entry or a name free.
LEMMA CountKeeps ==
    ASSUME HeapOK, NEW taken \in SUBSET Promise, NEW given \in SUBSET Promise,
           Count(taken, given), taken \cap given = {},
           taken \subseteq Listed', named' \subseteq named,
           Listed' \subseteq Listed \cup taken,
           \A p \in Promise : One(p \in named') + One(p \in Listed')
                                = One(p \in named) + One(p \in Listed)
                                  + One(p \in taken) - One(p \in given)
    PROVE  HeapOK'
<1>1. \A p \in Promise : rc'[p] = One(p \in named') + One(p \in Listed')
  BY DEF HeapOK, Count, One
<1>2. rc' \in [Promise -> Nat]
  <2>1. \A p \in Promise : One(p \in named') + One(p \in Listed') \in Nat
    BY DEF One
  <2>2. rc' = [p \in Promise |-> rc[p] + One(p \in taken) - One(p \in given)]
    BY DEF Count
  <2> QED
    BY <1>1, <2>1, <2>2
<1>3. st' \in [Promise -> {"free", "pending", "rejected"}]
  BY DEF HeapOK, Count
<1>4. \A p \in Promise : st'[p] = IF p \in given /\ rc'[p] = 0 THEN "free"
                                  ELSE IF p \in taken THEN "rejected" ELSE st[p]
  BY DEF Count
<1>5. \A p \in named' \cup (Listed' \cap Promise) : p \in Promise /\ rc'[p] # 0
  BY <1>1 DEF HeapOK, One
<1>6. Listed' \subseteq Promise
  BY DEF HeapOK
<1> QED
  BY <1>1, <1>2, <1>3, <1>4, <1>5, <1>6 DEF HeapOK

-----------------------------------------------------------------------------
(* The steps.                                                              *)

\* The sweep is done with its current entry.
LEMMA PassKeeps ==
    ASSUME ListsOK, HeapOK, swept # <<>>,
           swept' = Tail(swept), Count({}, {Current}),
           UNCHANGED <<named, list, cap>>
    PROVE  ListsOK' /\ HeapOK'
<1>1. /\ Current \in Promise /\ Current \in Entries(swept)
      /\ swept' \in Seq(Promise) /\ Distinct(swept')
      /\ Entries(swept') = Entries(swept) \ {Current}
  BY TailEntries DEF ListsOK, Current
<1>2. ListsOK'
  BY <1>1 DEF ListsOK
<1>3. Listed' = Listed \ {Current} /\ Current \in Listed
  BY <1>1 DEF Listed, ListsOK
<1>4. HeapOK'
  <2>1. \A p \in Promise : One(p \in named') + One(p \in Listed')
                                = One(p \in named) + One(p \in Listed)
                                  + One(p \in {}) - One(p \in {Current})
    BY <1>3 DEF One
  <2> DEFINE given == {Current}
  <2>2. given \in SUBSET Promise
    BY <1>1
  <2> HIDE DEF given
  <2> QED
    BY <1>3, <2>1, <2>2, CountKeeps DEF given
<1> QED
  BY <1>2, <1>4

LEMMA RejectKeeps ==
    ASSUME Inv, NEW p \in Promise, Reject(p)
    PROVE  ListsOK' /\ HeapOK'
<1> DEFINE kept == IF Full THEN Survivors ELSE list
<1> USE DEF Inv
<1>1. /\ kept \in Seq(Promise) /\ Distinct(kept)
      /\ Len(kept) \in Nat /\ Len(kept) <= Len(list)
      /\ Entries(kept) = Entries(list) \ Released
  <2>1. CASE Full
    BY <2>1, SurvivorEntries DEF ListsOK, Released
  <2>2. CASE ~Full
    BY <2>2 DEF ListsOK, Released
  <2> QED
    BY <2>1, <2>2
<1>2. list' = Append(kept, p) /\ cap' = Grown(Len(kept))
  BY DEF Reject
<1> HIDE DEF kept
<1>3. p \notin Listed
  BY DEF Reject, HeapOK
<1>4. /\ list' \in Seq(Promise) /\ Distinct(list')
      /\ Len(list') = Len(kept) + 1
      /\ Entries(list') = (Entries(list) \ Released) \cup {p}
  BY <1>1, <1>2, <1>3, AppendEntries DEF Listed
<1>5. cap' \in Nat /\ Len(list') <= cap'
  <2>1. kept = list \/ Full
    BY DEF kept
  <2> QED
    BY <1>1, <1>2, <1>4, <2>1, InitialCapAssumption DEF ListsOK, Grown, Full
<1>6. ListsOK'
  <2>1. swept' = swept
    BY DEF Reject
  <2> QED
    BY <1>3, <1>4, <1>5, <2>1 DEF ListsOK, Listed
<1>7. Released \subseteq Entries(list) /\ p \notin Released
  BY <1>3 DEF Released, Listed
<1>8. Listed' = (Listed \ Released) \cup {p}
  BY <1>4, <1>7 DEF Listed, Reject, ListsOK
<1>9. HeapOK'
  <2>1. \A q \in Promise : One(q \in named') + One(q \in Listed')
                                = One(q \in named) + One(q \in Listed)
                                  + One(q \in {p}) - One(q \in Released)
    BY <1>3, <1>7, <1>8 DEF One, Reject, Listed
  <2>2. Released \in SUBSET Promise /\ {p} \cap Released = {}
    BY <1>7 DEF HeapOK, Listed
  <2>3. Count({p}, Released) /\ named' = named
    BY DEF Reject
  <2> QED
    BY <1>8, <2>1, <2>2, <2>3, CountKeeps
<1> QED
  BY <1>6, <1>9

LEMMA InitCorrect == Init => Inv
<1> SUFFICES ASSUME Init PROVE Inv
  OBVIOUS
<1>1. Entries(list) = {} /\ Entries(swept) = {}
  BY DEF Init, Entries
<1>2. ListsOK
  BY <1>1 DEF Init, ListsOK, Distinct
<1>3. HeapOK
  BY <1>1 DEF Init, HeapOK, Listed, One
<1>4. PhaseOK
  BY DEF Init, PhaseOK
<1> QED
  BY <1>2, <1>3, <1>4 DEF Inv

LEMMA StepCorrect == Inv /\ [Next]_vars => Inv'
<1> SUFFICES ASSUME Inv, [Next]_vars PROVE Inv'
  OBVIOUS
<1> USE DEF Inv
<1>1. CASE UNCHANGED vars
  BY <1>1 DEF vars, ListsOK, HeapOK, PhaseOK, Listed
<1>2. ASSUME NEW p \in Promise, New(p) PROVE Inv'
  <2>1. ListsOK' /\ PhaseOK'
    BY <1>2 DEF New, ListsOK, PhaseOK
  <2>2. Listed' = Listed /\ p \notin Listed /\ p \notin named
    BY <1>2 DEF New, Listed, HeapOK
  <2>3. HeapOK'
    BY <1>2, <2>2 DEF New, HeapOK, One
  <2> QED
    BY <2>1, <2>3
<1>3. ASSUME NEW p \in Promise, Observe(p) PROVE Inv'
  BY <1>3 DEF Observe, ListsOK, HeapOK, PhaseOK, Listed
<1>4. ASSUME NEW p \in Promise, Drop(p) PROVE Inv'
  <2>1. ListsOK' /\ PhaseOK'
    BY <1>4 DEF Drop, ListsOK, PhaseOK
  <2>2. Listed' = Listed /\ named' = named \ {p} /\ p \in named
    BY <1>4 DEF Drop, Listed
  <2>3. \A q \in Promise : One(q \in named') + One(q \in Listed')
                                = One(q \in named) + One(q \in Listed)
                                  + One(q \in {}) - One(q \in {p})
    BY <2>2 DEF One
  <2>4. Count({}, {p})
    BY <1>4 DEF Drop
  <2>5. HeapOK'
    BY <2>2, <2>3, <2>4, CountKeeps
  <2> QED
    BY <2>1, <2>5
<1>5. ASSUME NEW p \in Promise, Reject(p) PROVE Inv'
  BY <1>5, RejectKeeps DEF Reject, PhaseOK
<1>6. CASE Register
  BY <1>6 DEF Register, ListsOK, HeapOK, PhaseOK, Listed
<1>7. CASE Detach
  <2>1. swept = <<>> /\ swept' = list /\ list' = <<>> /\ cap' = 0
    BY <1>7 DEF Detach, PhaseOK
  <2>2. ListsOK'
    BY <2>1 DEF ListsOK, Distinct, Entries
  <2>3. Listed' = Listed
    BY <2>1 DEF Listed, Entries
  <2>4. HeapOK' /\ PhaseOK'
    BY <1>7, <2>3 DEF Detach, HeapOK, PhaseOK
  <2> QED
    BY <2>2, <2>4
<1>8. CASE Pass
  BY <1>8, PassKeeps DEF Pass, Sweeping, PhaseOK
<1>9. CASE Report
  BY <1>9, PassKeeps, TailEntries DEF Report, Sweeping, PhaseOK, Current, ListsOK
<1>10. CASE CallListener
  BY <1>10, TailEntries
     DEF CallListener, Sweeping, ListsOK, HeapOK, PhaseOK, Listed, Current
<1>11. CASE ListenerEnd
  BY <1>11, PassKeeps DEF ListenerEnd, PhaseOK
<1>12. CASE ExitCode
  BY <1>12 DEF ExitCode, ListsOK, HeapOK, PhaseOK, Listed
<1> QED
  BY <1>1, <1>2, <1>3, <1>4, <1>5, <1>6, <1>7, <1>8, <1>9, <1>10, <1>11, <1>12
     DEF Next, Over

LEMMA InvAlways == Spec => []Inv
  BY InitCorrect, StepCorrect, PTL DEF Spec

-----------------------------------------------------------------------------
(* The theorems.                                                           *)

\* Every variable keeps its kind, and no push finds its buffer full: the
\* entries a compaction leaves fit, with one more, whether it grows or not.
THEOREM TypeCorrect == Spec => []TypeOK
<1>1. Inv => TypeOK
  <2> SUFFICES ASSUME Inv PROVE TypeOK
    OBVIOUS
  <2>1. Entries(list) \subseteq Promise /\ Entries(swept) \subseteq Promise
    BY DEF Inv, HeapOK, Listed
  <2> QED
    BY <2>1 DEF Inv, ListsOK, HeapOK, PhaseOK, TypeOK
<1> QED
  BY <1>1, InvAlways, PTL

\* The entries of a promise in a sequence without doubles are one or none.
LEMMA StakesDistinct ==
    ASSUME NEW s \in Seq(Promise), Distinct(s), NEW p \in Promise
    PROVE  Stakes(p, s) = One(p \in Entries(s))
<1> DEFINE at == {i \in DOMAIN s : s[i] = p}
<1>1. CASE p \in Entries(s)
  <2>1. PICK i \in DOMAIN s : s[i] = p
    BY <1>1 DEF Entries
  <2>2. at = {i}
    BY <2>1 DEF Distinct
  <2>3. Cardinality(at) = 1
    <3> HIDE DEF at
    <3> QED
      BY <2>2, FS_Singleton
  <2> QED
    BY <1>1, <2>3 DEF Stakes, One
<1>2. CASE p \notin Entries(s)
  <2>1. at = {}
    BY <1>2 DEF Entries
  <2>2. Cardinality(at) = 0
    <3> HIDE DEF at
    <3> QED
      BY <2>1, FS_EmptySet
  <2> QED
    BY <1>2, <2>2 DEF Stakes, One
<1> QED
  BY <1>1, <1>2

\* unhandled.rs:324-334: a listed promise is listed once, and its entry's
\* reference is counted, whatever a listener does in the middle of the sweep.
THEOREM EntriesCounted == Spec => []EntriesOwnCells
<1>1. Inv => EntriesOwnCells
  <2> SUFFICES ASSUME Inv, NEW p \in Promise
               PROVE  /\ rc[p] = One(p \in named) + Stakes(p, list \o swept)
                      /\ Stakes(p, list \o swept) <= One(st[p] = "rejected")
    BY DEF EntriesOwnCells
  <2> DEFINE all == list \o swept
             n == Len(list)
  <2>1. /\ all \in Seq(Promise) /\ n \in Nat /\ Len(swept) \in Nat
        /\ DOMAIN list = 1 .. n /\ DOMAIN swept = 1 .. Len(swept)
        /\ DOMAIN all = 1 .. n + Len(swept)
        /\ \A i \in 1 .. n : all[i] = list[i]
        /\ \A i \in n + 1 .. n + Len(swept) : all[i] = swept[i - n]
    BY ConcatProperties DEF Inv, ListsOK
  <2> HIDE DEF all, n
  <2>2. \A i \in DOMAIN all : \/ i \in 1 .. n
                              \/ i \in n + 1 .. n + Len(swept) /\ i - n \in DOMAIN swept
    BY <2>1
  <2>3. \A i \in 1 .. n, k \in DOMAIN swept : list[i] # swept[k]
    BY <2>1 DEF Inv, ListsOK, Entries
  <2>4. Distinct(all)
    <3> SUFFICES ASSUME NEW i \in DOMAIN all, NEW k \in DOMAIN all, all[i] = all[k]
                 PROVE  i = k
      BY DEF Distinct
    <3> QED
      BY <2>1, <2>2, <2>3 DEF Inv, ListsOK, Distinct
  <2>5. Entries(all) = Listed
    <3>1. Entries(all) \subseteq Listed
      BY <2>1, <2>2 DEF Entries, Listed
    <3>2. Entries(list) \subseteq Entries(all)
      BY <2>1 DEF Entries
    <3>3. ASSUME NEW k \in DOMAIN swept PROVE swept[k] \in Entries(all)
      <4>1. n + k \in DOMAIN all /\ (n + k) - n = k
        BY <2>1
      <4>2. all[n + k] = swept[k]
        BY <2>1, <4>1
      <4> QED
        BY <4>1, <4>2 DEF Entries
    <3> QED
      BY <3>1, <3>2, <3>3 DEF Entries, Listed
  <2>6. Stakes(p, all) = One(p \in Listed)
    BY <2>1, <2>4, <2>5, StakesDistinct
  <2>7. rc[p] = One(p \in named) + One(p \in Listed)
        /\ (p \in Listed => st[p] = "rejected")
    BY DEF Inv, HeapOK
  <2> QED
    BY <2>6, <2>7 DEF all, One
<1> QED
  BY <1>1, InvAlways, PTL

-----------------------------------------------------------------------------
(* The refinement.                                                         *)

\* Unless an entry is observed, what is owed of a list stays.
LEMMA SameOwed ==
    ASSUME NEW s \in Seq(Promise),
           \A i \in DOMAIN s : handled'[s[i]] = handled[s[i]]
    PROVE  Filter(s, Unseen') = Filter(s, Unseen)
<1> DEFINE K == Unseen
           L == Unseen'
<1>1. \A i \in DOMAIN s : s[i] \in L <=> s[i] \in K
  BY DEF Unseen
<1> HIDE DEF K, L
<1>2. Filter(s, L) = Filter(s, K)
  BY <1>1, FilterAgree
<1> QED
  BY <1>2 DEF K, L

\* The entries ahead are some of those listed.
LEMMA AheadListed ==
    ASSUME Inv
    PROVE  /\ Ahead \in Seq(Promise)
           /\ \A i \in DOMAIN Ahead : Ahead[i] \in Listed
<1>1. CASE phase = "listener"
  <2>1. /\ Tail(swept) \in Seq(Promise)
        /\ Entries(Tail(swept)) = Entries(swept) \ {Head(swept)}
    BY <1>1, TailEntries DEF Inv, ListsOK, PhaseOK
  <2> QED
    BY <1>1, <2>1 DEF Ahead, Entries, Listed
<1>2. CASE phase # "listener"
  BY <1>2 DEF Inv, ListsOK, Ahead, Entries, Listed
<1> QED
  BY <1>1, <1>2

\* Seen from outside, nothing happens.
LEMMA StutterOwed ==
    ASSUME Inv, UNCHANGED <<list, swept, phase, told, occurred>>,
           \A p \in Listed : handled'[p] = handled[p]
    PROVE  UNCHANGED <<Owing, Belated, Outside, told, occurred>>
<1>1. Filter(list, Unseen') = Filter(list, Unseen)
  BY SameOwed DEF Inv, ListsOK, Listed, Entries
<1>2. Filter(Ahead, Unseen') = Filter(Ahead, Unseen)
  BY AheadListed, SameOwed
<1>3. Ahead' = Ahead
  BY DEF Ahead
<1> QED
  BY <1>1, <1>2, <1>3 DEF Owing, Belated, Outside, Unobserved

\* The filter is the same in both modules.
LEMMA WithoutIs ==
    ASSUME NEW s, NEW p
    PROVE  Tracking!Without(s, p) = Filter(s, Promise \ {p})
  BY DEF Tracking!Without, Tracking!Filter, Tracking!Source, Tracking!Passed,
         Tracking!Cardinality, Filter, Source, Passed, Cardinality

\* An observation takes its promise out of what is owed.
LEMMA ObserveOwed ==
    ASSUME NEW s \in Seq(Promise), NEW p \in Promise, Observe(p),
           handled \in [Promise -> BOOLEAN]
    PROVE  Filter(s, Unseen') = Tracking!Without(Filter(s, Unseen), p)
<1> DEFINE K == Unseen
           L == Unseen'
<1>1. L = K \cap (Promise \ {p})
  BY DEF Unseen, Observe
<1> HIDE DEF K, L
<1>2. Filter(Filter(s, K), Promise \ {p}) = Filter(s, L)
  BY <1>1, FilterTwice
<1> QED
  BY <1>2, WithoutIs DEF K, L

\* A rejection is owed last, unless it was observed before.
LEMMA RejectOwed ==
    ASSUME Inv, NEW p \in Promise, Reject(p)
    PROVE  Filter(list', Unseen') = IF handled[p] THEN Filter(list, Unseen)
                                    ELSE Append(Filter(list, Unseen), p)
<1> DEFINE kept == IF Full THEN Survivors ELSE list
           K == Unseen
<1>1. list' = Append(kept, p) /\ Unseen' = K /\ (p \in K <=> ~handled[p])
  BY DEF Reject, Unseen
<1>2. list \in Seq(Promise) /\ kept \in Seq(Promise)
  BY SurvivorEntries DEF Inv, ListsOK
<1>3. Filter(kept, K) = Filter(list, K)
  <2> HIDE DEF K
  <2>1. Filter(Filter(list, K), K) = Filter(list, K)
    <3>1. K \cap K = K
      OBVIOUS
    <3> QED
      BY <1>2, <3>1, FilterTwice
  <2> QED
    BY <2>1 DEF Survivors, K
<1> HIDE DEF kept, K
<1>4. Filter(Append(kept, p), K) = IF p \in K THEN Append(Filter(kept, K), p)
                                   ELSE Filter(kept, K)
  BY <1>2, FilterAppend
<1> QED
  BY <1>1, <1>3, <1>4 DEF K

\* The sweep's current entry is the oldest owed, or is not owed.
LEMMA SweepOwed ==
    ASSUME Inv, swept # <<>>
    PROVE  IF Owed
           THEN /\ Unobserved(swept) # <<>>
                /\ Head(Unobserved(swept)) = Current
                /\ Tail(Unobserved(swept)) = Unobserved(Tail(swept))
           ELSE Unobserved(swept) = Unobserved(Tail(swept))
<1> DEFINE K == Unseen
<1>1. swept \in Seq(Promise) /\ Head(swept) \in Promise
  BY TailEntries DEF Inv, ListsOK
<1>2. Head(swept) \in K <=> Owed
  BY <1>1 DEF Owed, Current, Unseen
<1> HIDE DEF K
<1>3. IF Head(swept) \in K
      THEN /\ Filter(swept, K) # <<>>
           /\ Head(Filter(swept, K)) = Head(swept)
           /\ Tail(Filter(swept, K)) = Filter(Tail(swept), K)
      ELSE Filter(swept, K) = Filter(Tail(swept), K)
  BY <1>1, FilterTail
<1> QED
  BY <1>2, <1>3 DEF K, Unobserved, Current

LEMMA InitTracks == Init => Tracking!Init
<1> SUFFICES ASSUME Init PROVE Tracking!Init
  OBVIOUS
<1>1. Owing = <<>> /\ Belated = <<>> /\ Outside = "running"
  BY FilterEmpty DEF Init, Owing, Belated, Outside, Ahead, Unobserved
<1> QED
  BY <1>1 DEF Init, Tracking!Init, Nobody, Tracking!Nobody

LEMMA StepTracks == Inv /\ [Next]_vars => [Tracking!Next]_(Tracking!vars)
<1> SUFFICES ASSUME Inv, [Next]_vars
             PROVE  Tracking!Next \/ UNCHANGED Tracking!vars
  OBVIOUS
<1> DEFINE Still == UNCHANGED <<Owing, Belated, Outside, told, occurred>>
<1>0. Still => UNCHANGED Tracking!vars
  BY DEF Tracking!vars
<1>1. CASE UNCHANGED vars
  BY <1>0, <1>1, StutterOwed DEF vars
<1>2. ASSUME NEW p \in Promise, New(p) PROVE Still
  BY <1>2, StutterOwed DEF New, Inv, HeapOK, PhaseOK
<1>3. ASSUME NEW p \in Promise, Observe(p) PROVE Tracking!Handle(p)
  <2>1. Ahead' = Ahead /\ Outside' = Outside /\ list' = list
        /\ UNCHANGED <<phase, told, occurred>> /\ Outside # "over"
    BY <1>3 DEF Observe, Code, Ahead, Outside
  <2>2. Owing' = Tracking!Without(Owing, p)
    BY <1>3, <2>1, AheadListed, ObserveOwed DEF Inv, PhaseOK, Owing, Unobserved
  <2>3. Belated' = Tracking!Without(Belated, p)
    <3>1. CASE phase = "running"
      BY <2>1, <3>1, WithoutIs, FilterEmpty DEF Belated
    <3>2. CASE phase # "running"
      BY <1>3, <2>1, <3>2, ObserveOwed DEF Inv, ListsOK, PhaseOK, Belated, Unobserved
    <3> QED
      BY <3>1, <3>2
  <2> QED
    BY <2>1, <2>2, <2>3 DEF Tracking!Handle
<1>4. ASSUME NEW p \in Promise, Drop(p) PROVE Still
  BY <1>4, StutterOwed DEF Drop
<1>5. ASSUME NEW p \in Promise, Reject(p) PROVE Tracking!Reject(p) \/ Still
  <2>1. Unobserved(list)' = IF handled[p] THEN Unobserved(list)
                                          ELSE Append(Unobserved(list), p)
    BY <1>5, RejectOwed DEF Unobserved
  <2>2. /\ UNCHANGED <<handled, swept, phase, told, occurred>> /\ Code
        /\ Outside' = Outside /\ Unseen' = Unseen
    BY <1>5 DEF Reject, Outside, Unseen
  <2>3. CASE phase = "running"
    BY <2>1, <2>2, <2>3
       DEF Tracking!Reject, Owing, Belated, Ahead, Outside, Unobserved
  <2>4. CASE phase = "listener"
    BY <2>1, <2>2, <2>4
       DEF Tracking!Reject, Owing, Belated, Ahead, Outside, Unobserved
  <2> QED
    BY <2>2, <2>3, <2>4 DEF Code
<1>6. CASE Register
  BY <1>0, <1>6, StutterOwed DEF Register
<1>7. CASE Detach
  <2>1. Belated' = <<>> /\ Belated = <<>> /\ Ahead' = Ahead /\ Unseen' = Unseen
    BY <1>7, FilterEmpty DEF Detach, Belated, Ahead, Unseen, Unobserved
  <2>2. Owing' = Owing /\ Outside = "running" /\ Outside' = "exiting"
    BY <1>7, <2>1 DEF Detach, Owing, Unobserved, Outside
  <2> QED
    BY <1>7, <2>1, <2>2 DEF Detach, Tracking!Exit, Tracking!Next
<1>8. CASE Pass
  <2>1. /\ UNCHANGED <<list, phase, told, occurred>> /\ Unseen' = Unseen
        /\ phase = "sweeping" /\ swept # <<>> /\ swept' = Tail(swept) /\ ~Owed
    BY <1>8 DEF Pass, Sweeping, Unseen
  <2>2. Owing' = Owing
    BY <2>1, SweepOwed DEF Owing, Ahead, Unobserved
  <2> QED
    BY <1>0, <2>1, <2>2 DEF Belated, Outside, Unobserved
<1>9. CASE Report
  <2>1. /\ UNCHANGED <<list, phase>> /\ Unseen' = Unseen /\ occurred' = TRUE
        /\ phase = "sweeping" /\ swept # <<>> /\ swept' = Tail(swept) /\ Owed
        /\ told' = Current
    BY <1>9 DEF Report, Sweeping, Unseen
  <2>2. Owing # <<>> /\ Head(Owing) = Current /\ Owing' = Tail(Owing)
    BY <2>1, SweepOwed DEF Owing, Ahead, Unobserved
  <2>3. Belated' = Belated /\ Outside = "exiting" /\ Outside' = Outside
    BY <2>1 DEF Belated, Outside, Unobserved
  <2>4. Tracking!Report(TRUE)
    BY <2>1, <2>2, <2>3 DEF Tracking!Report
  <2> QED
    BY <2>4 DEF Tracking!Next
<1>10. CASE CallListener
  <2>1. /\ UNCHANGED <<list, swept, occurred>> /\ Unseen' = Unseen
        /\ phase = "sweeping" /\ phase' = "listener" /\ swept # <<>> /\ Owed
        /\ told' = Current
    BY <1>10 DEF CallListener, Sweeping, Unseen
  <2>2. Owing # <<>> /\ Head(Owing) = Current /\ Owing' = Tail(Owing)
    BY <2>1, SweepOwed DEF Owing, Ahead, Unobserved
  <2>3. Belated' = Belated /\ Outside = "exiting" /\ Outside' = Outside
    BY <2>1 DEF Belated, Outside, Unobserved
  <2>4. Tracking!Report(FALSE)
    BY <2>1, <2>2, <2>3 DEF Tracking!Report, Inv, PhaseOK
  <2> QED
    BY <2>4 DEF Tracking!Next
<1>11. CASE ListenerEnd
  <2>1. /\ UNCHANGED <<list, told, occurred>> /\ Unseen' = Unseen
        /\ phase = "listener" /\ phase' = "sweeping" /\ swept' = Tail(swept)
    BY <1>11 DEF ListenerEnd, Unseen
  <2> QED
    BY <1>0, <2>1 DEF Owing, Ahead, Belated, Outside, Unobserved
<1>12. CASE ExitCode
  <2>1. /\ UNCHANGED <<list, swept, told, occurred>> /\ Unseen' = Unseen
        /\ phase = "sweeping" /\ phase' = "over" /\ swept = <<>>
    BY <1>12 DEF ExitCode, Unseen
  <2>2. Owing = <<>>
    BY <2>1, FilterEmpty DEF Owing, Ahead, Unobserved
  <2> QED
    BY <2>1, <2>2 DEF Tracking!Finish, Tracking!Next, Owing, Ahead, Belated, Outside,
                      Unobserved
<1> QED
  BY <1>0, <1>1, <1>2, <1>3, <1>4, <1>5, <1>6, <1>7, <1>8, <1>9, <1>10, <1>11, <1>12
     DEF Next, Over, Tracking!Next

\* The list, compacted and grown on the way, detached at the exit and swept
\* under a listener that rejects and observes, reports what the language owes:
\* each unobserved rejection once, oldest first.
THEOREM TrackingImplemented == Spec => ImplementsTracking
  BY InvAlways, InitTracks, StepTracks, PTL DEF Spec, ImplementsTracking, Tracking!Spec
=============================================================================
