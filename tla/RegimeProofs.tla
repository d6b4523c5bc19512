---------------------------- MODULE RegimeProofs ----------------------------
(***************************************************************************)
(* What the worker's memory, tape and status agree on when each job is     *)
(* submitted once at a time and no strip is sent in the middle of a job.   *)
(***************************************************************************)
EXTENDS TapeProofs, FunctionTheorems

USE DEF spoolVars, sendVars, submitVars, loopVars, memVars, inVars, ghostVars

-----------------------------------------------------------------------------
(***************************************************************************)
(* How often something is in a sequence.                                   *)
(***************************************************************************)
Times(x, s) == Cardinality({n \in DOMAIN s : s[n] = x})

LEMMA TimesType ==
    ASSUME NEW S, NEW s \in Seq(S), NEW x
    PROVE  /\ IsFiniteSet({n \in DOMAIN s : s[n] = x})
           /\ Cardinality({n \in DOMAIN s : s[n] = x}) \in Nat
           /\ Times(x, s) = Cardinality({n \in DOMAIN s : s[n] = x})
           /\ (\E n \in DOMAIN s : s[n] = x) <=> Times(x, s) > 0
<1>1. {n \in DOMAIN s : s[n] = x} \subseteq 1..Len(s) /\ IsFiniteSet(1..Len(s))
  BY FS_Interval
<1>2. IsFiniteSet({n \in DOMAIN s : s[n] = x})
  BY <1>1, FS_Subset
<1>3. Cardinality({n \in DOMAIN s : s[n] = x}) \in Nat
  BY <1>2, FS_CardinalityType
<1>4. Cardinality({n \in DOMAIN s : s[n] = x}) = 0 <=> {n \in DOMAIN s : s[n] = x} = {}
  BY <1>2, FS_EmptySet
<1>5. Times(x, s) = Cardinality({n \in DOMAIN s : s[n] = x})
  BY DEF Times
<1> QED
  BY <1>2, <1>3, <1>4, <1>5

LEMMA TimesEmpty == \A x : Times(x, <<>>) = 0
<1> SUFFICES ASSUME NEW x PROVE Times(x, <<>>) = 0
  OBVIOUS
<1>1. {n \in DOMAIN <<>> : <<>>[n] = x} = {}
  OBVIOUS
<1> QED
  BY <1>1, FS_EmptySet DEF Times

LEMMA TimesAppend ==
    ASSUME NEW S, NEW s \in Seq(S), NEW y \in S, NEW x
    PROVE  Times(x, Append(s, y)) = Times(x, s) + (IF y = x THEN 1 ELSE 0)
<1> DEFINE A == {n \in DOMAIN s : s[n] = x}
           t == Append(s, y)
           T == {n \in DOMAIN t : t[n] = x}
<1>1. /\ t \in Seq(S) /\ Len(t) = Len(s) + 1 /\ t[Len(s) + 1] = y
      /\ \A n \in 1..Len(s) : t[n] = s[n]
  BY AppendProperties
<1> HIDE DEF t, T
<1>2. /\ IsFiniteSet(A) /\ Cardinality(A) \in Nat /\ Times(x, s) = Cardinality(A)
      /\ Len(s) + 1 \notin A
  <2>1. \A n \in A : n \in 1..Len(s)
    OBVIOUS
  <2>2. Len(s) \in Nat
    OBVIOUS
  <2>3. Len(s) + 1 \notin A
    BY <2>1, <2>2
  <2>4. IsFiniteSet(A) /\ Cardinality(A) \in Nat /\ Times(x, s) = Cardinality(A)
    BY TimesType
  <2> QED
    BY <2>3, <2>4
<1>5. Times(x, t) = Cardinality(T)
  BY DEF Times, T
<1> HIDE DEF A
<1>3. CASE y = x
  <2>1. T = A \cup {Len(s) + 1}
    BY <1>1, <1>3 DEF A, T
  <2>2. Cardinality(A \cup {Len(s) + 1}) = Cardinality(A) + 1
    BY <1>2, FS_AddElement
  <2>3. Times(x, t) = Times(x, s) + 1
    BY <1>2, <1>5, <2>1, <2>2
  <2> QED
    BY <1>3, <2>3 DEF t
<1>4. CASE y # x
  <2>1. T = A
    BY <1>1, <1>4 DEF A, T
  <2>2. Times(x, t) = Times(x, s) + 0
    BY <1>2, <1>5, <2>1
  <2> QED
    BY <1>4, <2>2 DEF t
<1> QED
  BY <1>3, <1>4

LEMMA TimesTail ==
    ASSUME NEW S, NEW s \in Seq(S), s # <<>>, NEW x
    PROVE  Times(x, s) = Times(x, Tail(s)) + (IF Head(s) = x THEN 1 ELSE 0)
<1> DEFINE A == {n \in DOMAIN s : s[n] = x}
           t == Tail(s)
           B == {n \in DOMAIN t : t[n] = x}
           f == [n \in B |-> n + 1]
<1>1. /\ t \in Seq(S) /\ Len(t) = Len(s) - 1 /\ Head(s) = s[1] /\ Len(s) >= 1
      /\ \A n \in 1..Len(t) : t[n] = s[n + 1]
  BY HeadTailProperties, EmptySeq
<1> HIDE DEF t
<1>2. /\ IsFiniteSet(A) /\ IsFiniteSet(B) /\ Cardinality(A) \in Nat /\ Cardinality(B) \in Nat
      /\ Times(x, s) = Cardinality(A) /\ Times(x, t) = Cardinality(B)
  BY <1>1, TimesType
<1>3. f \in Bijection(B, A \ {1})
  <2>1. f \in [B -> A \ {1}]
    BY <1>1
  <2>2. \A a, b \in B : f[a] = f[b] => a = b
    BY <1>1
  <2>3. \A m \in A \ {1} : \E n \in B : f[n] = m
    <3> SUFFICES ASSUME NEW m \in A \ {1} PROVE m - 1 \in B /\ f[m - 1] = m
      OBVIOUS
    <3> QED
      BY <1>1
  <2> QED
    BY <2>1, <2>2, <2>3, Fun_IsBij
<1>4. Cardinality(A \ {1}) = Cardinality(B)
  BY <1>2, <1>3, FS_Bijection DEF ExistsBijection
<1>5. Cardinality(A \ {1}) = IF 1 \in A THEN Cardinality(A) - 1 ELSE Cardinality(A)
  BY <1>2, FS_RemoveElement
<1>6. 1 \in A <=> Head(s) = x
  BY <1>1
<1> HIDE DEF A, B
<1> QED
  BY <1>2, <1>4, <1>5, <1>6 DEF t

LEMMA TimesRepeat ==
    ASSUME NEW S, NEW s \in Seq(S), NEW y \in S, NEW c \in Nat, NEW x
    PROVE  Times(x, s \o [n \in 1..c |-> y]) = Times(x, s) + (IF y = x THEN c ELSE 0)
<1> DEFINE A == {n \in DOMAIN s : s[n] = x}
           r == [n \in 1..c |-> y]
           t == s \o r
           T == {n \in DOMAIN t : t[n] = x}
           B == (Len(s) + 1)..(Len(s) + c)
<1>1. r \in Seq(S) /\ Len(r) = c
  OBVIOUS
<1>2. /\ t \in Seq(S) /\ Len(t) = Len(s) + c
      /\ \A n \in 1..Len(s) : t[n] = s[n]
      /\ \A n \in B : t[n] = y
  BY <1>1
<1> HIDE DEF t, r, T
<1>3. IsFiniteSet(A) /\ Cardinality(A) \in Nat /\ Times(x, s) = Cardinality(A)
  BY TimesType
<1>7. Times(x, t) = Cardinality(T)
  BY DEF Times, T
<1>4. IsFiniteSet(B) /\ Cardinality(B) = c
  BY FS_Interval
<1>5. CASE y = x
  <2>1. T = A \cup B
    BY <1>2, <1>5 DEF T
  <2>2. A \cap B = {} /\ Cardinality({}) = 0
    BY FS_EmptySet
  <2>3. Cardinality(A \cup B) = Cardinality(A) + Cardinality(B) - Cardinality(A \cap B)
    BY <1>3, <1>4, FS_Union
  <2> HIDE DEF A, B
  <2>5. Cardinality(A \cap B) = 0
    BY <2>2
  <2>6. Cardinality(A \cup B) = Cardinality(A) + c
    BY <1>3, <1>4, <2>3, <2>5
  <2>4. Times(x, t) = Times(x, s) + c
    BY <1>3, <1>7, <2>1, <2>6
  <2> QED
    BY <1>5, <2>4 DEF t, r
<1>6. CASE y # x
  <2>1. T = A
    BY <1>2, <1>6 DEF T
  <2> HIDE DEF A, B
  <2>2. Times(x, t) = Times(x, s) + 0
    BY <1>3, <1>7, <2>1
  <2> QED
    BY <1>6, <2>2 DEF t, r
<1> QED
  BY <1>5, <1>6

-----------------------------------------------------------------------------
(***************************************************************************)
(* What a tally counts over all labels is compared label by label.         *)
(***************************************************************************)
Copied(f) == UNION {{i} \X (1..f[i]) : i \in DOMAIN f}

LEMMA CopiedIs ==
    ASSUME NEW f \in [Index -> Nat]
    PROVE  /\ Copied(f) \subseteq Index \X Nat
           /\ \A i \in Index, n \in Nat : <<i, n>> \in Copied(f) <=> 1 <= n /\ n <= f[i]
<1>1. ASSUME NEW i \in Index, NEW n \in Nat
      PROVE  <<i, n>> \in Copied(f) <=> 1 <= n /\ n <= f[i]
  BY DEF Copied
<1>2. ASSUME NEW p \in Copied(f)
      PROVE  p \in Index \X Nat
  BY DEF Copied
<1> QED
  BY <1>1, <1>2

LEMMA CopiedIsFinite ==
    ASSUME NEW f \in [Index -> Nat]
    PROVE  IsFiniteSet(Copied(f)) /\ CopiesIn(f) = Cardinality(Copied(f)) /\ CopiesIn(f) \in Nat
<1>1. IsFiniteSet(Index)
  <2> DEFINE g == [it \in Item |-> it[2]]
  <2>1. g \in Surjection(Item, Index)
    <3>1. g \in [Item -> Index]
      BY DEF Item
    <3>2. ASSUME NEW i \in Index
          PROVE  \E it \in Item : g[it] = i
      <4>1. PICK j \in Job : i \in Label(j)
        BY DEF Index
      <4>2. <<j, i>> \in Item
        BY <4>1, LabelFacts
      <4> QED
        BY <4>2
    <3> QED
      BY <3>1, <3>2, Fun_IsSurj
  <2> QED
    BY <2>1, ItemIsFinite, FS_Surjection
<1> DEFINE T == {{i} \X (1..f[i]) : i \in DOMAIN f}
           g == [i \in Index |-> {i} \X (1..f[i])]
<1>2. g \in Surjection(Index, T)
  <2>1. g \in [Index -> T] /\ \A t \in T : \E i \in Index : g[i] = t
    OBVIOUS
  <2> QED
    BY <2>1, Fun_IsSurj
<1>3. IsFiniteSet(T)
  BY <1>1, <1>2, FS_Surjection
<1>4. ASSUME NEW t \in T
      PROVE  IsFiniteSet(t)
  <2>1. PICK i \in Index : t = {i} \X (1..f[i])
    OBVIOUS
  <2>2. IsFiniteSet({i}) /\ IsFiniteSet(1..f[i])
    <3>1. IsFiniteSet({i})
      BY FS_Singleton
    <3>2. PICK n \in Int : n = f[i]
      OBVIOUS
    <3>3. IsFiniteSet(1..n)
      BY FS_Interval
    <3> QED
      BY <3>1, <3>2, <3>3
  <2> QED
    BY <2>1, <2>2, FS_Product
<1>5. IsFiniteSet(UNION T)
  BY <1>3, <1>4, FS_UNION
<1>6. Copied(f) = UNION T
  BY DEF Copied
<1> QED
  BY <1>5, <1>6, FS_CardinalityType DEF CopiesIn, Copied

\* A tally that has counted what it expects of each label is complete.
LEMMA SumReaches ==
    ASSUME NEW d \in [Index -> Nat], NEW g \in [Index -> Nat], NEW e \in [Index -> Nat],
           \A i \in Index : e[i] <= d[i] + g[i]
    PROVE  CopiesIn(d) + CopiesIn(g) >= CopiesIn(e)
<1> DEFINE D == Copied(d)
           G == Copied(g)
           E == Copied(e)
           h == [p \in E \ D |-> <<p[1], p[2] - d[p[1]]>>]
<1>1. ASSUME NEW p \in E \ D
      PROVE  /\ p[1] \in Index /\ p[2] \in Nat /\ p = <<p[1], p[2]>>
             /\ d[p[1]] < p[2] /\ p[2] <= e[p[1]] /\ d[p[1]] \in Nat
             /\ <<p[1], p[2] - d[p[1]]>> \in G
  <2>1. PICK i \in Index, n \in Nat : p = <<i, n>>
    BY CopiedIs
  <2>2. 1 <= n /\ n <= e[i] /\ ~(n <= d[i])
    BY <2>1, CopiedIs
  <2>3. n - d[i] \in Nat /\ 1 <= n - d[i] /\ n - d[i] <= g[i]
    BY <2>2
  <2>4. <<i, n - d[i]>> \in G
    BY <2>3, CopiedIs
  <2> QED
    BY <2>1, <2>2, <2>4
<1> HIDE DEF D, G, E
<1>2. h \in Injection(E \ D, G)
  <2>1. h \in [E \ D -> G]
    BY <1>1
  <2>2. ASSUME NEW p \in E \ D, NEW q \in E \ D, h[p] = h[q]
        PROVE  p = q
    <3>1. p[1] = q[1] /\ p[2] - d[p[1]] = q[2] - d[p[1]]
      BY <2>2
    <3>2. p[2] \in Nat /\ q[2] \in Nat /\ d[p[1]] \in Nat
      BY <1>1
    <3>3. p[2] = q[2]
      BY <3>1, <3>2
    <3> QED
      BY <1>1, <3>1, <3>3
  <2> QED
    BY <2>1, <2>2, Fun_IsInj
<1>3. /\ IsFiniteSet(D) /\ IsFiniteSet(G) /\ IsFiniteSet(E)
      /\ CopiesIn(d) = Cardinality(D) /\ CopiesIn(g) = Cardinality(G)
      /\ CopiesIn(e) = Cardinality(E)
      /\ Cardinality(D) \in Nat /\ Cardinality(G) \in Nat /\ Cardinality(E) \in Nat
  BY CopiedIsFinite DEF D, G, E
<1>4. Cardinality(E \ D) <= Cardinality(G)
  BY <1>2, <1>3, FS_Injection
<1>5. Cardinality(E \ D) = Cardinality(E) - Cardinality(E \cap D)
  BY <1>3, FS_Difference
<1>6. Cardinality(E \cap D) <= Cardinality(D) /\ Cardinality(E \cap D) \in Nat
  BY <1>3, FS_Intersection, FS_CardinalityType
<1> QED
  BY <1>3, <1>4, <1>5, <1>6

\* One that lacks a copy of a label, and has too many of none, is not.
LEMMA SumLacks ==
    ASSUME NEW d \in [Index -> Nat], NEW g \in [Index -> Nat], NEW e \in [Index -> Nat],
           \A i \in Index : d[i] + g[i] <= e[i],
           NEW k \in Index, d[k] + g[k] < e[k]
    PROVE  CopiesIn(d) + CopiesIn(g) < CopiesIn(e)
<1> DEFINE D == Copied(d)
           G == Copied(g)
           E == Copied(e)
           last == <<k, e[k]>>
           h == [p \in G |-> <<p[1], p[2] + d[p[1]]>>]
<1>1. ASSUME NEW p \in G
      PROVE  /\ p[1] \in Index /\ p[2] \in Nat /\ p = <<p[1], p[2]>>
             /\ d[p[1]] \in Nat
             /\ <<p[1], p[2] + d[p[1]]>> \in (E \ D) \ {last}
  <2>1. PICK i \in Index, n \in Nat : p = <<i, n>>
    BY CopiedIs
  <2>2. 1 <= n /\ n <= g[i]
    BY <2>1, CopiedIs
  <2>3. n + d[i] \in Nat /\ 1 <= n + d[i] /\ n + d[i] <= e[i] /\ ~(n + d[i] <= d[i])
    BY <2>2
  <2>4. <<i, n + d[i]>> \in E \ D
    BY <2>3, CopiedIs
  <2>5. i = k => n + d[i] < e[k]
    BY <2>2
  <2>6. <<i, n + d[i]>> # last
    BY <2>3, <2>5
  <2> QED
    BY <2>1, <2>4, <2>6
<1>2. last \in E \ D /\ D \subseteq E
  <2>1. e[k] \in Nat /\ 1 <= e[k] /\ ~(e[k] <= d[k])
    OBVIOUS
  <2>2. last \in E \ D
    BY <2>1, CopiedIs
  <2>3. ASSUME NEW p \in D
        PROVE  p \in E
    <3>1. PICK i \in Index, n \in Nat : p = <<i, n>>
      BY CopiedIs
    <3>2. 1 <= n /\ n <= d[i]
      BY <3>1, CopiedIs
    <3>3. n <= e[i]
      BY <3>2
    <3> QED
      BY <3>1, <3>2, <3>3, CopiedIs
  <2> QED
    BY <2>2, <2>3
<1> HIDE DEF D, G, E, last
<1>3. h \in Injection(G, (E \ D) \ {last})
  <2>1. h \in [G -> (E \ D) \ {last}]
    BY <1>1
  <2>2. ASSUME NEW p \in G, NEW q \in G, h[p] = h[q]
        PROVE  p = q
    <3>1. p[1] = q[1] /\ p[2] + d[p[1]] = q[2] + d[p[1]]
      BY <2>2
    <3>2. PICK m \in Nat, n \in Nat, x \in Nat : m = p[2] /\ n = q[2] /\ x = d[p[1]]
      BY <1>1
    <3>3. m + x = n + x
      BY <3>1, <3>2
    <3>4. m = n
      BY <3>3
    <3> QED
      BY <1>1, <3>1, <3>2, <3>4
  <2> QED
    BY <2>1, <2>2, Fun_IsInj
<1>4. /\ IsFiniteSet(D) /\ IsFiniteSet(G) /\ IsFiniteSet(E)
      /\ CopiesIn(d) = Cardinality(D) /\ CopiesIn(g) = Cardinality(G)
      /\ CopiesIn(e) = Cardinality(E)
      /\ Cardinality(D) \in Nat /\ Cardinality(G) \in Nat /\ Cardinality(E) \in Nat
  BY CopiedIsFinite DEF D, G, E
<1>5. IsFiniteSet(E \ D) /\ Cardinality(E \ D) = Cardinality(E) - Cardinality(E \cap D)
  BY <1>4, FS_Difference
<1>6. E \cap D = D
  BY <1>2
<1>7. /\ IsFiniteSet((E \ D) \ {last})
      /\ Cardinality((E \ D) \ {last}) = Cardinality(E \ D) - 1
  BY <1>2, <1>5, FS_RemoveElement
<1>8. Cardinality(G) <= Cardinality((E \ D) \ {last})
  BY <1>3, <1>7, FS_Injection
<1>9. Cardinality(E \ D) = Cardinality(E) - Cardinality(D)
  BY <1>5, <1>6
<1> QED
  BY <1>4, <1>7, <1>8, <1>9

-----------------------------------------------------------------------------
(***************************************************************************)
(* The regime.  Jobs come from the directory alone, whose job is inserted  *)
(* and put in the inbox by the thread that prints; and a strip that is     *)
(* full holds all the copies of the job it ends with.                      *)
(***************************************************************************)
JobsFit ==
    \A s \in Seq(StripItem) :
        /\ s # <<>> /\ IsFull(s)
        /\ \A it \in Item : Times(it, s) <= Copies(it[1], it[2])
        => LET j == s[Len(s)][1]
           IN  \A i \in Label(j) : Times(<<j, i>>, s) = Copies(j, i)

Regime == "mqtt" \notin Sources /\ JobsFit

-----------------------------------------------------------------------------
(***************************************************************************)
(* Each copy a tally expects is counted or waits somewhere: in the buffer, *)
(* in the frame, or in the queue of the submission.                        *)
(***************************************************************************)
AtBuffer(j, i)  == Times(<<j, i>>, pending)
AtPrinter(j, i) == IF Sending THEN Cardinality(From(<<j, i>>, batch, at)) ELSE 0
AtSubmit(j, i)  == IF cur = j THEN Times(i, todo) ELSE 0

Waiting(j, i) == AtBuffer(j, i) + AtPrinter(j, i) + AtSubmit(j, i)

Accounts(j, i) ==
    IF acc[j].live
    THEN acc[j].done[i] + acc[j].failed[i] + Waiting(j, i) = acc[j].expected[i]
    ELSE Waiting(j, i) = 0

BalanceInv == \A j \in Job, i \in Index : Accounts(j, i)

\* A label that waits is one to print.
UncommittedInv == \A j \in Job, i \in Index : Waiting(j, i) > 0 => i \notin printed[j]

\* A job in flight is the one submitted, or it waits, or is to be settled.
Unsettled == IF Sending THEN JobsOf(batch)
             ELSE IF pc = "settle" THEN {batch[n][1] : n \in {m \in DOMAIN batch : m >= at}}
             ELSE {}

LiveInv == \A j \in Job : acc[j].live =>
              /\ state[j] = "printing"
              /\ j = cur \/ j \in JobsOf(pending) \/ j \in Unsettled

\* Between submissions there is none; a frame holds all that was buffered, and
\* the last of what the submission has for a strip.
InSend == Sending \/ pc = "settle"

StackInv ==
    /\ pc \in {"boot", "scan", "retry", "poll", "idle", "exit"} => cur = NoJob
    /\ cur = NoJob \/ pc = "submit" => todo = <<>>
    /\ InSend => pending = <<>>
    /\ InSend /\ strip /\ cur \in Job => PrintsDiscrete(cur) \/ todo = <<>>
    /\ pc \in {"connect", "frame"} => at = 0
    /\ pc \in {"credit", "fail", "settle"} => at >= 1

RenderInv ==
    pc = "render" =>
        /\ acc[cur].live /\ label >= 1
        /\ \A n \in DOMAIN pending : pending[n][1] # cur
        /\ \A i \in Index : i >= label => acc[cur].expected[i] = 0

\* A job is submitted that is not in flight, and is then not on the list or in
\* the inbox.
OnceAtATime ==
    /\ handing = NoJob /\ inbox \in Seq(Job)
    /\ \A m, n \in DOMAIN inbox : inbox[m] = inbox[n] => m = n
    /\ \A n \in DOMAIN inbox : state[inbox[n]] = "queued" /\ inbox[n] # cur
    /\ inbox # <<>> =>
          /\ scan = {} /\ pc \notin {"boot", "scan", "retry"}
          /\ pc = "poll" \/ caller \in {"none", "item", "stop"}
    /\ pc = "poll" => scan = {}
    /\ pc = "scan" => caller \in {"recover", "retry"}
    /\ pc = "boot" => \A j \in Job : ~acc[j].live
    /\ pc = "submit" => ~acc[cur].live
    /\ cur \notin scan
    /\ caller = "recover" => \A j \in scan : ~acc[j].live

PrintingInv == status = "printing" => InSend \/ pc = "discrete"

RegimeInv == BalanceInv /\ UncommittedInv /\ LiveInv /\ StackInv /\ RenderInv
             /\ OnceAtATime /\ PrintingInv

-----------------------------------------------------------------------------
(***************************************************************************)
(* What waits, and how the worker moves it.                                *)
(***************************************************************************)
LEMMA WaitingType ==
    ASSUME TypeInv, NEW j \in Job, NEW i \in Index
    PROVE  /\ AtBuffer(j, i) \in Nat /\ AtPrinter(j, i) \in Nat /\ AtSubmit(j, i) \in Nat
           /\ Waiting(j, i) \in Nat
<1>1. pending \in Seq(Item) /\ batch \in Seq(Item) /\ todo \in Seq(Index) /\ at \in Nat
  BY DEF TypeInv, TypeOK
<1>2. AtBuffer(j, i) \in Nat
  BY <1>1, TimesType DEF AtBuffer
<1>3. AtPrinter(j, i) \in Nat
  BY <1>1, FromIsFinite DEF AtPrinter
<1>4. AtSubmit(j, i) \in Nat
  BY <1>1, TimesType DEF AtSubmit
<1> QED
  BY <1>2, <1>3, <1>4 DEF Waiting

LEMMA CountedType ==
    ASSUME TypeInv, NEW j \in Job, NEW i \in Index
    PROVE  acc[j].done[i] \in Nat /\ acc[j].failed[i] \in Nat /\ acc[j].expected[i] \in Nat
BY DEF TypeInv, TypeOK, Tally

\* What is in a buffer or in what is left of a frame waits.
LEMMA BufferWaits ==
    ASSUME TypeInv, NEW n \in DOMAIN pending
    PROVE  \E j \in Job, i \in Index :
              pending[n] = <<j, i>> /\ i \in Label(j) /\ AtBuffer(j, i) > 0 /\ Waiting(j, i) > 0
<1>1. pending \in Seq(Item)
  BY DEF TypeInv, TypeOK
<1>2. pending[n] \in Item
  BY <1>1
<1>3. PICK j \in Job, i \in Index : pending[n] = <<j, i>> /\ i \in Label(j)
  BY <1>2 DEF Item
<1>4. AtBuffer(j, i) > 0
  BY <1>1, <1>3, TimesType DEF AtBuffer
<1> QED
  BY <1>3, <1>4, WaitingType DEF Waiting

LEMMA FrameWaits ==
    ASSUME TypeInv, Sending, NEW n \in DOMAIN batch, n >= at
    PROVE  \E j \in Job, i \in Index :
              batch[n] = <<j, i>> /\ i \in Label(j) /\ AtPrinter(j, i) > 0 /\ Waiting(j, i) > 0
<1>1. batch \in Seq(Item) /\ at \in Nat
  BY DEF TypeInv, TypeOK
<1>2. batch[n] \in Item
  BY <1>1
<1>3. PICK j \in Job, i \in Index : batch[n] = <<j, i>> /\ i \in Label(j)
  BY <1>2 DEF Item
<1>4. n \in From(<<j, i>>, batch, at)
  BY <1>3 DEF From
<1>5. Cardinality(From(<<j, i>>, batch, at)) # 0 /\ Cardinality(From(<<j, i>>, batch, at)) \in Nat
  BY <1>1, <1>4, FromIsFinite, FS_EmptySet
<1>6. AtPrinter(j, i) > 0
  BY <1>5 DEF AtPrinter
<1> QED
  BY <1>3, <1>6, WaitingType DEF Waiting

LEMMA QueueWaits ==
    ASSUME TypeInv, cur \in Job, NEW n \in DOMAIN todo
    PROVE  todo[n] \in Index /\ AtSubmit(cur, todo[n]) > 0 /\ Waiting(cur, todo[n]) > 0
<1>1. todo \in Seq(Index)
  BY DEF TypeInv, TypeOK
<1>2. todo[n] \in Index
  BY <1>1
<1>3. AtSubmit(cur, todo[n]) > 0
  BY <1>1, <1>2, TimesType DEF AtSubmit
<1> QED
  BY <1>2, <1>3, WaitingType DEF Waiting

\* A job with a label that waits is in flight.
LEMMA WaitsLive ==
    ASSUME BalanceInv, NEW j \in Job, NEW i \in Index, Waiting(j, i) > 0
    PROVE  acc[j].live
BY DEF BalanceInv, Accounts

\* A label to be credited or failed has a tally.
LEMMA NoOrphan ==
    ASSUME TypeInv, BalanceInv
    PROVE  ~NoTallyToCredit
<1> SUFFICES ASSUME NoTallyToCredit PROVE FALSE
  OBVIOUS
<1>1. Sending /\ at \in DOMAIN batch /\ ~acc[batch[at][1]].live /\ at >= at
  BY DEF NoTallyToCredit, Sending, TypeInv, TypeOK
<1>2. PICK j \in Job, i \in Index : batch[at] = <<j, i>> /\ Waiting(j, i) > 0
  BY <1>1, FrameWaits
<1> QED
  BY <1>1, <1>2, WaitsLive

\* Nothing waits in what is empty.
LEMMA NothingWaits ==
    ASSUME NEW j, NEW i
    PROVE  /\ pending = <<>> => AtBuffer(j, i) = 0
           /\ batch = <<>> => AtPrinter(j, i) = 0
           /\ ~Sending => AtPrinter(j, i) = 0
           /\ todo = <<>> => AtSubmit(j, i) = 0
<1>1. pending = <<>> => AtBuffer(j, i) = 0
  BY TimesEmpty DEF AtBuffer
<1>2. batch = <<>> => AtPrinter(j, i) = 0
  <2>1. From(<<j, i>>, <<>>, at) = {}
    BY DEF From
  <2> QED
    BY <2>1, FS_EmptySet DEF AtPrinter
<1>3. todo = <<>> => AtSubmit(j, i) = 0
  BY TimesEmpty DEF AtSubmit
<1> QED
  BY <1>1, <1>2, <1>3 DEF AtPrinter

LEMMA NothingWaitsNext ==
    ASSUME NEW j, NEW i
    PROVE  /\ pending' = <<>> => AtBuffer(j, i)' = 0
           /\ batch' = <<>> => AtPrinter(j, i)' = 0
           /\ ~Sending' => AtPrinter(j, i)' = 0
           /\ todo' = <<>> => AtSubmit(j, i)' = 0
<1>1. pending' = <<>> => AtBuffer(j, i)' = 0
  BY TimesEmpty DEF AtBuffer
<1>2. batch' = <<>> => AtPrinter(j, i)' = 0
  <2>1. From(<<j, i>>, <<>>, at') = {}
    BY DEF From
  <2> QED
    BY <2>1, FS_EmptySet DEF AtPrinter
<1>3. todo' = <<>> => AtSubmit(j, i)' = 0
  BY TimesEmpty DEF AtSubmit
<1> QED
  BY <1>1, <1>2, <1>3 DEF AtPrinter

\* Where the copies stay, so many wait as before.
LEMMA SameWaiting ==
    ASSUME UNCHANGED <<pending, batch, at, todo>>, Sending' <=> Sending,
           UNCHANGED cur \/ todo = <<>>, NEW j, NEW i
    PROVE  Waiting(j, i)' = Waiting(j, i)
<1>1. AtBuffer(j, i)' = AtBuffer(j, i)
  BY DEF AtBuffer
<1>2. AtPrinter(j, i)' = AtPrinter(j, i)
  BY DEF AtPrinter
<1>3. AtSubmit(j, i)' = AtSubmit(j, i)
  <2>1. CASE todo = <<>>
    BY <2>1, NothingWaits, NothingWaitsNext
  <2>2. CASE UNCHANGED cur
    BY <2>2 DEF AtSubmit
  <2> QED
    BY <2>1, <2>2
<1> QED
  BY <1>1, <1>2, <1>3 DEF Waiting

\* A frame that is sent holds what it is made of.
LEMMA SentWaits ==
    ASSUME NEW s \in Seq(Item), batch' = s, at' = 0, pc' = "connect", NEW j, NEW i
    PROVE  AtPrinter(j, i)' = Times(<<j, i>>, s)
<1>1. From(<<j, i>>, s, 0) = {n \in DOMAIN s : s[n] = <<j, i>>}
  BY DEF From
<1> QED
  BY <1>1 DEF AtPrinter, Sending, Times

\* A frame that has begun holds as much as when it was sent.
LEMMA BegunWaits ==
    ASSUME TypeInv, UNCHANGED batch, Sending, Sending', at = 0, at' = 1, NEW j, NEW i
    PROVE  AtPrinter(j, i)' = AtPrinter(j, i)
<1>1. From(<<j, i>>, batch, 1) = From(<<j, i>>, batch, 0)
  BY DEF From, TypeInv, TypeOK
<1> QED
  BY <1>1 DEF AtPrinter, Sending

\* Nothing is left of a frame accounted to its end.
LEMMA PastEndWaits ==
    ASSUME TypeInv, at \notin DOMAIN batch, at >= 1, NEW j, NEW i
    PROVE  AtPrinter(j, i) = 0
<1>1. From(<<j, i>>, batch, at) = {}
  BY DEF From, TypeInv, TypeOK
<1> QED
  BY <1>1, FS_EmptySet DEF AtPrinter

-----------------------------------------------------------------------------
(***************************************************************************)
(* The balance: steps that leave it, that move a copy, that drop a tally.  *)
(***************************************************************************)
CountsKept == \A j \in Job : /\ acc'[j].live = acc[j].live
                             /\ acc'[j].done = acc[j].done
                             /\ acc'[j].failed = acc[j].failed
                             /\ acc'[j].expected = acc[j].expected

WaitingKept == \A j \in Job, i \in Index : Waiting(j, i)' = Waiting(j, i)

Balanced == BalanceInv /\ UncommittedInv

LEMMA BalanceKept ==
    ASSUME Balanced, CountsKept, WaitingKept, UNCHANGED printed
    PROVE  Balanced'
BY DEF Balanced, BalanceInv, UncommittedInv, Accounts, CountsKept, WaitingKept

\* Nothing of the jobs whose tallies are dropped waits any more.
LEMMA BalanceForgets ==
    ASSUME Balanced, UNCHANGED printed, NEW jobs \in SUBSET Job,
           acc' = [j \in Job |-> IF j \in jobs THEN NoTally ELSE acc[j]],
           \A j \in Job, i \in Index :
               Waiting(j, i)' = IF j \in jobs THEN 0 ELSE Waiting(j, i)
    PROVE  Balanced'
<1>1. ASSUME NEW j \in Job, NEW i \in Index
      PROVE  Accounts(j, i)' /\ (Waiting(j, i)' > 0 => i \notin printed'[j])
  <2>1. CASE j \in jobs
    BY <2>1 DEF Accounts, NoTally
  <2>2. CASE j \notin jobs
    BY <2>2 DEF Accounts, Balanced, BalanceInv, UncommittedInv
  <2> QED
    BY <2>1, <2>2
<1> QED
  BY <1>1 DEF Balanced, BalanceInv, UncommittedInv

\* A job is settled when, and only when, none of its copies waits.
LEMMA SettlesComplete ==
    ASSUME TypeInv, BalanceInv, NEW j \in Job, MaybeFinalize(j)
    PROVE  \/ /\ UNCHANGED <<spoolVars, acc>>
              /\ acc[j].live => \E i \in Index : Waiting(j, i) > 0
           \/ /\ Finalize(j) /\ acc[j].live
              /\ \A i \in Index : Waiting(j, i) = 0
<1>1. /\ acc[j].done \in [Index -> Nat] /\ acc[j].failed \in [Index -> Nat]
      /\ acc[j].expected \in [Index -> Nat]
  BY DEF TypeInv, TypeOK, Tally
<1>2. \A i \in Index : Waiting(j, i) \in Nat
  BY WaitingType
<1>3. CASE ~acc[j].live
  BY <1>3 DEF MaybeFinalize
<1>4. CASE acc[j].live
  <2> DEFINE d == acc[j].done
             g == acc[j].failed
             e == acc[j].expected
  <2>1. \A i \in Index : d[i] + g[i] + Waiting(j, i) = e[i]
    BY <1>4 DEF BalanceInv, Accounts
  <2>2. d \in [Index -> Nat] /\ g \in [Index -> Nat] /\ e \in [Index -> Nat]
    BY <1>1
  <2>3. /\ IsComplete(acc[j]) <=> CopiesIn(d) + CopiesIn(g) >= CopiesIn(e)
        /\ CopiesIn(d) \in Nat /\ CopiesIn(g) \in Nat /\ CopiesIn(e) \in Nat
    BY <2>2, CopiedIsFinite DEF IsComplete
  <2> HIDE DEF d, g, e
  <2>4. CASE \E i \in Index : Waiting(j, i) > 0
    <3>1. PICK i \in Index : Waiting(j, i) > 0
      BY <2>4
    <3>2. \A k \in Index : d[k] + g[k] <= e[k]
      <4> SUFFICES ASSUME NEW k \in Index PROVE d[k] + g[k] <= e[k]
        OBVIOUS
      <4>1. d[k] \in Nat /\ g[k] \in Nat /\ e[k] \in Nat /\ Waiting(j, k) \in Nat
        BY <1>2, <2>2
      <4> QED
        BY <2>1, <4>1
    <3>3. d[i] + g[i] < e[i]
      <4>1. d[i] \in Nat /\ g[i] \in Nat /\ e[i] \in Nat /\ Waiting(j, i) \in Nat
        BY <1>2, <2>2
      <4> QED
        BY <2>1, <3>1, <4>1
    <3>4. CopiesIn(d) + CopiesIn(g) < CopiesIn(e)
      BY <2>2, <3>2, <3>3, SumLacks
    <3>5. ~IsComplete(acc[j])
      BY <2>3, <3>4
    <3> QED
      BY <2>4, <3>5 DEF MaybeFinalize
  <2>5. CASE \A i \in Index : ~(Waiting(j, i) > 0)
    <3>1. \A i \in Index : Waiting(j, i) = 0
      BY <1>2, <2>5
    <3>2. \A k \in Index : e[k] <= d[k] + g[k]
      <4> SUFFICES ASSUME NEW k \in Index PROVE e[k] <= d[k] + g[k]
        OBVIOUS
      <4>1. d[k] \in Nat /\ g[k] \in Nat /\ e[k] \in Nat
        BY <2>2
      <4> QED
        BY <2>1, <3>1, <4>1
    <3>3. IsComplete(acc[j])
      BY <2>2, <2>3, <3>2, SumReaches
    <3> QED
      BY <1>4, <3>1, <3>3 DEF MaybeFinalize
  <2> QED
    BY <2>4, <2>5
<1> QED
  BY <1>3, <1>4

\* Settling a job leaves the balance when the copies stay where they are.
LEMMA SettlingBalances ==
    ASSUME TypeInv, Balanced, NEW j \in Job, MaybeFinalize(j), WaitingKept
    PROVE  Balanced'
<1>1. CASE UNCHANGED <<spoolVars, acc>>
  BY <1>1, BalanceKept DEF CountsKept
<1>2. CASE Finalize(j) /\ \A i \in Index : Waiting(j, i) = 0
  <2>1. acc' = [k \in Job |-> IF k \in {j} THEN NoTally ELSE acc[k]]
    BY <1>2 DEF Finalize, TypeInv, TypeOK
  <2>2. UNCHANGED printed
    BY <1>2 DEF Finalize, Finish
  <2>3. \A k \in Job, i \in Index : Waiting(k, i)' = IF k \in {j} THEN 0 ELSE Waiting(k, i)
    BY <1>2 DEF WaitingKept
  <2> QED
    BY <2>1, <2>2, <2>3, BalanceForgets
<1> QED
  BY <1>1, <1>2, SettlesComplete DEF Balanced

\* The buffer becomes the frame.
LEMMA BufferSent ==
    ASSUME TypeInv, ~Sending, SendStrip(pending), pc' = "connect", UNCHANGED <<cur, todo>>
    PROVE  WaitingKept
<1> SUFFICES ASSUME NEW j \in Job, NEW i \in Index
             PROVE  Waiting(j, i)' = Waiting(j, i)
  BY DEF WaitingKept
<1>1. pending \in Seq(Item)
  BY DEF TypeInv, TypeOK
<1>2. /\ AtBuffer(j, i)' = 0 /\ AtPrinter(j, i) = 0
      /\ AtSubmit(j, i)' = AtSubmit(j, i)
  BY NothingWaits, NothingWaitsNext DEF SendStrip, AtSubmit
<1>3. AtPrinter(j, i)' = AtBuffer(j, i)
  BY <1>1, SentWaits DEF SendStrip, AtBuffer
<1> QED
  BY <1>2, <1>3, WaitingType DEF Waiting

LEMMA ForgetBalances ==
    ASSUME Balanced, Forget, UNCHANGED printed
    PROVE  Balanced'
<1>1. ASSUME NEW j \in Job, NEW i \in Index
      PROVE  Waiting(j, i)' = 0
  BY NothingWaitsNext DEF Forget, NoSend, Waiting
<1>2. acc' = [j \in Job |-> IF j \in Job THEN NoTally ELSE acc[j]]
  BY DEF Forget
<1> QED
  BY <1>1, <1>2, BalanceForgets

LEMMA LoopBalance == TypeInv /\ Balanced /\ StackInv /\ Loop => Balanced'
<1> SUFFICES ASSUME TypeInv, Balanced, StackInv, Loop PROVE Balanced'
  OBVIOUS
<1>1. CASE Exit
  BY <1>1, ForgetBalances DEF Exit
<1>2. CASE SendStrip(pending) /\ pc' = "connect"
  <2>1. GetFlush \/ Tick \/ Shutdown
    BY <1>2 DEF Loop, Boot, ScanDone, PollDone, GetJob, RetryQueued, Resubmit, Exit,
                Forget, Goto
  <2>2. ~Sending /\ UNCHANGED <<acc, printed, cur, todo>>
    BY <2>1 DEF GetFlush, Tick, Shutdown, Sending
  <2> QED
    BY <1>2, <2>2, BufferSent, BalanceKept DEF CountsKept
<1>3. CASE ~(SendStrip(pending) /\ pc' = "connect") /\ ~Exit
  <2>1. /\ UNCHANGED <<acc, printed, pending, batch, at, todo>> /\ ~Sending /\ ~Sending'
        /\ UNCHANGED cur \/ pc \in {"scan", "idle"}
    BY <1>3 DEF Loop, Boot, ScanDone, PollDone, GetJob, GetFlush, Tick, RetryQueued,
                Shutdown, Resubmit, Goto, Sending
  <2>2. UNCHANGED cur \/ todo = <<>>
    BY <2>1 DEF StackInv
  <2>3. WaitingKept
    BY <2>1, <2>2, SameWaiting DEF WaitingKept
  <2> QED
    BY <2>1, <2>3, BalanceKept DEF CountsKept
<1> QED
  BY <1>1, <1>2, <1>3

LEMMA WorldBalance ==
    TypeInv /\ Balanced /\ (World \/ UNCHANGED vars) => Balanced'
<1> SUFFICES ASSUME TypeInv, Balanced, World \/ UNCHANGED vars PROVE Balanced'
  OBVIOUS
<1>1. CASE Crash
  BY <1>1, ForgetBalances DEF Crash
<1>2. CASE ~Crash
  <2>1. UNCHANGED <<acc, printed, pending, batch, at, todo, cur, pc>>
    BY <1>2 DEF World, PollFile, Deliver, GapPasses, Insert, Enqueue, FlushCommand, Stop, vars
  <2>2. WaitingKept
    BY <2>1, SameWaiting DEF WaitingKept, Sending
  <2> QED
    BY <2>1, <2>2, BalanceKept DEF CountsKept
<1> QED
  BY <1>1, <1>2

\* Opening a tally, of which nothing waits yet.
LEMMA AcceptBalance ==
    ASSUME TypeInv, Balanced, StackInv, OnceAtATime, Accept
    PROVE  Balanced'
<1>1. /\ cur \in Job /\ pc = "submit" /\ todo = <<>> /\ ~acc[cur].live
      /\ acc' = [acc EXCEPT ![cur] = NewTally] /\ acc \in [Job -> Tally]
      /\ todo' = <<>> /\ UNCHANGED <<printed, pending, batch, at, cur>>
      /\ ~Sending /\ ~Sending'
  BY DEF Accept, Goto, Mark, TypeInv, TypeOK, CurOK, StackInv, OnceAtATime, Sending
<1>2. WaitingKept
  BY <1>1, SameWaiting DEF WaitingKept
<1>3. ASSUME NEW j \in Job, NEW i \in Index
      PROVE  Accounts(j, i)'
  <2>1. CASE j = cur
    <3>1. acc'[j].live /\ acc'[j].done[i] = 0 /\ acc'[j].failed[i] = 0 /\ acc'[j].expected[i] = 0
      BY <1>1, <2>1 DEF NewTally, NoTally, Zero
    <3>2. Waiting(j, i)' = 0
      BY <1>1, <1>2, <2>1 DEF WaitingKept, Balanced, BalanceInv, Accounts
    <3> QED
      BY <3>1, <3>2 DEF Accounts
  <2>2. CASE j # cur
    BY <1>1, <1>2, <2>2 DEF WaitingKept, Balanced, BalanceInv, Accounts
  <2> QED
    BY <2>1, <2>2
<1>4. UncommittedInv'
  BY <1>1, <1>2 DEF WaitingKept, Balanced, UncommittedInv
<1> QED
  BY <1>3, <1>4 DEF Balanced, BalanceInv

\* Filling it: the copies expected of a label are queued.
LEMMA QueueBalance ==
    ASSUME TypeInv, Balanced, RenderInv, pc = "render", pc' = "render",
           label \in Label(cur), QueueCopies(label), label \notin printed[cur],
           UNCHANGED <<cur, pending, batch, at>>
    PROVE  Balanced'
<1> DEFINE c == Copies(cur, label)
<1>1. /\ cur \in Job /\ label \in Index /\ c \in Nat \ {0}
      /\ Expects(cur, label, c) /\ TallyTypeOK
      /\ todo \in Seq(Index) /\ todo' = todo \o [n \in 1..c |-> label]
      /\ UNCHANGED printed
  BY LabelFacts DEF QueueCopies, Expects, RecordDedupe, TypeInv, TypeOK, CurOK, TallyTypeOK
<1>2. acc[cur].live /\ acc[cur].expected[label] = 0
  <2>1. label >= label
    BY DEF TypeInv, TypeOK
  <2> QED
    BY <1>1, <2>1 DEF RenderInv
<1> HIDE DEF c
<1>3. ASSUME NEW j \in Job, NEW i \in Index
      PROVE  Waiting(j, i)' = Waiting(j, i) + (IF j = cur /\ i = label THEN c ELSE 0)
  <2>1. Times(i, todo') = Times(i, todo) + (IF label = i THEN c ELSE 0)
    BY <1>1, TimesRepeat
  <2>2. AtBuffer(j, i)' = AtBuffer(j, i) /\ AtPrinter(j, i)' = AtPrinter(j, i)
    BY DEF AtBuffer, AtPrinter, Sending
  <2>3. AtSubmit(j, i)' = AtSubmit(j, i) + (IF j = cur /\ i = label THEN c ELSE 0)
    <3>1. CASE j = cur
      BY <2>1, <3>1 DEF AtSubmit
    <3>2. CASE j # cur
      BY <3>2 DEF AtSubmit
    <3> QED
      BY <3>1, <3>2
  <2>4. /\ AtBuffer(j, i) \in Nat /\ AtPrinter(j, i) \in Nat /\ AtSubmit(j, i) \in Nat
    BY WaitingType
  <2> QED
    BY <1>1, <2>2, <2>3, <2>4 DEF Waiting
<1>4. ASSUME NEW j \in Job, NEW i \in Index
      PROVE  Accounts(j, i)'
  <2>1. /\ acc'[j].done = acc[j].done /\ acc'[j].live = acc[j].live
        /\ acc'[j].expected[i] = IF j = cur /\ i = label THEN c ELSE acc[j].expected[i]
    BY <1>1, ExpectedUpdate
  <2>2. acc'[j].failed = acc[j].failed
    BY <1>1 DEF Expects, Tally, TallyTypeOK
  <2>3. Accounts(j, i)
    BY DEF Balanced, BalanceInv
  <2>4. /\ acc[j].done[i] \in Nat /\ acc[j].failed[i] \in Nat /\ Waiting(j, i) \in Nat
    BY CountedType, WaitingType
  <2>5. CASE j = cur /\ i = label
    <3>1. acc[j].done[i] + acc[j].failed[i] + Waiting(j, i) = 0
      BY <1>2, <2>3, <2>5 DEF Accounts
    <3>2. acc[j].done[i] + acc[j].failed[i] + (Waiting(j, i) + c) = c
      <4>1. PICK d \in Nat, g \in Nat, w \in Nat :
               d = acc[j].done[i] /\ g = acc[j].failed[i] /\ w = Waiting(j, i)
        BY <2>4
      <4>2. d + g + w = 0
        BY <3>1, <4>1
      <4>3. d + g + (w + c) = c
        BY <1>1, <4>2
      <4> QED
        BY <4>1, <4>3
    <3> QED
      BY <1>2, <1>3, <2>1, <2>2, <2>5, <3>2 DEF Accounts
  <2>6. CASE ~(j = cur /\ i = label)
    <3>1. Waiting(j, i)' = Waiting(j, i)
      BY <1>3, <2>4, <2>6
    <3> QED
      BY <2>1, <2>2, <2>3, <2>6, <3>1 DEF Accounts
  <2> QED
    BY <2>5, <2>6
<1>5. ASSUME NEW j \in Job, NEW i \in Index, Waiting(j, i)' > 0
      PROVE  i \notin printed'[j]
  <2>1. CASE j = cur /\ i = label
    BY <1>1, <2>1
  <2>2. CASE ~(j = cur /\ i = label)
    <3>1. Waiting(j, i) > 0
      BY <1>3, <1>5, <2>2, WaitingType
    <3> QED
      BY <1>1, <3>1 DEF Balanced, UncommittedInv
  <2> QED
    BY <2>1, <2>2
<1> QED
  BY <1>4, <1>5 DEF Balanced, BalanceInv, UncommittedInv

LEMMA RenderBalance ==
    ASSUME TypeInv, Balanced, RenderInv, RenderLabel
    PROVE  Balanced'
<1>1. /\ cur \in Job /\ label \in Index /\ pc = "render" /\ pc' = "render"
      /\ UNCHANGED <<cur, pending, batch, at>> /\ TallyTypeOK
  BY LabelFacts DEF RenderLabel, TypeInv, TypeOK, CurOK, TallyTypeOK
<1>2. CASE \E s \in LabelState : Settle(label, s)
  <2>1. PICK s \in LabelState : acc' = [acc EXCEPT ![cur].render[label] = s]
    BY <1>2 DEF Settle
  <2>2. UNCHANGED <<todo, printed>>
    BY <1>2 DEF Settle
  <2>3. CountsKept
    BY <1>1, <2>1 DEF CountsKept, Tally, TallyTypeOK
  <2>4. WaitingKept
    BY <1>1, <2>2, SameWaiting DEF WaitingKept, Sending
  <2> QED
    BY <2>2, <2>3, <2>4, BalanceKept
<1>3. CASE QueueCopies(label) /\ label \notin printed[cur]
  BY <1>1, <1>3, QueueBalance DEF RenderLabel
<1> QED
  BY <1>2, <1>3 DEF RenderLabel, LabelState, PrintedLabels

\* A copy of the submission that goes to the buffer waits there.
LEMMA AddedWaits ==
    ASSUME TypeInv, ~Sending, cur \in Job, todo \in Seq(Label(cur)), todo # <<>>,
           NEW s \in Seq(Item), s = Append(pending, <<cur, Head(todo)>>),
           NEW j \in Job, NEW i \in Index
    PROVE  /\ Times(<<j, i>>, s) \in Nat /\ Times(i, Tail(todo)) \in Nat
           /\ Waiting(j, i) = Times(<<j, i>>, s)
                                + (IF cur = j THEN Times(i, Tail(todo)) ELSE 0)
<1>1. /\ pending \in Seq(Item) /\ <<cur, Head(todo)>> \in Item
      /\ AtPrinter(j, i) = 0
  BY HeadTailProperties, LabelFacts, NothingWaits DEF TypeInv, TypeOK, Item
<1>2. Times(<<j, i>>, s) = AtBuffer(j, i) + (IF <<cur, Head(todo)>> = <<j, i>> THEN 1 ELSE 0)
  <2> DEFINE x == <<j, i>>
             y == <<cur, Head(todo)>>
  <2>1. pending \in Seq(Item) /\ y \in Item
    BY <1>1
  <2> HIDE DEF x, y
  <2>2. Times(x, Append(pending, y)) = Times(x, pending) + (IF y = x THEN 1 ELSE 0)
    BY <2>1, TimesAppend
  <2> QED
    BY <2>2 DEF AtBuffer, x, y
<1>3. Times(i, todo) = Times(i, Tail(todo)) + (IF Head(todo) = i THEN 1 ELSE 0)
  BY TimesTail
<1>4. Times(i, Tail(todo)) \in Nat /\ Times(<<j, i>>, s) \in Nat
  BY TimesType, HeadTailProperties
<1>5. AtSubmit(j, i) = (IF cur = j THEN Times(i, Tail(todo)) ELSE 0)
                         + (IF <<cur, Head(todo)>> = <<j, i>> THEN 1 ELSE 0)
  <2>1. CASE j = cur
    BY <1>3, <2>1 DEF AtSubmit
  <2>2. CASE j # cur
    BY <2>2 DEF AtSubmit
  <2> QED
    BY <2>1, <2>2
<1>6. Waiting(j, i) = AtBuffer(j, i) + AtSubmit(j, i) /\ AtBuffer(j, i) \in Nat
  BY <1>1, WaitingType DEF Waiting
<1> QED
  BY <1>2, <1>4, <1>5, <1>6

\* It goes with it into the frame if the buffer is full.
LEMMA AddWaits ==
    ASSUME TypeInv, ~Sending, cur \in Job, todo \in Seq(Label(cur)), todo # <<>>,
           todo' = Tail(todo), UNCHANGED cur,
           NEW s \in Seq(Item), s = Append(pending, <<cur, Head(todo)>>),
           \/ pending' = s /\ ~Sending'
           \/ pending' = <<>> /\ batch' = s /\ at' = 0 /\ pc' = "connect"
    PROVE  WaitingKept
<1> SUFFICES ASSUME NEW j \in Job, NEW i \in Index
             PROVE  Waiting(j, i)' = Waiting(j, i)
  BY DEF WaitingKept
<1>1. /\ Times(<<j, i>>, s) \in Nat /\ Times(i, Tail(todo)) \in Nat
      /\ Waiting(j, i) = Times(<<j, i>>, s)
                           + (IF cur = j THEN Times(i, Tail(todo)) ELSE 0)
  BY AddedWaits
<1>2. AtBuffer(j, i)' + AtPrinter(j, i)' = Times(<<j, i>>, s)
  <2>1. CASE pending' = s /\ ~Sending'
    BY <1>1, <2>1, NothingWaitsNext DEF AtBuffer
  <2>2. CASE pending' = <<>> /\ batch' = s /\ at' = 0 /\ pc' = "connect"
    <3>1. AtBuffer(j, i)' = 0
      BY <2>2, NothingWaitsNext
    <3>2. AtPrinter(j, i)' = Times(<<j, i>>, s)
      BY <2>2, SentWaits
    <3> QED
      BY <1>1, <3>1, <3>2
  <2> QED
    BY <2>1, <2>2
<1>3. AtSubmit(j, i)' = IF cur = j THEN Times(i, Tail(todo)) ELSE 0
  BY DEF AtSubmit
<1> QED
  BY <1>1, <1>2, <1>3 DEF Waiting

LEMMA SubmitBalance ==
    TypeInv /\ Balanced /\ StackInv /\ OnceAtATime /\ RenderInv /\ Submit => Balanced'
<1> SUFFICES ASSUME TypeInv, Balanced, StackInv, OnceAtATime, RenderInv, Submit
             PROVE  Balanced'
  OBVIOUS
<1>1. CASE Reject \/ StartPrinting
  <2>1. /\ UNCHANGED <<acc, printed, pending, batch, at>> /\ ~Sending /\ ~Sending'
        /\ UNCHANGED <<cur, todo>> \/ (todo = <<>> /\ todo' = <<>>)
    BY <1>1, ReturnType DEF Reject, StartPrinting, EndSubmit, Return, Goto, Finish, Sending,
       StackInv
  <2>2. WaitingKept
    BY <2>1, SameWaiting DEF WaitingKept
  <2> QED
    BY <2>1, <2>2, BalanceKept DEF CountsKept
<1>2. CASE Accept
  BY <1>2, AcceptBalance
<1>3. CASE RenderLabel
  BY <1>3, RenderBalance
<1>4. CASE NothingToPrint \/ Buffered \/ DiscreteDone
  <2>1. /\ cur \in Job /\ todo = <<>> /\ todo' = <<>> /\ UNCHANGED <<pending, batch, at>>
        /\ ~Sending /\ ~Sending'
    BY <1>4, ReturnType DEF NothingToPrint, Buffered, DiscreteDone, EndSubmit, Return,
       Sending, TypeInv, CurOK
  <2>2. WaitingKept
    BY <2>1, SameWaiting DEF WaitingKept
  <2>3. CASE Buffered \/ DiscreteDone
    BY <2>1, <2>2, <2>3, SettlingBalances DEF Buffered, DiscreteDone
  <2>4. CASE NothingToPrint
    <3>1. acc' = [j \in Job |-> IF j \in {cur} THEN NoTally ELSE acc[j]] /\ UNCHANGED printed
      BY <2>1, <2>4 DEF NothingToPrint, Finalize, Finish, TypeInv, TypeOK
    <3>2. ASSUME NEW i \in Index
          PROVE  Waiting(cur, i) = 0
      <4>1. AtPrinter(cur, i) = 0 /\ AtSubmit(cur, i) = 0
        BY <2>1, NothingWaits
      <4>2. AtBuffer(cur, i) = 0
        <5>1. pending \in Seq(Item)
          BY DEF TypeInv, TypeOK
        <5>2. \A n \in DOMAIN pending : pending[n] # <<cur, i>>
          BY <2>4 DEF NothingToPrint, RenderInv
        <5>3. ~(Times(<<cur, i>>, pending) > 0) /\ Times(<<cur, i>>, pending) \in Nat
          BY <5>1, <5>2, TimesType
        <5> QED
          BY <5>3 DEF AtBuffer
      <4> QED
        BY <4>1, <4>2 DEF Waiting
    <3>3. \A j \in Job, i \in Index : Waiting(j, i)' = IF j \in {cur} THEN 0 ELSE Waiting(j, i)
      BY <2>2, <3>2 DEF WaitingKept
    <3> QED
      BY <2>1, <3>1, <3>3, BalanceForgets
  <2> QED
    BY <1>4, <2>3, <2>4
<1>5. CASE AddLabel
  <2> DEFINE s == Append(pending, <<cur, Head(todo)>>)
  <2>1. /\ cur \in Job /\ todo \in Seq(Label(cur)) /\ todo # <<>> /\ todo' = Tail(todo)
        /\ UNCHANGED <<cur, acc, printed>> /\ ~Sending /\ pending \in Seq(Item)
    BY <1>5 DEF AddLabel, TypeInv, TypeOK, CurOK, TodoOK, Sending
  <2>2. s \in Seq(Item)
    BY <2>1, HeadTailProperties, LabelFacts DEF Item
  <2>3. \/ pending' = s /\ UNCHANGED pc
        \/ SendStrip(s) /\ pc' = "connect"
    BY <1>5 DEF AddLabel, Goto
  <2>4. \/ pending' = s /\ ~Sending'
        \/ pending' = <<>> /\ batch' = s /\ at' = 0 /\ pc' = "connect"
    <3> HIDE DEF s
    <3> QED
      BY <2>1, <2>3 DEF SendStrip, Sending
  <2>5. WaitingKept
    BY <2>1, <2>2, <2>4, AddWaits
  <2> QED
    BY <2>1, <2>5, BalanceKept DEF CountsKept
<1>6. CASE FlushJob \/ FlushBefore
  <2>1. ~Sending /\ SendStrip(pending) /\ pc' = "connect" /\ UNCHANGED <<acc, printed, cur, todo>>
    BY <1>6 DEF FlushJob, FlushBefore, Goto, Sending
  <2> QED
    BY <2>1, BufferSent, BalanceKept DEF CountsKept
<1>7. CASE SendLabel
  <2> DEFINE s == Append(pending, <<cur, Head(todo)>>)
  <2>1. /\ cur \in Job /\ todo \in Seq(Label(cur)) /\ todo # <<>> /\ todo' = Tail(todo)
        /\ UNCHANGED <<cur, acc, printed>> /\ ~Sending
        /\ pending = <<>> /\ pending' = <<>> /\ at' = 0 /\ pc' = "connect"
        /\ batch' = <<<<cur, Head(todo)>>>>
    BY <1>7 DEF SendLabel, Goto, TypeInv, TypeOK, CurOK, TodoOK, Sending
  <2>2. <<cur, Head(todo)>> \in Item
    BY <2>1, HeadTailProperties, LabelFacts DEF Item
  <2>3. batch' = s /\ s \in Seq(Item)
    BY <2>1, <2>2
  <2>4. WaitingKept
    BY <2>1, <2>3, AddWaits
  <2> QED
    BY <2>1, <2>4, BalanceKept DEF CountsKept
<1> QED
  BY <1>1, <1>2, <1>3, <1>4, <1>5, <1>6, <1>7 DEF Submit

-----------------------------------------------------------------------------
(***************************************************************************)
(* The balance while a frame is on its way and accounted.                  *)
(***************************************************************************)
\* The jobs of a frame that was not sent are dropped with all they had waiting.
LEMMA ConnectFailedBalance ==
    ASSUME TypeInv, ShapeInv, Balanced, StackInv, ConnectFailed
    PROVE  Balanced'
<1> DEFINE jobs == JobsOf(batch)
<1>1. /\ pc = "connect" /\ Sending /\ InSend /\ pending = <<>> /\ pending' = <<>>
      /\ batch \in Seq(Item) /\ batch' = <<>> /\ UNCHANGED printed
      /\ acc' = [j \in Job |-> IF j \in jobs THEN NoTally ELSE acc[j]]
      /\ \/ strip /\ UNCHANGED <<cur, todo>>
         \/ ~strip /\ todo' = <<>> /\ cur' = NoJob
  BY DEF ConnectFailed, Stall, Requeue, ResumeFlush, EndSubmit, NoSend, InSend, Sending,
         StackInv, TypeInv, TypeOK
<1>2. jobs \in SUBSET Job
  BY <1>1, JobsOfType
<1> HIDE DEF jobs
<1>3. ASSUME NEW j \in Job, NEW i \in Index
      PROVE  Waiting(j, i)' = IF j \in jobs THEN 0 ELSE Waiting(j, i)
  <2>1. AtBuffer(j, i)' = 0 /\ AtPrinter(j, i)' = 0 /\ AtBuffer(j, i) = 0
    BY <1>1, NothingWaits, NothingWaitsNext
  <2>2. CASE j \in jobs
    <3>1. strip => ~PrintsDiscrete(j)
      <4>1. PICK n \in DOMAIN batch : j = batch[n][1]
        BY <2>2 DEF jobs, JobsOf
      <4>2. strip => batch[n] \in StripItem
        BY <1>1 DEF ShapeInv
      <4> QED
        BY <4>1, <4>2 DEF StripItem
    <3>2. todo' = <<>> \/ cur' # j
      BY <1>1, <3>1 DEF StackInv
    <3>3. AtSubmit(j, i)' = 0
      BY <3>2, NothingWaitsNext DEF AtSubmit
    <3> QED
      BY <2>1, <2>2, <3>3 DEF Waiting
  <2>3. CASE j \notin jobs
    <3>1. \A n \in DOMAIN batch : batch[n][1] # j
      BY <2>3 DEF jobs, JobsOf
    <3>2. From(<<j, i>>, batch, at) = {}
      BY <3>1 DEF From
    <3>3. AtPrinter(j, i) = 0
      BY <3>2, FS_EmptySet DEF AtPrinter
    <3>4. AtSubmit(j, i)' = AtSubmit(j, i)
      <4>1. CASE strip
        BY <1>1, <4>1 DEF AtSubmit
      <4>2. CASE ~strip
        <5>1. cur # j
          BY <1>1, <3>1, <4>2 DEF ShapeInv, FrameOf
        <5> QED
          BY <1>1, <4>2, <5>1, NothingWaitsNext DEF AtSubmit
      <4> QED
        BY <4>1, <4>2
    <3> QED
      BY <2>1, <2>3, <3>3, <3>4 DEF Waiting
  <2> QED
    BY <2>2, <2>3
<1> QED
  BY <1>1, <1>2, <1>3, BalanceForgets

\* A copy accounted is counted once, as done or as failed.
LEMMA AccountCounts ==
    ASSUME TypeInv, Account, NEW j \in Job, NEW i \in Index
    PROVE  /\ batch[at] # <<j, i>> => /\ acc'[j].done[i] = acc[j].done[i]
                                      /\ acc'[j].failed[i] = acc[j].failed[i]
           /\ batch[at] = <<j, i>> =>
                \/ /\ pc = "credit" /\ CreditCopy(j, i)
                   /\ acc'[j].done[i] = acc[j].done[i] + 1
                   /\ acc'[j].failed[i] = acc[j].failed[i]
                \/ /\ pc = "fail" /\ FailCopy(j, i)
                   /\ acc'[j].done[i] = acc[j].done[i]
                   /\ acc'[j].failed[i] = acc[j].failed[i] + 1
<1> DEFINE k == batch[at][1]
           x == batch[at][2]
<1>1. batch[at] \in Item
  BY DEF Account, TypeInv, TypeOK
<1>2. k \in Job /\ x \in Index /\ batch[at] = <<k, x>> /\ acc \in [Job -> Tally]
  <2>1. k \in Job /\ x \in Index /\ batch[at] = <<k, x>>
    BY <1>1 DEF Item
  <2> QED
    BY <2>1 DEF TypeInv, TypeOK
<1>3. \/ pc = "credit" /\ CreditCopy(k, x)
      \/ pc = "fail" /\ FailCopy(k, x)
  BY DEF Account
<1> HIDE DEF k, x
<1>4. acc[k] \in Tally
  BY <1>2
<1>5. CASE pc = "credit" /\ CreditCopy(k, x)
  <2> DEFINE c == acc[k].done[x] + 1
  <2>1. acc' = [acc EXCEPT ![k] = [acc[k] EXCEPT !.done = [acc[k].done EXCEPT ![x] = c]]]
    BY <1>5 DEF CreditCopy
  <2> HIDE DEF c
  <2>2. /\ j # k => acc'[j] = acc[j]
        /\ acc'[k].done = [acc[k].done EXCEPT ![x] = c]
        /\ acc'[k].failed = acc[k].failed
    BY <1>2, <1>4, <2>1 DEF Tally
  <2>3. acc[k].done \in [Index -> Nat]
    BY <1>4 DEF Tally
  <2> QED
    BY <1>2, <1>5, <2>2, <2>3 DEF c
<1>6. CASE pc = "fail" /\ FailCopy(k, x)
  <2> DEFINE c == acc[k].failed[x] + 1
             p == acc[k].partial \/ strip
  <2>1. acc' = [acc EXCEPT ![k] = [acc[k] EXCEPT !.failed = [acc[k].failed EXCEPT ![x] = c],
                                                 !.partial = p]]
    BY <1>6 DEF FailCopy
  <2> HIDE DEF c, p
  <2>2. /\ j # k => acc'[j] = acc[j]
        /\ acc'[k].failed = [acc[k].failed EXCEPT ![x] = c]
        /\ acc'[k].done = acc[k].done
    BY <1>2, <1>4, <2>1 DEF Tally
  <2>3. acc[k].failed \in [Index -> Nat]
    BY <1>4 DEF Tally
  <2> QED
    BY <1>2, <1>6, <2>2, <2>3 DEF c
<1> QED
  BY <1>3, <1>5, <1>6

\* It is committed with the last copy of its label, of which none waits then.
LEMMA AccountBalance ==
    ASSUME TypeInv, Balanced, Account
    PROVE  Balanced'
<1>1. /\ Sending /\ Sending' /\ at \in DOMAIN batch /\ batch \in Seq(Item) /\ at' = at + 1
      /\ UNCHANGED <<batch, pending, cur, todo>> /\ acc[batch[at][1]].live
  BY DEF Account, Sending, TypeInv, TypeOK
<1> SUFFICES ASSUME NEW j \in Job, NEW i \in Index
             PROVE  Accounts(j, i)' /\ (Waiting(j, i)' > 0 => i \notin printed'[j])
  BY DEF Balanced, BalanceInv, UncommittedInv
<1>2. AtPrinter(j, i) = AtPrinter(j, i)' + (IF batch[at] = <<j, i>> THEN 1 ELSE 0)
  BY <1>1, FromStep DEF AtPrinter
<1>3. PICK b \in Nat, p \in Nat, t \in Nat : /\ b = AtBuffer(j, i) /\ b = AtBuffer(j, i)'
                                             /\ p = AtPrinter(j, i)'
                                             /\ t = AtSubmit(j, i) /\ t = AtSubmit(j, i)'
  <2>1. AtBuffer(j, i)' = AtBuffer(j, i) /\ AtSubmit(j, i)' = AtSubmit(j, i)
    BY <1>1 DEF AtBuffer, AtSubmit
  <2>2. AtPrinter(j, i)' \in Nat
    BY <1>1, FromIsFinite DEF AtPrinter
  <2> QED
    BY <2>1, <2>2, WaitingType
<1>4. /\ Waiting(j, i)' = b + p + t
      /\ Waiting(j, i) = b + p + t + (IF batch[at] = <<j, i>> THEN 1 ELSE 0)
  BY <1>2, <1>3 DEF Waiting
<1>5. /\ acc'[j].expected = acc[j].expected /\ acc'[j].live = acc[j].live
      /\ Accounts(j, i)
  BY AccountUpdates DEF Balanced, BalanceInv
<1>6. PICK d \in Nat, g \in Nat, e \in Nat :
         d = acc[j].done[i] /\ g = acc[j].failed[i] /\ e = acc[j].expected[i]
  BY CountedType
<1>7. printed' = printed \/ (\E k, x : batch[at] = <<k, x>> /\ LabelPrinted(k, x))
  BY <1>1 DEF Account, CreditCopy, FailCopy, Item
<1>8. CASE batch[at] # <<j, i>>
  <2>1. acc'[j].done[i] = d /\ acc'[j].failed[i] = g /\ Waiting(j, i)' = Waiting(j, i)
    BY <1>3, <1>4, <1>6, <1>8, AccountCounts
  <2>2. i \in printed'[j] => i \in printed[j]
    BY <1>7, <1>8 DEF LabelPrinted, TypeInv, TypeOK, SpoolTypeOK
  <2> QED
    BY <1>5, <1>6, <2>1, <2>2 DEF Accounts, Balanced, UncommittedInv
<1>9. CASE batch[at] = <<j, i>>
  <2>1. acc[j].live /\ d + g + (b + p + t + 1) = e /\ Waiting(j, i) > 0
    BY <1>1, <1>3, <1>4, <1>5, <1>6, <1>9 DEF Accounts
  <2>2. i \notin printed[j]
    BY <2>1 DEF Balanced, UncommittedInv
  <2>3. CASE /\ CreditCopy(j, i)
             /\ acc'[j].done[i] = acc[j].done[i] + 1 /\ acc'[j].failed[i] = acc[j].failed[i]
    <3>1. d + 1 + g + (b + p + t) = e
      BY <2>1
    <3>2. Accounts(j, i)'
      BY <1>4, <1>5, <1>6, <2>1, <2>3, <3>1 DEF Accounts
    <3>3. d + 1 >= e => b + p + t = 0
      BY <3>1
    <3>4. UNCHANGED printed \/ d + 1 >= e
      BY <1>6, <2>3 DEF CreditCopy
    <3> QED
      BY <1>4, <2>2, <3>2, <3>3, <3>4
  <2>4. CASE /\ FailCopy(j, i)
             /\ acc'[j].done[i] = acc[j].done[i] /\ acc'[j].failed[i] = acc[j].failed[i] + 1
    <3>1. d + (g + 1) + (b + p + t) = e
      BY <2>1
    <3>2. Accounts(j, i)'
      BY <1>4, <1>5, <1>6, <2>1, <2>4, <3>1 DEF Accounts
    <3> QED
      BY <2>2, <2>4, <3>2 DEF FailCopy
  <2> QED
    BY <1>9, <2>3, <2>4, AccountCounts
<1> QED
  BY <1>8, <1>9

LEMMA SendBalance ==
    TypeInv /\ ShapeInv /\ Balanced /\ StackInv /\ Send => Balanced'
<1> SUFFICES ASSUME TypeInv, ShapeInv, Balanced, StackInv, Send
             PROVE  Balanced'
  OBVIOUS
<1>1. CASE ConnectOk \/ ConnectRetry
  <2>1. UNCHANGED <<acc, printed, pending, batch, at, cur, todo>> /\ (Sending' <=> Sending)
    BY <1>1 DEF ConnectOk, ConnectRetry, Goto, Sending
  <2> QED
    BY <2>1, SameWaiting, BalanceKept DEF CountsKept, WaitingKept
<1>2. CASE ConnectFailed
  BY <1>2, ConnectFailedBalance
<1>3. CASE FrameOk \/ FrameTorn
  <2>1. /\ UNCHANGED <<acc, printed, pending, batch, cur, todo>> /\ Sending' /\ Sending
        /\ UNCHANGED at \/ (at = 0 /\ at' = 1)
    BY <1>3 DEF FrameOk, FrameTorn, Goto, Sending, StackInv
  <2>2. ASSUME NEW j \in Job, NEW i \in Index
        PROVE  Waiting(j, i)' = Waiting(j, i)
    <3>1. CASE UNCHANGED at
      BY <2>1, <3>1, SameWaiting
    <3>2. CASE at = 0 /\ at' = 1
      <4>1. AtPrinter(j, i)' = AtPrinter(j, i)
        BY <2>1, <3>2, BegunWaits
      <4> QED
        BY <2>1, <4>1 DEF Waiting, AtBuffer, AtSubmit
    <3> QED
      BY <2>1, <3>1, <3>2
  <2> QED
    BY <2>1, <2>2, BalanceKept DEF CountsKept, WaitingKept
<1>4. CASE Account
  BY <1>4, AccountBalance
<1>5. CASE NoTallyToCredit
  BY <1>5, NoOrphan DEF Balanced
<1>6. CASE Accounted
  <2>1. /\ UNCHANGED <<acc, printed, pending, cur, todo>> /\ ~Sending'
        /\ at \notin DOMAIN batch /\ at >= 1
    BY <1>6 DEF Accounted, Goto, Sending, StackInv
  <2>2. ASSUME NEW j \in Job, NEW i \in Index
        PROVE  Waiting(j, i)' = Waiting(j, i)
    <3>1. AtPrinter(j, i) = 0 /\ AtPrinter(j, i)' = 0
      BY <2>1, PastEndWaits, NothingWaitsNext
    <3> QED
      BY <2>1, <3>1 DEF Waiting, AtBuffer, AtSubmit
  <2> QED
    BY <2>1, <2>2, BalanceKept DEF CountsKept, WaitingKept
<1>7. CASE SettleJob \/ Settled
  <2>1. UNCHANGED <<pending, cur, todo>> /\ ~Sending /\ ~Sending'
    BY <1>7, ReturnType DEF SettleJob, Settled, ResumeFlush, Goto, Return, Sending
  <2>2. WaitingKept
    <3> SUFFICES ASSUME NEW j \in Job, NEW i \in Index
                 PROVE  Waiting(j, i)' = Waiting(j, i)
      BY DEF WaitingKept
    <3>1. AtPrinter(j, i) = 0 /\ AtPrinter(j, i)' = 0
      BY <2>1, NothingWaits, NothingWaitsNext
    <3> QED
      BY <2>1, <3>1 DEF Waiting, AtBuffer, AtSubmit
  <2>3. CASE SettleJob
    <3>1. batch[at] \in Item /\ MaybeFinalize(batch[at][1])
      BY <2>3 DEF SettleJob, TypeInv, TypeOK
    <3> QED
      BY <2>2, <3>1, SettlingBalances DEF Item
  <2>4. CASE Settled
    BY <2>2, <2>4, BalanceKept DEF Settled, CountsKept
  <2> QED
    BY <1>7, <2>3, <2>4
<1> QED
  BY <1>1, <1>2, <1>3, <1>4, <1>5, <1>6, <1>7 DEF Send

LEMMA BalanceStep ==
    TypeInv /\ ShapeInv /\ RegimeInv /\ [Next]_vars => Balanced'
BY LoopBalance, SubmitBalance, SendBalance, WorldBalance DEF Next, RegimeInv, Balanced

-----------------------------------------------------------------------------
(***************************************************************************)
(* A job in flight is kept by the submission, the buffer or the frame.     *)
(***************************************************************************)
Held == {cur} \cup JobsOf(pending) \cup Unsettled

LEMMA LiveKept ==
    ASSUME LiveInv,
           \A j \in Job : acc'[j].live =>
              /\ acc[j].live /\ state'[j] = state[j]
              /\ j \in Held => j \in Held'
    PROVE  LiveInv'
BY DEF LiveInv, Held

LEMMA ForgetLive ==
    ASSUME Forget
    PROVE  LiveInv'
BY DEF Forget, NoTally, LiveInv

\* What was buffered is in the frame.
LEMMA BufferSentHeld ==
    ASSUME ~InSend, SendStrip(pending), pc' = "connect", UNCHANGED cur
    PROVE  Held \subseteq Held'
<1>1. Unsettled = {} /\ Unsettled' = JobsOf(pending)
  BY DEF InSend, Unsettled, Sending, SendStrip, JobsOf
<1> QED
  BY <1>1 DEF Held

LEMMA LoopLive == TypeInv /\ LiveInv /\ StackInv /\ Loop => LiveInv'
<1> SUFFICES ASSUME TypeInv, LiveInv, StackInv, Loop PROVE LiveInv'
  OBVIOUS
<1>1. CASE Exit
  BY <1>1, ForgetLive DEF Exit
<1>2. CASE SendStrip(pending) /\ pc' = "connect"
  <2>1. GetFlush \/ Tick \/ Shutdown
    BY <1>2 DEF Loop, Boot, ScanDone, PollDone, GetJob, RetryQueued, Resubmit, Exit,
                Forget, Goto
  <2>2. ~InSend /\ UNCHANGED <<acc, state, cur>>
    BY <2>1 DEF GetFlush, Tick, Shutdown, InSend, Sending
  <2>3. Held \subseteq Held'
    BY <1>2, <2>2, BufferSentHeld
  <2> QED
    BY <2>2, <2>3, LiveKept
<1>3. CASE ~(SendStrip(pending) /\ pc' = "connect") /\ ~Exit
  <2>1. /\ UNCHANGED <<acc, state, pending>> /\ ~InSend
        /\ UNCHANGED cur \/ pc \in {"scan", "idle"}
    BY <1>3 DEF Loop, Boot, ScanDone, PollDone, GetJob, GetFlush, Tick, RetryQueued,
                Shutdown, Resubmit, Goto, Sending, InSend
  <2>2. UNCHANGED cur \/ cur = NoJob
    BY <2>1 DEF StackInv
  <2>3. Unsettled = {} /\ JobsOf(pending') = JobsOf(pending)
    BY <2>1 DEF Unsettled, InSend
  <2>4. \A j \in Job : j \in Held => j \in Held'
    BY <2>2, <2>3, JobAssumption DEF Held, JobsOf
  <2> QED
    BY <2>1, <2>4, LiveKept
<1> QED
  BY <1>1, <1>2, <1>3

LEMMA WorldLive ==
    TypeInv /\ LiveInv /\ (World \/ UNCHANGED vars) => LiveInv'
<1> SUFFICES ASSUME TypeInv, LiveInv, World \/ UNCHANGED vars PROVE LiveInv'
  OBVIOUS
<1>1. CASE Crash
  BY <1>1, ForgetLive DEF Crash
<1>2. CASE ~Crash
  <2>1. UNCHANGED <<acc, pending, batch, at, cur, pc>>
    BY <1>2 DEF World, PollFile, Deliver, GapPasses, Insert, Enqueue, FlushCommand, Stop, vars
  <2>2. Held' = Held
    BY <2>1 DEF Held, Unsettled, Sending, JobsOf
  <2>3. \A j \in Job : state'[j] = state[j] \/ state[j] = "absent"
    BY <1>2 DEF World, PollFile, Deliver, GapPasses, Insert, Enqueue, FlushCommand, Stop, vars,
       TypeInv, TypeOK, SpoolTypeOK
  <2>4. \A j \in Job : acc'[j].live => state'[j] = state[j]
    BY <2>1, <2>3 DEF LiveInv
  <2> QED
    BY <2>1, <2>2, <2>4, LiveKept
<1> QED
  BY <1>1, <1>2

\* A job that is settled, or dropped, is in flight no more.
LEMMA SettlingLive ==
    ASSUME TypeInv, Balanced, LiveInv, NEW j \in Job, MaybeFinalize(j) \/ Finalize(j),
           \A k \in Job : k \in Held => k \in Held' \/ k = j,
           \/ Finalize(j)
           \/ j \in Held'
           \/ \A i \in Index : Waiting(j, i) > 0 => j \in Held'
    PROVE  LiveInv'
<1>1. CASE Finalize(j)
  <2>1. \A k \in Job : acc'[k].live => k # j /\ acc[k].live /\ state'[k] = state[k]
    BY <1>1 DEF Finalize, Finish, NoTally, TypeInv, TypeOK, SpoolTypeOK
  <2> QED
    BY <2>1, LiveKept
<1>2. CASE ~Finalize(j)
  <2>1. /\ UNCHANGED <<spoolVars, acc>>
        /\ acc[j].live => \E i \in Index : Waiting(j, i) > 0
    BY <1>2, SettlesComplete DEF Balanced
  <2>2. acc[j].live => j \in Held'
    BY <1>2, <2>1
  <2> QED
    BY <2>1, <2>2, LiveKept
<1> QED
  BY <1>1, <1>2

LEMMA SubmitLive ==
    TypeInv /\ ShapeInv /\ Balanced /\ LiveInv /\ StackInv /\ OnceAtATime /\ Submit => LiveInv'
<1> SUFFICES ASSUME TypeInv, ShapeInv, Balanced, LiveInv, StackInv, OnceAtATime, Submit
             PROVE  LiveInv'
  OBVIOUS
<1>1. ~InSend /\ Unsettled = {} /\ ~Sending /\ cur \in Job
  BY DEF Submit, Reject, Accept, RenderLabel, NothingToPrint, StartPrinting, AddLabel,
     FlushJob, Buffered, FlushBefore, SendLabel, DiscreteDone, InSend, Sending, Unsettled,
     TypeInv, CurOK
<1>2. CASE Reject
  <2>1. ~acc[cur].live /\ UNCHANGED <<acc, pending>> /\ state' = [state EXCEPT ![cur] = Rejection.state]
    BY <1>2 DEF Reject, OnceAtATime, Finish
  <2>2. \A j \in Job : acc'[j].live => acc[j].live /\ j # cur /\ state'[j] = state[j]
    BY <1>1, <2>1 DEF TypeInv, TypeOK, SpoolTypeOK
  <2>3. \A j \in Job : j \in Held => j \in Held' \/ j = cur
    BY <1>1, <2>1 DEF Held, JobsOf
  <2> QED
    BY <2>2, <2>3, LiveKept
<1>3. CASE Accept
  <2>1. /\ acc' = [acc EXCEPT ![cur] = NewTally] /\ state' = [state EXCEPT ![cur] = "printing"]
        /\ UNCHANGED <<cur, pending>>
    BY <1>3 DEF Accept, Mark
  <2>2. Held \subseteq Held' /\ cur \in Held'
    BY <1>1, <2>1 DEF Held, JobsOf
  <2>3. ASSUME NEW j \in Job, acc'[j].live
        PROVE  state'[j] = "printing" /\ j \in Held'
    <3>1. CASE j = cur
      BY <1>1, <2>1, <2>2, <3>1 DEF TypeInv, TypeOK, SpoolTypeOK
    <3>2. CASE j # cur
      BY <1>1, <2>1, <2>2, <2>3, <3>2 DEF TypeInv, TypeOK, SpoolTypeOK, LiveInv, Held
    <3> QED
      BY <3>1, <3>2
  <2> QED
    BY <2>3 DEF LiveInv, Held
<1>4. CASE RenderLabel \/ StartPrinting
  <2>1. UNCHANGED <<state, cur, pending>>
    BY <1>4 DEF RenderLabel, StartPrinting, Settle, QueueCopies, RecordDedupe
  <2>2. \A j \in Job : acc'[j].live = acc[j].live
    <3>1. TallyTypeOK
      BY DEF TypeInv, TypeOK, TallyTypeOK
    <3>2. CASE UNCHANGED acc
      BY <3>2
    <3>3. CASE RenderLabel
      <4>1. label \in Index /\ Copies(cur, label) \in Nat
        BY <1>1, <3>3, LabelFacts DEF RenderLabel
      <4>2. CASE Expects(cur, label, Copies(cur, label))
        BY <1>1, <3>1, <4>1, <4>2, ExpectedUpdate
      <4>3. ASSUME NEW s, acc' = [acc EXCEPT ![cur].render[label] = s]
            PROVE  \A j \in Job : acc'[j].live = acc[j].live
        BY <1>1, <3>1, <4>3 DEF TallyTypeOK, Tally
      <4> QED
        BY <3>3, <4>2, <4>3 DEF RenderLabel, Settle, QueueCopies, Expects
    <3> QED
      BY <1>4, <3>2, <3>3 DEF StartPrinting
  <2>3. Held \subseteq Held'
    BY <1>1, <2>1 DEF Held, JobsOf
  <2> QED
    BY <2>1, <2>2, <2>3, LiveKept
<1>5. CASE NothingToPrint \/ Buffered \/ DiscreteDone
  <2>1. todo = <<>> /\ UNCHANGED pending /\ (MaybeFinalize(cur) \/ Finalize(cur))
    BY <1>5 DEF NothingToPrint, Buffered, DiscreteDone
  <2>2. \A j \in Job : j \in Held => j \in Held' \/ j = cur
    BY <1>1, <2>1 DEF Held, JobsOf
  <2>3. ASSUME NEW i \in Index, Waiting(cur, i) > 0
        PROVE  cur \in Held'
    <3>1. Waiting(cur, i) = AtBuffer(cur, i)
      BY <1>1, <2>1, NothingWaits, WaitingType DEF Waiting
    <3>2. PICK n \in DOMAIN pending : pending[n] = <<cur, i>>
      BY <2>3, <3>1, TimesType DEF AtBuffer, TypeInv, TypeOK
    <3>3. cur \in JobsOf(pending)
      BY <3>2 DEF JobsOf
    <3> QED
      BY <2>1, <3>3 DEF Held, JobsOf
  <2> QED
    BY <1>1, <2>1, <2>2, <2>3, SettlingLive
<1>6. CASE AddLabel \/ FlushJob \/ FlushBefore \/ SendLabel
  <2>1. UNCHANGED <<acc, state, cur>>
    BY <1>6 DEF AddLabel, FlushJob, FlushBefore, SendLabel
  <2>2. Held \subseteq Held'
    <3>1. CASE FlushJob \/ FlushBefore
      BY <1>1, <2>1, <3>1, BufferSentHeld DEF FlushJob, FlushBefore, Goto
    <3>2. CASE SendLabel
      BY <1>1, <2>1, <3>2 DEF SendLabel, Held, JobsOf
    <3>3. CASE AddLabel
      <4> DEFINE s == Append(pending, <<cur, Head(todo)>>)
      <4>1. \/ pending' = s
            \/ SendStrip(s) /\ pc' = "connect"
        BY <3>3 DEF AddLabel, Goto
      <4>2. pending \in Seq(Item) /\ <<cur, Head(todo)>> \in Item
        BY <1>1, <3>3, HeadTailProperties, LabelFacts DEF AddLabel, TypeInv, TypeOK, TodoOK, Item
      <4>3. JobsOf(pending) \subseteq JobsOf(s)
        <5>1. \A n \in DOMAIN pending : n \in DOMAIN s /\ s[n] = pending[n]
          BY <4>2
        <5> HIDE DEF s
        <5> QED
          BY <5>1 DEF JobsOf
      <4> HIDE DEF s
      <4>4. CASE pending' = s
        BY <1>1, <2>1, <4>3, <4>4 DEF Held, JobsOf
      <4>5. CASE SendStrip(s) /\ pc' = "connect"
        <5>1. Unsettled' = JobsOf(s)
          BY <4>5 DEF Unsettled, Sending, SendStrip, JobsOf
        <5> QED
          BY <1>1, <2>1, <4>3, <5>1 DEF Held
      <4> QED
        BY <4>1, <4>4, <4>5
    <3> QED
      BY <1>6, <3>1, <3>2, <3>3
  <2> QED
    BY <2>1, <2>2, LiveKept
<1> QED
  BY <1>2, <1>3, <1>4, <1>5, <1>6 DEF Submit

LEMMA SendLive ==
    TypeInv /\ ShapeInv /\ Balanced /\ LiveInv /\ StackInv /\ Send => LiveInv'
<1> SUFFICES ASSUME TypeInv, ShapeInv, Balanced, LiveInv, StackInv, Send
             PROVE  LiveInv'
  OBVIOUS
<1>1. InSend /\ pending = <<>> /\ JobsOf(pending) = {}
  BY DEF Send, ConnectOk, ConnectRetry, ConnectFailed, FrameOk, FrameTorn, Account,
     NoTallyToCredit, Accounted, SettleJob, Settled, InSend, Sending, StackInv, JobsOf
<1>2. CASE ConnectOk \/ ConnectRetry \/ FrameOk \/ FrameTorn \/ Account
  <2>1. UNCHANGED <<state, batch, pending, cur>> /\ Sending /\ Sending'
    BY <1>2 DEF ConnectOk, ConnectRetry, FrameOk, FrameTorn, Account, CreditCopy, FailCopy,
       LabelPrinted, Goto, Sending
  <2>2. \A j \in Job : acc'[j].live = acc[j].live
    <3>1. UNCHANGED acc \/ Account
      BY <1>2 DEF ConnectOk, ConnectRetry, FrameOk, FrameTorn
    <3> QED
      BY <3>1, AccountUpdates
  <2>3. Held' = Held
    BY <2>1 DEF Held, Unsettled, JobsOf
  <2> QED
    BY <2>1, <2>2, <2>3, LiveKept
<1>3. CASE ConnectFailed
  <2>1. /\ acc' = [j \in Job |-> IF j \in JobsOf(batch) THEN NoTally ELSE acc[j]]
        /\ state' = [j \in Job |-> IF j \in JobsOf(batch) THEN "queued" ELSE state[j]]
        /\ Unsettled = JobsOf(batch)
        /\ strip => UNCHANGED cur
    BY <1>3 DEF ConnectFailed, Stall, Requeue, ResumeFlush, Unsettled, Sending
  <2>2. ~strip => cur \in JobsOf(batch)
    <3> SUFFICES ASSUME ~strip PROVE cur \in JobsOf(batch)
      OBVIOUS
    <3>1. PICK i \in Label(cur) : batch = <<<<cur, i>>>>
      BY <1>3 DEF ConnectFailed, ShapeInv, Sending, FrameOf
    <3> QED
      BY <3>1 DEF JobsOf
  <2>3. ASSUME NEW j \in Job, acc'[j].live
        PROVE  /\ acc[j].live /\ state'[j] = state[j]
               /\ j \in Held => j \in Held'
    <3>1. j \notin JobsOf(batch) /\ acc[j].live /\ state'[j] = state[j]
      BY <2>1, <2>3 DEF NoTally
    <3>2. j \in Held => j = cur
      BY <1>1, <2>1, <3>1 DEF Held
    <3>3. j \in Held => j = cur' /\ strip
      BY <2>1, <2>2, <3>1, <3>2
    <3> QED
      BY <3>1, <3>3 DEF Held
  <2> QED
    BY <2>3, LiveKept
<1>4. CASE NoTallyToCredit
  BY <1>4, NoOrphan DEF Balanced
<1>5. CASE Accounted
  <2>1. UNCHANGED <<acc, state, pending, cur>> /\ Sending
    BY <1>5 DEF Accounted, Sending
  <2>2. CASE strip
    <3>1. pc' = "settle" /\ at' = 1 /\ UNCHANGED batch /\ batch \in Seq(Item)
      BY <1>5, <2>2 DEF Accounted, Goto, TypeInv, TypeOK
    <3>2. \A n \in DOMAIN batch : n >= 1
      BY <3>1
    <3>3. Unsettled' = JobsOf(batch)
      BY <3>1, <3>2 DEF Unsettled, Sending, JobsOf
    <3>4. Held \subseteq Held'
      BY <2>1, <3>3 DEF Held, Unsettled, JobsOf
    <3> QED
      BY <2>1, <3>4, LiveKept
  <2>3. CASE ~strip
    <3>1. PICK i \in Label(cur) : batch = <<<<cur, i>>>>
      BY <2>1, <2>3 DEF ShapeInv, FrameOf
    <3>2. Unsettled = {cur}
      BY <2>1, <3>1 DEF Unsettled, JobsOf
    <3>3. Held \subseteq Held'
      BY <1>1, <2>1, <3>2 DEF Held
    <3> QED
      BY <2>1, <3>3, LiveKept
  <2> QED
    BY <2>2, <2>3
<1>6. CASE SettleJob
  <2> DEFINE j == batch[at][1]
  <2>1. /\ pc = "settle" /\ pc' = "settle" /\ UNCHANGED <<batch, pending, cur, todo>>
        /\ at' = at + 1 /\ at \in DOMAIN batch /\ at \in Nat /\ batch \in Seq(Item)
        /\ MaybeFinalize(j) /\ j \in Job
    BY <1>6 DEF SettleJob, TypeInv, TypeOK, Item
  <2>2. \A n \in DOMAIN batch : n >= at => n = at \/ n >= at + 1
    BY <2>1
  <2>3. \A k \in Job : k \in Held => k \in Held' \/ k = j
    BY <2>1, <2>2 DEF Held, Unsettled, Sending, JobsOf
  <2>4. ASSUME NEW i \in Index, Waiting(j, i) > 0
        PROVE  j \in Held'
    <3>1. ~Sending
      BY <2>1 DEF Sending
    <3> HIDE DEF j
    <3>2. AtBuffer(j, i) = 0 /\ AtPrinter(j, i) = 0
      BY <1>1, <3>1, NothingWaits
    <3>3. AtSubmit(j, i) # 0
      BY <2>4, <3>2 DEF Waiting
    <3>4. cur = j
      BY <3>3 DEF AtSubmit
    <3> QED
      BY <2>1, <3>4 DEF Held
  <2> HIDE DEF j
  <2> QED
    BY <2>1, <2>3, <2>4, SettlingLive
<1>7. CASE Settled
  <2>1. /\ UNCHANGED <<acc, state, pending, cur>> /\ pc = "settle" /\ at \notin DOMAIN batch
        /\ at \in Nat /\ at >= 1 /\ batch \in Seq(Item)
    BY <1>7 DEF Settled, ResumeFlush, StackInv, TypeInv, TypeOK
  <2>2. \A n \in DOMAIN batch : ~(n >= at)
    BY <2>1
  <2>3. Unsettled = {}
    BY <2>1, <2>2 DEF Unsettled, Sending
  <2>4. Held \subseteq Held'
    BY <1>1, <2>1, <2>3 DEF Held
  <2> QED
    BY <2>1, <2>4, LiveKept
<1> QED
  BY <1>2, <1>3, <1>4, <1>5, <1>6, <1>7 DEF Send

LEMMA LiveStep ==
    TypeInv /\ ShapeInv /\ RegimeInv /\ [Next]_vars => LiveInv'
BY LoopLive, SubmitLive, SendLive, WorldLive DEF Next, RegimeInv, Balanced

-----------------------------------------------------------------------------
(***************************************************************************)
(* The stack.  A strip that the submission fills takes its last copy.      *)
(***************************************************************************)
\* Of a label no more copies wait than were asked for.
LEMMA WaitsWithin ==
    ASSUME TypeInv, OnceInv, Balanced, NEW j \in Job, NEW i \in Label(j)
    PROVE  Waiting(j, i) <= Copies(j, i) /\ Waiting(j, i) \in Nat /\ i \in Index
<1>1. i \in Index /\ Copies(j, i) \in Nat
  BY LabelFacts
<1>2. /\ acc[j].done[i] \in Nat /\ acc[j].failed[i] \in Nat /\ Waiting(j, i) \in Nat
      /\ acc[j].expected[i] \in Nat
  BY <1>1, CountedType, WaitingType
<1>3. Accounts(j, i)
  BY <1>1 DEF Balanced, BalanceInv
<1>4. CASE acc[j].live
  <2>1. acc[j].expected[i] <= Copies(j, i)
    BY <1>4 DEF OnceInv, ExpectBound
  <2>2. acc[j].done[i] + acc[j].failed[i] + Waiting(j, i) = acc[j].expected[i]
    BY <1>3, <1>4 DEF Accounts
  <2>3. Waiting(j, i) <= acc[j].expected[i]
    BY <1>2, <2>2
  <2> QED
    BY <1>1, <1>2, <2>1, <2>3
<1>5. CASE ~acc[j].live
  BY <1>1, <1>2, <1>3, <1>5 DEF Accounts
<1> QED
  BY <1>4, <1>5

\* The buffer with the next copy of the submission is a strip that holds of no
\* label more copies than were asked for.
LEMMA AddedFits ==
    ASSUME TypeInv, ShapeInv, OnceInv, Balanced, AddLabel,
           NEW s, s = Append(pending, <<cur, Head(todo)>>)
    PROVE  /\ s \in Seq(StripItem) /\ s # <<>> /\ s[Len(s)][1] = cur
           /\ \A it \in Item : Times(it, s) <= Copies(it[1], it[2])
           /\ \A j \in Job, i \in Index :
                 /\ Times(<<j, i>>, s) \in Nat /\ Times(i, Tail(todo)) \in Nat
                 /\ Waiting(j, i) = Times(<<j, i>>, s)
                                      + (IF cur = j THEN Times(i, Tail(todo)) ELSE 0)
<1>1. /\ ~Sending /\ cur \in Job /\ todo \in Seq(Label(cur)) /\ todo # <<>>
      /\ ~PrintsDiscrete(cur) /\ pending \in Seq(StripItem)
  BY DEF AddLabel, Sending, TypeInv, CurOK, TodoOK, ShapeInv
<1>2. <<cur, Head(todo)>> \in StripItem /\ StripItem \subseteq Item
  BY <1>1, HeadTailProperties, LabelFacts DEF StripItem, Item
<1>3. /\ s \in Seq(StripItem) /\ s \in Seq(Item) /\ s # <<>>
      /\ Len(s) \in DOMAIN s /\ s[Len(s)][1] = cur
  <2>1. s \in Seq(StripItem) /\ s # <<>> /\ Len(s) \in DOMAIN s /\ s[Len(s)] = <<cur, Head(todo)>>
    BY <1>1, <1>2, AppendProperties
  <2>2. pending \in Seq(Item)
    BY DEF TypeInv, TypeOK
  <2>3. s \in Seq(Item)
    BY <1>2, <2>2, AppendProperties
  <2>4. s[Len(s)][1] = cur
    BY <2>1
  <2> QED
    BY <2>1, <2>3, <2>4
<1>4. ASSUME NEW j \in Job, NEW i \in Index
      PROVE  /\ Times(<<j, i>>, s) \in Nat /\ Times(i, Tail(todo)) \in Nat
             /\ Waiting(j, i) = Times(<<j, i>>, s)
                                  + (IF cur = j THEN Times(i, Tail(todo)) ELSE 0)
  BY <1>1, <1>3, AddedWaits
<1>5. ASSUME NEW it \in Item
      PROVE  Times(it, s) <= Copies(it[1], it[2])
  <2>1. PICK j \in Job, i \in Index : it = <<j, i>> /\ i \in Label(j)
    BY DEF Item
  <2>2. Waiting(j, i) <= Copies(j, i) /\ Waiting(j, i) \in Nat /\ i \in Index
    BY <2>1, WaitsWithin
  <2>3. Times(<<j, i>>, s) \in Nat /\ Times(<<j, i>>, s) <= Waiting(j, i)
    <3>1. /\ Times(<<j, i>>, s) \in Nat /\ Times(i, Tail(todo)) \in Nat
          /\ Waiting(j, i) = Times(<<j, i>>, s)
                               + (IF cur = j THEN Times(i, Tail(todo)) ELSE 0)
      BY <1>4, <2>2
    <3>2. (IF cur = j THEN Times(i, Tail(todo)) ELSE 0) \in Nat
      BY <3>1
    <3> QED
      BY <3>1, <3>2
  <2>4. Copies(j, i) \in Nat
    BY <2>1, LabelFacts
  <2>5. Times(<<j, i>>, s) <= Copies(j, i)
    BY <2>2, <2>3, <2>4
  <2> QED
    BY <2>1, <2>5
<1> QED
  BY <1>3, <1>4, <1>5

LEMMA FillsAtEnd ==
    ASSUME Regime, TypeInv, ShapeInv, OnceInv, Balanced, AddLabel,
           IsFull(Append(pending, <<cur, Head(todo)>>))
    PROVE  Tail(todo) = <<>>
<1> DEFINE s == Append(pending, <<cur, Head(todo)>>)
<1>1. cur \in Job /\ todo \in Seq(Label(cur)) /\ todo # <<>>
  BY DEF AddLabel, TypeInv, CurOK, TodoOK
<1>2. /\ s \in Seq(StripItem) /\ s # <<>> /\ s[Len(s)][1] = cur
      /\ \A it \in Item : Times(it, s) <= Copies(it[1], it[2])
      /\ \A j \in Job, i \in Index :
            /\ Times(<<j, i>>, s) \in Nat /\ Times(i, Tail(todo)) \in Nat
            /\ Waiting(j, i) = Times(<<j, i>>, s)
                                 + (IF cur = j THEN Times(i, Tail(todo)) ELSE 0)
  <2> HIDE DEF s
  <2>1. s = Append(pending, <<cur, Head(todo)>>)
    BY DEF s
  <2> QED
    BY <2>1, AddedFits
<1>3. IsFull(s)
  OBVIOUS
<1> HIDE DEF s
<1>4. \A i \in Label(cur) : Times(<<cur, i>>, s) = Copies(cur, i)
  BY <1>2, <1>3 DEF Regime, JobsFit
<1> SUFFICES ASSUME Tail(todo) # <<>> PROVE FALSE
  OBVIOUS
<1> DEFINE i == Head(Tail(todo))
<1>5. Tail(todo) \in Seq(Label(cur)) /\ i \in Label(cur) /\ Tail(todo)[1] = i
      /\ 1 \in DOMAIN Tail(todo)
  BY <1>1, HeadTailProperties
<1> HIDE DEF i
<1>6. Times(i, Tail(todo)) > 0
  BY <1>5, TimesType
<1>7. i \in Index /\ Waiting(cur, i) <= Copies(cur, i) /\ Copies(cur, i) \in Nat
  BY <1>1, <1>5, WaitsWithin, LabelFacts
<1>8. /\ Times(i, Tail(todo)) \in Nat
      /\ Waiting(cur, i) = Copies(cur, i) + Times(i, Tail(todo))
  BY <1>1, <1>2, <1>4, <1>5, <1>7
<1> QED
  BY <1>6, <1>7, <1>8

\* Where the loop is between submissions.
LoopPC == {"boot", "scan", "retry", "poll", "idle", "exit"}

LEMMA StripSentStack ==
    ASSUME TypeInv, NEW s, SendStrip(s), pc' = "connect", cur' = NoJob => todo' = <<>>,
           cur' \in Job => PrintsDiscrete(cur') \/ todo' = <<>>
    PROVE  StackInv'
BY DEF SendStrip, StackInv, InSend, Sending, PrintsDiscrete, AsStrip

LEMMA LoopStack == TypeInv /\ StackInv /\ Loop => StackInv'
<1> SUFFICES ASSUME TypeInv, StackInv, Loop PROVE StackInv'
  OBVIOUS
<1>1. CASE Exit
  BY <1>1, JobAssumption DEF Exit, Forget, NoSend, StackInv, InSend, Sending
<1>2. Exit \/ (cur = NoJob /\ todo = <<>> /\ UNCHANGED todo)
  BY DEF Loop, Boot, ScanDone, PollDone, GetJob, GetFlush, Tick, RetryQueued,
         Shutdown, Resubmit, StackInv
<1>3. CASE SendStrip(pending) /\ pc' = "connect"
  BY <1>1, <1>2, <1>3, StripSentStack
<1>4. CASE ~(SendStrip(pending) /\ pc' = "connect") /\ ~Exit
  <2>1. pc' = "submit" \/ (pc' \in LoopPC /\ UNCHANGED cur)
    BY <1>4 DEF Loop, Boot, ScanDone, PollDone, GetJob, GetFlush, Tick, RetryQueued,
                Shutdown, Resubmit, Goto, LoopPC
  <2> QED
    BY <1>2, <1>4, <2>1 DEF StackInv, InSend, Sending, LoopPC
<1> QED
  BY <1>1, <1>3, <1>4

LEMMA WorldStack == TypeInv /\ StackInv /\ (World \/ UNCHANGED vars) => StackInv'
<1> SUFFICES ASSUME TypeInv, StackInv, World \/ UNCHANGED vars PROVE StackInv'
  OBVIOUS
<1>1. CASE Crash
  BY <1>1, JobAssumption DEF Crash, Forget, NoSend, StackInv, InSend, Sending
<1>2. CASE ~Crash
  <2>1. UNCHANGED <<pending, batch, strip, at, todo, cur, pc>>
    BY <1>2 DEF World, PollFile, Deliver, GapPasses, Insert, Enqueue, FlushCommand, Stop, vars
  <2> QED
    BY <2>1 DEF StackInv, InSend, Sending, PrintsDiscrete, AsStrip
<1> QED
  BY <1>1, <1>2

LEMMA SubmitStack ==
    Regime /\ TypeInv /\ ShapeInv /\ OnceInv /\ Balanced /\ StackInv /\ Submit => StackInv'
<1> SUFFICES ASSUME Regime, TypeInv, ShapeInv, OnceInv, Balanced, StackInv, Submit
             PROVE  StackInv'
  OBVIOUS
<1>1. cur \in Job /\ cur # NoJob
  BY JobAssumption
  DEF Submit, Reject, Accept, RenderLabel, NothingToPrint, StartPrinting, AddLabel,
      FlushJob, Buffered, FlushBefore, SendLabel, DiscreteDone, TypeInv, CurOK
<1>2. CASE Reject \/ NothingToPrint \/ Buffered \/ DiscreteDone
  <2>1. pc' \in LoopPC /\ cur' = NoJob /\ todo' = <<>>
    BY <1>2, ReturnType DEF Reject, NothingToPrint, Buffered, DiscreteDone, EndSubmit, Return,
       LoopPC
  <2> QED
    BY <2>1 DEF StackInv, InSend, Sending, LoopPC
<1>3. CASE \/ Accept \/ RenderLabel \/ StartPrinting
           \/ AddLabel /\ ~IsFull(Append(pending, <<cur, Head(todo)>>))
  <2>1. UNCHANGED cur /\ pc' \in {"render", "discrete", "strip"}
    BY <1>3 DEF Accept, RenderLabel, StartPrinting, AddLabel, Goto
  <2> QED
    BY <1>1, <2>1 DEF StackInv, InSend, Sending
<1>4. CASE AddLabel /\ IsFull(Append(pending, <<cur, Head(todo)>>))
  <2>1. Tail(todo) = <<>>
    BY <1>4, FillsAtEnd
  <2>2. /\ SendStrip(Append(pending, <<cur, Head(todo)>>)) /\ pc' = "connect"
        /\ todo' = Tail(todo) /\ UNCHANGED cur
    BY <1>4 DEF AddLabel, Goto
  <2> QED
    BY <2>1, <2>2, StripSentStack
<1>5. CASE FlushJob \/ FlushBefore
  <2>1. /\ SendStrip(pending) /\ pc' = "connect" /\ UNCHANGED <<cur, todo>>
        /\ todo = <<>> \/ PrintsDiscrete(cur)
    BY <1>5 DEF FlushJob, FlushBefore, Goto, ShapeInv
  <2> QED
    BY <1>1, <2>1, StripSentStack DEF PrintsDiscrete, AsStrip
<1>6. CASE SendLabel
  BY <1>1, <1>6 DEF SendLabel, Goto, StackInv, InSend, Sending
<1> QED
  BY <1>2, <1>3, <1>4, <1>5, <1>6 DEF Submit

LEMMA SendStack == TypeInv /\ Balanced /\ StackInv /\ Send => StackInv'
<1> SUFFICES ASSUME TypeInv, Balanced, StackInv, Send PROVE StackInv'
  OBVIOUS
<1>1. InSend /\ pending = <<>> /\ at \in Nat
  BY DEF Send, ConnectOk, ConnectRetry, ConnectFailed, FrameOk, FrameTorn, Account,
     NoTallyToCredit, Accounted, SettleJob, Settled, InSend, Sending, StackInv, TypeInv, TypeOK
<1>2. CASE ConnectOk \/ ConnectRetry \/ FrameOk \/ FrameTorn \/ Account \/ SettleJob
  <2>1. /\ UNCHANGED <<strip, todo, cur, pending>>
        /\ pc' \in {"connect", "frame", "credit", "fail", "settle"}
        /\ pc' \in {"connect", "frame"} => at' = 0
        /\ pc' \in {"credit", "fail", "settle"} => at' >= 1
    BY <1>1, <1>2 DEF ConnectOk, ConnectRetry, FrameOk, FrameTorn, Account, SettleJob, Goto,
       StackInv
  <2> QED
    BY <1>1, <2>1, JobAssumption DEF StackInv, InSend, Sending, PrintsDiscrete, AsStrip
<1>3. CASE ConnectFailed /\ ~strip
  <2>1. pc' \in LoopPC /\ cur' = NoJob /\ todo' = <<>>
    BY <1>3, ReturnType DEF ConnectFailed, EndSubmit, Return, LoopPC
  <2> QED
    BY <2>1 DEF StackInv, InSend, Sending, LoopPC
<1>4. CASE Settled \/ (ConnectFailed /\ strip)
  <2>1. ResumeFlush
    BY <1>4 DEF ConnectFailed, Settled
  <2>2. /\ UNCHANGED <<cur, todo>>
        /\ cur = NoJob => pc' \in LoopPC
        /\ cur # NoJob => pc' \in {"strip", "discrete"}
    BY <2>1, ReturnType DEF ResumeFlush, Return, Goto, LoopPC
  <2> QED
    BY <2>2 DEF StackInv, InSend, Sending, LoopPC
<1>5. CASE NoTallyToCredit
  BY <1>5, NoOrphan DEF Balanced
<1>6. CASE Accounted
  <2>1. /\ UNCHANGED <<cur, todo, pending>>
        /\ \/ strip /\ UNCHANGED strip /\ pc' = "settle" /\ at' = 1
           \/ ~strip /\ pc' = "discrete"
    BY <1>6 DEF Accounted, Goto
  <2>2. cur = NoJob => todo = <<>>
    BY DEF StackInv
  <2>3. CASE strip /\ UNCHANGED strip /\ pc' = "settle" /\ at' = 1
    BY <1>1, <2>1, <2>2, <2>3 DEF StackInv, InSend, Sending, PrintsDiscrete, AsStrip
  <2>4. CASE ~strip /\ pc' = "discrete"
    BY <2>1, <2>2, <2>4 DEF StackInv, InSend, Sending
  <2> QED
    BY <2>1, <2>3, <2>4
<1> QED
  BY <1>2, <1>3, <1>4, <1>5, <1>6 DEF Send

LEMMA StackStep ==
    Regime /\ TypeInv /\ ShapeInv /\ OnceInv /\ RegimeInv /\ [Next]_vars => StackInv'
BY LoopStack, SubmitStack, SendStack, WorldStack DEF Next, RegimeInv, Balanced

-----------------------------------------------------------------------------
(***************************************************************************)
(* Rendering: nothing of the submission is buffered, and the tally expects *)
(* nothing yet of the labels to come.                                      *)
(***************************************************************************)
LEMMA RenderStep ==
    TypeInv /\ RegimeInv /\ [Next]_vars => RenderInv'
<1> SUFFICES ASSUME TypeInv, RegimeInv, Next \/ UNCHANGED vars PROVE RenderInv'
  OBVIOUS
<1> USE DEF RegimeInv
<1>1. CASE Accept
  <2>1. /\ cur \in Job /\ pc = "submit" /\ ~acc[cur].live /\ UNCHANGED <<cur, pending>>
        /\ acc' = [acc EXCEPT ![cur] = NewTally] /\ acc \in [Job -> Tally] /\ label' = 1
    BY <1>1 DEF Accept, OnceAtATime, TypeInv, TypeOK, CurOK
  <2>2. acc'[cur'].live /\ \A i \in Index : acc'[cur'].expected[i] = 0
    BY <2>1 DEF NewTally, NoTally, Zero
  <2>3. \A n \in DOMAIN pending : pending[n][1] # cur
    <3> SUFFICES ASSUME NEW n \in DOMAIN pending, pending[n][1] = cur PROVE FALSE
      OBVIOUS
    <3>1. PICK j \in Job, i \in Index : pending[n] = <<j, i>> /\ Waiting(j, i) > 0
      BY BufferWaits
    <3> QED
      BY <2>1, <3>1, WaitsLive
  <2> QED
    BY <2>1, <2>2, <2>3 DEF RenderInv
<1>2. CASE RenderLabel
  <2>1. /\ cur \in Job /\ pc = "render" /\ label \in Index /\ label \in Nat
        /\ label' = label + 1 /\ UNCHANGED <<cur, pending>> /\ TallyTypeOK
        /\ Copies(cur, label) \in Nat
    BY <1>2, LabelFacts DEF RenderLabel, TypeInv, TypeOK, CurOK, TallyTypeOK
  <2>2. /\ acc'[cur].live = acc[cur].live
        /\ \A i \in Index : i # label => acc'[cur].expected[i] = acc[cur].expected[i]
    <3>1. CASE Expects(cur, label, Copies(cur, label))
      BY <2>1, <3>1, ExpectedUpdate
    <3>2. ASSUME NEW s, acc' = [acc EXCEPT ![cur].render[label] = s]
          PROVE  acc'[cur].live = acc[cur].live /\ acc'[cur].expected = acc[cur].expected
      BY <2>1, <3>2 DEF TallyTypeOK, Tally
    <3> QED
      BY <1>2, <3>1, <3>2 DEF RenderLabel, Settle, QueueCopies, Expects
  <2>3. ASSUME NEW i \in Index, i >= label'
        PROVE  i # label /\ i >= label
    <3>1. PICK j \in Job : i \in Label(j)
      BY DEF Index
    <3>2. i \in Nat
      BY <3>1, LabelFacts DEF Label, Envelope
    <3> QED
      BY <2>1, <2>3, <3>2
  <2>4. acc[cur].live /\ label >= 1 /\ \A i \in Index : i >= label => acc[cur].expected[i] = 0
    BY <2>1 DEF RenderInv
  <2>5. \A i \in Index : i >= label' => acc'[cur].expected[i] = 0
    BY <2>2, <2>3, <2>4
  <2>6. label' >= 1
    BY <2>1, <2>4
  <2> QED
    BY <2>1, <2>2, <2>4, <2>5, <2>6 DEF RenderInv
<1>3. CASE Crash
  BY <1>3 DEF Crash, Forget, RenderInv
<1>4. CASE (World \/ UNCHANGED vars) /\ ~Crash
  <2>1. UNCHANGED <<acc, pending, cur, pc, label>>
    BY <1>4 DEF World, PollFile, Deliver, GapPasses, Insert, Enqueue, FlushCommand, Stop, vars
  <2> QED
    BY <2>1 DEF RenderInv
<1>5. CASE Loop \/ Send \/ (Submit /\ ~Accept /\ ~RenderLabel)
  <2>1. pc' # "render"
    BY <1>5, ReturnType
    DEF Loop, Boot, ScanDone, PollDone, GetJob, GetFlush, Tick, RetryQueued,
        Shutdown, Resubmit, Exit, Forget, Send, ConnectOk, ConnectRetry, ConnectFailed,
        FrameOk, FrameTorn, Account, NoTallyToCredit, Accounted, SettleJob, Settled,
        ResumeFlush, Submit, Reject, NothingToPrint, StartPrinting, AddLabel, FlushJob,
        Buffered, FlushBefore, SendLabel, DiscreteDone, EndSubmit, Return, Goto
  <2> QED
    BY <2>1 DEF RenderInv
<1> QED
  BY <1>1, <1>2, <1>3, <1>4, <1>5 DEF Next

-----------------------------------------------------------------------------
(***************************************************************************)
(* A job is submitted once at a time.                                      *)
(***************************************************************************)
\* What a submission, or a frame on its way, leaves of the loop.
LEMMA WorkOnce ==
    ASSUME TypeInv, LiveInv, OnceAtATime,
           pc \notin {"boot", "scan", "retry", "poll"},
           UNCHANGED <<inbox, handing, scan>>, cur' \in {cur, NoJob},
           \/ Return
           \/ UNCHANGED caller /\ pc' \notin {"boot", "scan", "submit", "retry", "poll"},
           \A k \in Job : acc'[k].live => acc[k].live \/ k = cur,
           \A k \in Job : \/ state'[k] = state[k] \/ state'[k] = "queued"
                          \/ k = cur \/ acc[k].live
    PROVE  OnceAtATime'
<1>1. ASSUME NEW n \in DOMAIN inbox
      PROVE  state'[inbox[n]] = "queued" /\ inbox[n] # cur'
  <2>1. inbox[n] \in Job /\ state[inbox[n]] = "queued" /\ inbox[n] # cur
    BY DEF OnceAtATime
  <2> QED
    BY <2>1, JobAssumption DEF LiveInv
<1>2. /\ pc' \in {"boot", "scan", "submit", "retry", "poll"} =>
            /\ pc' \in {"scan", "retry"} /\ caller \in {"recover", "retry", "tick"}
            /\ pc' = "scan" => caller \in {"recover", "retry"}
      /\ caller' = caller \/ (caller' = "none" /\ pc' = "idle")
  BY DEF Return, ReturnTo
<1>3. cur' \notin scan
  BY JobAssumption DEF OnceAtATime, TypeInv, TypeOK
<1>4. caller' = "recover" => \A j \in scan : ~acc'[j].live
  BY <1>2 DEF OnceAtATime, TypeInv, TypeOK
<1> QED
  BY <1>1, <1>2, <1>3, <1>4 DEF OnceAtATime

LEMMA SubmitTakesOne ==
    TypeInv /\ LiveInv /\ OnceAtATime /\ Submit => OnceAtATime'
<1> SUFFICES ASSUME TypeInv, LiveInv, OnceAtATime, Submit PROVE OnceAtATime'
  OBVIOUS
<1>1. /\ cur \in Job /\ pc \in {"submit", "render", "strip", "discrete"}
      /\ UNCHANGED <<inbox, handing, scan>> /\ cur' \in {cur, NoJob}
  BY DEF Submit, Reject, Accept, RenderLabel, NothingToPrint, StartPrinting, AddLabel,
     FlushJob, Buffered, FlushBefore, SendLabel, DiscreteDone, TypeInv, CurOK, EndSubmit, Goto
<1>2. \/ Return
      \/ UNCHANGED caller /\ pc' \notin {"boot", "scan", "submit", "retry", "poll"}
  BY DEF Submit, Reject, Accept, RenderLabel, NothingToPrint, StartPrinting, AddLabel,
     FlushJob, Buffered, FlushBefore, SendLabel, DiscreteDone, EndSubmit, Goto
<1>3. \A k \in Job : k # cur => acc'[k] = acc[k] /\ state'[k] = state[k]
  <2>1. \/ UNCHANGED state
        \/ \E s : state' = [state EXCEPT ![cur] = s]
    BY DEF Submit, Reject, Accept, RenderLabel, NothingToPrint, StartPrinting, AddLabel,
       FlushJob, Buffered, FlushBefore, SendLabel, DiscreteDone, Settle, QueueCopies,
       RecordDedupe, Mark, Finish, MaybeFinalize, Finalize
  <2>2. \/ UNCHANGED acc
        \/ \E a : acc' = [acc EXCEPT ![cur] = a]
    BY DEF Submit, Reject, Accept, RenderLabel, NothingToPrint, StartPrinting, AddLabel,
       FlushJob, Buffered, FlushBefore, SendLabel, DiscreteDone, Settle, QueueCopies,
       MaybeFinalize, Finalize
  <2> QED
    BY <1>1, <2>1, <2>2 DEF TypeInv, TypeOK, SpoolTypeOK
<1> QED
  BY <1>1, <1>2, <1>3, WorkOnce

LEMMA SendTakesNone ==
    TypeInv /\ Balanced /\ LiveInv /\ OnceAtATime /\ Send => OnceAtATime'
<1> SUFFICES ASSUME TypeInv, Balanced, LiveInv, OnceAtATime, Send PROVE OnceAtATime'
  OBVIOUS
<1>1. /\ pc \in {"connect", "frame", "credit", "fail", "settle"}
      /\ UNCHANGED <<inbox, handing, scan>> /\ cur' \in {cur, NoJob}
  BY DEF Send, ConnectOk, ConnectRetry, ConnectFailed, FrameOk, FrameTorn, Account,
     NoTallyToCredit, Accounted, SettleJob, Settled, ResumeFlush, EndSubmit, Goto
<1>2. \/ Return
      \/ UNCHANGED caller /\ pc' \notin {"boot", "scan", "submit", "retry", "poll"}
  <2>1. ~NoTallyToCredit
    BY NoOrphan DEF Balanced
  <2> QED
    BY <1>1, <2>1 DEF Send, ConnectOk, ConnectRetry, ConnectFailed, FrameOk, FrameTorn, Account,
     Accounted, SettleJob, Settled, ResumeFlush, EndSubmit, Goto
<1>3. \A k \in Job : /\ acc'[k].live => acc[k].live
                     /\ state'[k] \in {state[k], "queued"} \/ acc[k].live
  <2>1. CASE SettleJob
    <3>1. batch[at][1] \in Job /\ MaybeFinalize(batch[at][1])
      BY <2>1 DEF SettleJob, TypeInv, TypeOK, Item
    <3> QED
      BY <3>1 DEF MaybeFinalize, Finalize, Finish, NoTally, TypeInv, TypeOK, SpoolTypeOK
  <2>2. CASE ConnectFailed
    BY <2>2 DEF ConnectFailed, Stall, Requeue, NoTally
  <2>3. CASE Account
    <3>1. UNCHANGED state
      BY <2>3 DEF Account, CreditCopy, FailCopy, LabelPrinted
    <3> QED
      BY <2>3, <3>1, AccountUpdates
  <2>4. CASE ~SettleJob /\ ~ConnectFailed /\ ~Account
    BY <2>4 DEF Send, ConnectOk, ConnectRetry, FrameOk, FrameTorn, NoTallyToCredit,
       Accounted, Settled
  <2> QED
    BY <2>1, <2>2, <2>3, <2>4
<1> QED
  BY <1>1, <1>2, <1>3, WorkOnce

\* Taking the head of the inbox leaves the rest distinct from it.
LEMMA InboxTail ==
    ASSUME NEW S, NEW s \in Seq(S), s # <<>>,
           \A m, n \in DOMAIN s : s[m] = s[n] => m = n
    PROVE  /\ Tail(s) \in Seq(S) /\ Head(s) \in S /\ 1 \in DOMAIN s /\ s[1] = Head(s)
           /\ \A m, n \in DOMAIN Tail(s) : Tail(s)[m] = Tail(s)[n] => m = n
           /\ \A n \in DOMAIN Tail(s) : /\ n + 1 \in DOMAIN s /\ Tail(s)[n] = s[n + 1]
                                        /\ Tail(s)[n] # Head(s)
<1>1. /\ Tail(s) \in Seq(S) /\ Head(s) \in S /\ 1 \in DOMAIN s /\ s[1] = Head(s)
      /\ Len(Tail(s)) = Len(s) - 1
      /\ \A n \in 1..Len(Tail(s)) : Tail(s)[n] = s[n + 1]
  BY HeadTailProperties, EmptySeq
<1>2. ASSUME NEW n \in DOMAIN Tail(s)
      PROVE  /\ n + 1 \in DOMAIN s /\ Tail(s)[n] = s[n + 1] /\ n + 1 # 1 /\ n \in Nat
  BY <1>1
<1>3. ASSUME NEW m \in DOMAIN Tail(s), NEW n \in DOMAIN Tail(s), Tail(s)[m] = Tail(s)[n]
      PROVE  m = n
  <2>1. m + 1 = n + 1
    BY <1>2, <1>3
  <2> QED
    BY <1>2, <2>1
<1> QED
  BY <1>1, <1>2, <1>3

LEMMA LoopTakesOne ==
    TypeInv /\ LiveInv /\ StackInv /\ OnceAtATime /\ Loop => OnceAtATime'
<1> SUFFICES ASSUME TypeInv, LiveInv, StackInv, OnceAtATime, Loop PROVE OnceAtATime'
  OBVIOUS
<1>1. CASE Exit
  BY <1>1, EmptySeq DEF Exit, Forget, NoTally, OnceAtATime
<1>2. cur = NoJob /\ inbox \in Seq(Job) /\ handing = NoJob /\ NoJob \notin Job /\ scan \subseteq Job
  BY JobAssumption
  DEF Loop, Boot, ScanDone, PollDone, GetJob, GetFlush, Tick, RetryQueued, Shutdown,
      Resubmit, Exit, StackInv, OnceAtATime, TypeInv, TypeOK
<1>3. CASE Boot \/ RetryQueued
  <2>1. /\ inbox = <<>> /\ UNCHANGED <<inbox, handing, cur, acc>> /\ pc' = "scan"
        /\ scan' \subseteq Job /\ caller' \in {"recover", "retry"}
        /\ caller' = "recover" => \A j \in Job : ~acc[j].live
    BY <1>3 DEF Boot, RetryQueued, OnceAtATime, Queued
  <2> QED
    BY <1>2, <2>1 DEF OnceAtATime
<1>4. CASE ScanDone \/ PollDone \/ Shutdown
  <2>1. /\ UNCHANGED <<inbox, handing, cur, acc, state, scan>>
        /\ pc' \in {"poll", "idle", "exit", "connect"}
        /\ pc' = "poll" => scan = {}
        /\ pc = "scan" => inbox = <<>>
        /\ pc # "scan" => caller' \in {caller, "none", "stop"}
        /\ pc = "scan" => UNCHANGED caller
        /\ pc = "poll" => caller' = "none"
    BY <1>4 DEF ScanDone, PollDone, Shutdown, Goto, OnceAtATime
  <2>2. inbox # <<>> => scan = {} /\ (pc = "poll" \/ caller \in {"none", "item", "stop"})
    BY DEF OnceAtATime
  <2> QED
    BY <2>1, <2>2 DEF OnceAtATime
<1>5. CASE GetJob
  <2>1. /\ inbox' = Tail(inbox) /\ inbox # <<>> /\ pc' = "submit" /\ caller' = "item"
        /\ cur' = Head(inbox) /\ UNCHANGED <<handing, acc, state, scan>> /\ scan = {}
    BY <1>5 DEF GetJob, OnceAtATime
  <2>2. /\ Tail(inbox) \in Seq(Job) /\ Head(inbox) \in Job
        /\ \A m, n \in DOMAIN Tail(inbox) : Tail(inbox)[m] = Tail(inbox)[n] => m = n
        /\ \A n \in DOMAIN Tail(inbox) :
              state[Tail(inbox)[n]] = "queued" /\ Tail(inbox)[n] # Head(inbox)
        /\ state[Head(inbox)] = "queued"
    BY <1>2, <2>1, InboxTail DEF OnceAtATime
  <2>3. ~acc[Head(inbox)].live
    BY <2>2 DEF LiveInv
  <2> QED
    BY <1>2, <2>1, <2>2, <2>3 DEF OnceAtATime
<1>6. CASE GetFlush
  <2>1. FlushCmd \in Job
    BY <1>2, <1>6, HeadTailProperties DEF GetFlush
  <2> QED
    BY <2>1, WorkerAssumption
<1>7. CASE Tick
  <2>1. /\ inbox = <<>> /\ UNCHANGED <<inbox, handing, cur, acc, scan>>
        /\ pc' \in {"connect", "retry"} /\ caller' = "tick"
    BY <1>7 DEF Tick
  <2> QED
    BY <1>2, <2>1 DEF OnceAtATime
<1>8. ASSUME NEW j \in Job, Resubmit(j)
      PROVE  OnceAtATime'
  <2>1. /\ pc = "scan" /\ j \in scan /\ scan' = scan \ {j} /\ inbox = <<>>
        /\ UNCHANGED <<inbox, handing, acc, caller>> /\ caller \in {"recover", "retry"}
        /\ \/ UNCHANGED <<pc, cur>>
           \/ pc' = "submit" /\ cur' = j /\ (caller = "retry" => ~acc[j].live)
    BY <1>8 DEF Resubmit, Oldest, MayRetry, OnceAtATime
  <2>2. caller = "recover" => ~acc[j].live /\ \A k \in scan' : ~acc[k].live
    BY <2>1 DEF OnceAtATime
  <2> QED
    BY <1>2, <2>1, <2>2 DEF OnceAtATime
<1> QED
  BY <1>1, <1>3, <1>4, <1>5, <1>6, <1>7, <1>8 DEF Loop

LEMMA WorldTakesNone ==
    Regime /\ TypeInv /\ LiveInv /\ StackInv /\ OnceAtATime /\ (World \/ UNCHANGED vars)
        => OnceAtATime'
<1> SUFFICES ASSUME Regime, TypeInv, LiveInv, StackInv, OnceAtATime, World \/ UNCHANGED vars
             PROVE  OnceAtATime'
  OBVIOUS
<1>1. CASE Crash
  BY <1>1, EmptySeq DEF Crash, Forget, NoTally, OnceAtATime
<1>2. CASE UNCHANGED vars \/ Stop \/ (\E j \in Job : GapPasses(j))
  <2>1. UNCHANGED <<inbox, handing, cur, acc, state, scan, pc, caller>>
    BY <1>2 DEF vars, Stop, GapPasses
  <2> QED
    BY <2>1 DEF OnceAtATime
<1>3. CASE Enqueue \/ FlushCommand \/ (\E j \in Job : Deliver(j))
  BY <1>3 DEF Enqueue, FlushCommand, Deliver, Online, Regime, OnceAtATime
<1>4. ASSUME NEW j \in Job, PollFile(j)
      PROVE  OnceAtATime'
  <2>1. /\ pc = "poll" /\ pc' = "poll" /\ cur = NoJob /\ scan = {} /\ state[j] = "absent"
        /\ UNCHANGED <<handing, cur, acc, scan, caller>> /\ inbox' = Append(inbox, j)
        /\ state' = [state EXCEPT ![j] = "queued"] /\ inbox \in Seq(Job)
    BY <1>4 DEF PollFile, Insert, OnceAtATime, StackInv
  <2>2. /\ inbox' \in Seq(Job)
        /\ \A n \in DOMAIN inbox' : \/ n \in DOMAIN inbox /\ inbox'[n] = inbox[n]
                                    \/ n = Len(inbox) + 1 /\ inbox'[n] = j
    BY <2>1, AppendProperties
  <2>3. \A n \in DOMAIN inbox : inbox[n] \in Job /\ state[inbox[n]] = "queued" /\ inbox[n] # j
    BY <2>1 DEF OnceAtATime
  <2>4. \A n \in DOMAIN inbox' : inbox'[n] \in Job /\ state'[inbox'[n]] = "queued"
    BY <2>1, <2>2, <2>3 DEF TypeInv, TypeOK, SpoolTypeOK
  <2>5. \A m, n \in DOMAIN inbox' : inbox'[m] = inbox'[n] => m = n
    BY <2>1, <2>2, <2>3 DEF OnceAtATime
  <2> QED
    BY <2>1, <2>2, <2>4, <2>5, JobAssumption DEF OnceAtATime
<1> QED
  BY <1>1, <1>2, <1>3, <1>4 DEF World

LEMMA OnceAtATimeStep ==
    Regime /\ TypeInv /\ RegimeInv /\ [Next]_vars => OnceAtATime'
BY LoopTakesOne, SubmitTakesOne, SendTakesNone, WorldTakesNone DEF Next, RegimeInv, Balanced

-----------------------------------------------------------------------------
(***************************************************************************)
(* The status.                                                             *)
(***************************************************************************)
LEMMA PrintingStep ==
    TypeInv /\ RegimeInv /\ [Next]_vars => PrintingInv'
<1> SUFFICES ASSUME TypeInv, RegimeInv, Next \/ UNCHANGED vars PROVE PrintingInv'
  OBVIOUS
<1>1. PrintingInv /\ ~NoTallyToCredit
  BY NoOrphan DEF RegimeInv
<1>2. CASE status' # "printing"
  BY <1>2 DEF PrintingInv
<1>3. CASE pc' \in {"connect", "frame", "credit", "fail", "settle", "discrete"}
  BY <1>3 DEF PrintingInv, InSend, Sending
<1>4. CASE status' = "printing" /\ pc' \notin {"connect", "frame", "credit", "fail", "settle", "discrete"}
  <2>1. UNCHANGED status
    BY <1>4 DEF Next, Loop, Boot, ScanDone, PollDone, GetJob, GetFlush, Tick, RetryQueued,
        Shutdown, Resubmit, Exit, Forget, Send, ConnectOk, ConnectRetry, ConnectFailed,
        FrameOk, FrameTorn, Account, NoTallyToCredit, Accounted, SettleJob, Settled,
        Submit, Reject, Accept, RenderLabel, NothingToPrint, StartPrinting, AddLabel, FlushJob,
        Buffered, FlushBefore, SendLabel, DiscreteDone, Goto, SendStrip, World, PollFile,
        Deliver, GapPasses, Insert, Enqueue, FlushCommand, Stop, Crash, vars
  <2>2. pc \in {"connect", "frame", "credit", "fail", "settle", "discrete"}
    BY <1>1, <1>4, <2>1 DEF PrintingInv, InSend, Sending
  <2> QED
    BY <1>1, <1>4, <2>1, <2>2 DEF Next, Loop, Boot, ScanDone, PollDone, GetJob, GetFlush, Tick,
        RetryQueued, Shutdown, Resubmit, Exit, Forget, Send, ConnectOk, ConnectRetry,
        ConnectFailed, FrameOk, FrameTorn, Account, Accounted, SettleJob, Settled, Submit,
        Reject, Accept, RenderLabel, NothingToPrint, StartPrinting, AddLabel, FlushJob,
        Buffered, FlushBefore, SendLabel, DiscreteDone, Goto, SendStrip, World, PollFile,
        Deliver, GapPasses, Insert, Enqueue, FlushCommand, Stop, Crash, vars
<1> QED
  BY <1>2, <1>3, <1>4

-----------------------------------------------------------------------------
(***************************************************************************)
(* The theorems.                                                           *)
(***************************************************************************)
LEMMA RegimeStep ==
    Regime /\ TypeInv /\ ShapeInv /\ OnceInv /\ RegimeInv /\ [Next]_vars => RegimeInv'
BY BalanceStep, LiveStep, StackStep, RenderStep, OnceAtATimeStep, PrintingStep
DEF RegimeInv, Balanced

LEMMA RegimeInit == Init => RegimeInv
<1> SUFFICES ASSUME Init PROVE RegimeInv
  OBVIOUS
<1>1. /\ pending = <<>> /\ batch = <<>> /\ todo = <<>> /\ cur = NoJob /\ inbox = <<>>
      /\ pc = "boot" /\ handing = NoJob /\ scan = {} /\ status = "disconnected"
      /\ \A j \in Job : ~acc[j].live
  BY DEF Init, NoTally
<1>2. ASSUME NEW j \in Job, NEW i \in Index
      PROVE  Waiting(j, i) = 0
  BY <1>1, NothingWaits DEF Waiting
<1>3. BalanceInv /\ UncommittedInv
  BY <1>1, <1>2 DEF BalanceInv, UncommittedInv, Accounts
<1>4. LiveInv /\ StackInv /\ RenderInv /\ PrintingInv
  BY <1>1, JobAssumption DEF LiveInv, StackInv, RenderInv, PrintingInv, InSend, Sending
<1>5. OnceAtATime
  BY <1>1, EmptySeq DEF OnceAtATime, Init
<1> QED
  BY <1>3, <1>4, <1>5 DEF RegimeInv

LEMMA RegimeHolds == Regime => (Spec => [](TypeInv /\ RegimeInv))
<1> SUFFICES ASSUME Regime PROVE Spec => [](TypeInv /\ RegimeInv)
  OBVIOUS
<1>1. TypeInv /\ ShapeInv /\ OnceInv /\ RegimeInv /\ [Next]_vars => RegimeInv'
  BY RegimeStep
<1> QED
  BY <1>1, TypeInit, TypeStep, ShapeInit, ShapeStep, OnceInit, OnceStep, RegimeInit, PTL DEF Spec

\* Where no strip is filled in the middle of a job and the directory is the
\* source, the buffer and the tallies name the same jobs whenever the loop is
\* idle, over any stalls, retries, torn frames and crashes: a buffered label
\* has a tally to be credited to, so no flush raises KeyError, and no job is in
\* flight that nothing will settle.
THEOREM BufferMatchesTallies == Regime => (Spec => []InFlightIsBuffered)
<1>1. TypeInv /\ RegimeInv => InFlightIsBuffered
  <2> SUFFICES ASSUME TypeInv, RegimeInv, pc = "idle"
               PROVE  JobsOf(pending) = {j \in Job : acc[j].live}
    BY DEF InFlightIsBuffered
  <2>1. ASSUME NEW n \in DOMAIN pending
        PROVE  pending[n][1] \in Job /\ acc[pending[n][1]].live
    <3>1. PICK j \in Job, i \in Index : pending[n] = <<j, i>> /\ Waiting(j, i) > 0
      BY BufferWaits
    <3> QED
      BY <3>1, WaitsLive DEF RegimeInv
  <2>2. ASSUME NEW j \in Job, acc[j].live
        PROVE  j \in JobsOf(pending)
    <3>1. cur = NoJob /\ Unsettled = {}
      BY DEF RegimeInv, StackInv, Unsettled, Sending
    <3> QED
      BY <2>2, <3>1, JobAssumption DEF RegimeInv, LiveInv
  <2> QED
    BY <2>1, <2>2 DEF JobsOf
<1> QED
  BY <1>1, RegimeHolds, PTL

\* There, no frame ever holds a label the spool has committed as printed.
THEOREM FramesAreUncommitted == Regime => (Spec => []CommittedNotReprinted)
<1>1. TypeInv /\ RegimeInv => CommittedNotReprinted
  <2> SUFFICES ASSUME TypeInv, RegimeInv, NEW it \in InFrame
               PROVE  it[2] \notin printed[it[1]]
    BY DEF CommittedNotReprinted
  <2>1. pc = "frame" /\ \E n \in DOMAIN batch : it = batch[n]
    BY DEF InFrame
  <2>2. PICK n \in DOMAIN batch : it = batch[n]
    BY <2>1
  <2>3. Sending /\ at = 0 /\ batch \in Seq(Item)
    BY <2>1 DEF RegimeInv, StackInv, Sending, TypeInv, TypeOK
  <2>4. n >= at
    BY <2>3
  <2>5. PICK j \in Job, i \in Index : batch[n] = <<j, i>> /\ Waiting(j, i) > 0
    BY <2>3, <2>4, FrameWaits
  <2> QED
    BY <2>2, <2>5 DEF RegimeInv, UncommittedInv
<1> QED
  BY <1>1, RegimeHolds, PTL

\* There, the status topic never says the printer is printing while the loop is
\* idle.
THEOREM IdleStatusIsSettled == Regime => (Spec => []IdleIsNotPrinting)
<1>1. RegimeInv => IdleIsNotPrinting
  BY DEF RegimeInv, PrintingInv, InSend, Sending, IdleIsNotPrinting
<1> QED
  BY <1>1, RegimeHolds, PTL

\* Two configurations where no strip is filled in the middle of a job: die-cut
\* tape, and strip jobs of one label printed once, however many share a strip.
LEMMA WhereJobsFit ==
    ASSUME \A j \in Job : ~PrintsDiscrete(j) => Label(j) = {1} /\ Copies(j, 1) = 1
    PROVE  JobsFit
<1> SUFFICES ASSUME NEW s \in Seq(StripItem), s # <<>>,
                    \A it \in Item : Times(it, s) <= Copies(it[1], it[2]),
                    NEW i \in Label(s[Len(s)][1])
             PROVE  Times(<<s[Len(s)][1], i>>, s) = Copies(s[Len(s)][1], i)
  BY DEF JobsFit
<1> DEFINE j == s[Len(s)][1]
<1>1. Len(s) \in DOMAIN s /\ s[Len(s)] \in StripItem
  BY EmptySeq
<1>2. /\ j \in Job /\ ~PrintsDiscrete(j) /\ s[Len(s)] = <<j, s[Len(s)][2]>>
      /\ s[Len(s)][2] \in Label(j)
  BY <1>1 DEF StripItem, Item
<1> HIDE DEF j
<1>3. i = 1 /\ s[Len(s)] = <<j, 1>> /\ Copies(j, 1) = 1 /\ <<j, 1>> \in Item
  BY <1>2, LabelFacts DEF j
<1>4. Times(<<j, 1>>, s) > 0 /\ Times(<<j, 1>>, s) \in Nat
  <2> DEFINE x == <<j, 1>>
  <2>1. \E n \in DOMAIN s : s[n] = x
    BY <1>1, <1>3
  <2> HIDE DEF x
  <2>2. /\ Cardinality({n \in DOMAIN s : s[n] = x}) \in Nat
        /\ Times(x, s) = Cardinality({n \in DOMAIN s : s[n] = x})
        /\ (\E n \in DOMAIN s : s[n] = x) <=> Times(x, s) > 0
    BY TimesType
  <2>3. Times(x, s) > 0 /\ Times(x, s) \in Nat
    BY <2>1, <2>2
  <2> QED
    BY <2>3 DEF x
<1>5. Times(<<j, 1>>, s) <= 1
  BY <1>3
<1>6. Times(<<j, 1>>, s) = 1
  BY <1>4, <1>5
<1> QED
  BY <1>3, <1>6 DEF j
=============================================================================
