--------------------------- MODULE Replay_proofs ---------------------------
(***************************************************************************)
(* What replayEffectWal computes, for every log: the lemmas about the fold *)
(* over the log that the proofs of RunJournal rest on.                     *)
(***************************************************************************)
EXTENDS RunJournal, TLAPS, FiniteSetTheorems

\* The lines of a log.
Lines == Entries \cup {TornLine}

\* A number of a set of naturals that none is below.
LEMMA LeastNumber ==
  ASSUME NEW T \in SUBSET Nat, T # {}
  PROVE  \E x \in T : \A y \in T : ~(y < x)
<1> DEFINE R == OpToRel(<, Nat)
<1>1. IsWellFoundedOn(R, Nat)
  BY NatLessThanWellFounded
<1>2. \A x, y \in Nat : y < x => <<y, x>> \in R
  BY DEF OpToRel
<1> HIDE DEF R
<1>3. \E x \in T : \A y \in T : ~(<<y, x>> \in R)
  BY <1>1, WFMin
<1> QED BY <1>2, <1>3

\* Induction over the subsets of a finite set: a nonempty one is reached by
\* adding one element to a smaller one.
LEMMA SubsetInduction ==
  ASSUME NEW A, IsFiniteSet(A), NEW G, {} \in G,
         \A s \in SUBSET A : s # {} => \E x \in s : s \ {x} \in G => s \in G
  PROVE  SUBSET A \subseteq G
<1> DEFINE T == {Cardinality(s) : s \in (SUBSET A) \ G}
<1> SUFFICES ASSUME NEW s0 \in SUBSET A, s0 \notin G PROVE FALSE
  OBVIOUS
<1>1. \A s \in SUBSET A : IsFiniteSet(s) /\ Cardinality(s) \in Nat
  BY FS_Subset, FS_CardinalityType
<1>2. T \in SUBSET Nat /\ T # {}
  BY <1>1
<1>3. PICK n \in T : \A m \in T : ~(m < n)
  <2> HIDE DEF T
  <2> QED BY <1>2, LeastNumber
<1>4. PICK s \in (SUBSET A) \ G : n = Cardinality(s)
  OBVIOUS
<1>5. s # {}
  OBVIOUS
<1>6. PICK x \in s : s \ {x} \in G => s \in G
  BY <1>5
<1>7. Cardinality(s \ {x}) = Cardinality(s) - 1
  BY <1>1, FS_RemoveElement
<1>8. s \ {x} \in SUBSET A /\ s \ {x} \notin G
  BY <1>4, <1>6
<1>9. Cardinality(s \ {x}) \in T
  BY <1>8
<1>10. Cardinality(s \ {x}) < n
  BY <1>1, <1>4, <1>7
<1> QED BY <1>3, <1>9, <1>10

-----------------------------------------------------------------------------
\* k is replayed after the places s.
Follows(entries, s, k) == \A j \in s :
  entries[j].seq < entries[k].seq \/ (entries[j].seq = entries[k].seq /\ j <= k)

\* The places of a log, with the numbers of their entries.
Numbered(entries, A) == /\ A \subseteq Nat
                        /\ IsFiniteSet(A)
                        /\ \A k \in A : entries[k].seq \in Nat

\* Of any places one is replayed last, and only one.
LEMMA LastExists ==
  ASSUME NEW entries, NEW A, Numbered(entries, A), NEW s \in SUBSET A, s # {}
  PROVE  /\ LastOf(entries, s) \in s
         /\ Follows(entries, s, LastOf(entries, s))
         /\ \A k \in s : Follows(entries, s, k) => k = LastOf(entries, s)
<1> DEFINE G == {r \in SUBSET A : r = {} \/ \E k \in r : Follows(entries, r, k)}
<1>1. ASSUME NEW r \in SUBSET A, r # {}
      PROVE  \E x \in r : r \ {x} \in G => r \in G
  <2>1. PICK x \in r : TRUE
    BY <1>1
  <2>2. ASSUME r \ {x} \in G PROVE r \in G
    <3>1. CASE r \ {x} = {}
      <4>1. Follows(entries, r, x)
        BY <2>1, <3>1 DEF Follows, Numbered
      <4> QED BY <2>1, <4>1
    <3>2. CASE r \ {x} # {}
      <4>1. PICK k \in r \ {x} : Follows(entries, r \ {x}, k)
        BY <2>2, <3>2
      <4>2. x \in Nat /\ k \in Nat /\ entries[x].seq \in Nat /\ entries[k].seq \in Nat
        BY DEF Numbered
      <4>3. \A j \in r : j \in Nat /\ entries[j].seq \in Nat
        BY DEF Numbered
      <4>4. CASE entries[x].seq < entries[k].seq \/ (entries[x].seq = entries[k].seq /\ x <= k)
        <5>1. Follows(entries, r, k)
          BY <4>1, <4>4 DEF Follows
        <5> QED BY <5>1
      <4>5. CASE ~(entries[x].seq < entries[k].seq \/ (entries[x].seq = entries[k].seq /\ x <= k))
        <5>1. Follows(entries, r, x)
          BY <4>1, <4>2, <4>3, <4>5 DEF Follows
        <5> QED BY <5>1
      <4> QED BY <4>4, <4>5
    <3> QED BY <3>1, <3>2
  <2> QED BY <2>1, <2>2
<1>2. {} \in G
  OBVIOUS
<1> HIDE DEF G
<1>3. SUBSET A \subseteq G
  BY <1>1, <1>2, SubsetInduction DEF Numbered
<1>4. \E k \in s : Follows(entries, s, k)
  BY <1>3 DEF G
<1>5. LastOf(entries, s) \in s /\ Follows(entries, s, LastOf(entries, s))
  BY <1>4 DEF LastOf, Follows
<1>6. \A k \in s : k \in Nat /\ entries[k].seq \in Nat
  BY DEF Numbered
<1> DEFINE z == LastOf(entries, s)
<1>7. ASSUME NEW k \in s, Follows(entries, s, k) PROVE k = z
  <2> HIDE DEF z
  <2>1. z \in s /\ Follows(entries, s, z)
    BY <1>5 DEF z
  <2> QED BY <1>6, <1>7, <2>1 DEF Follows
<1> QED BY <1>5, <1>7

-----------------------------------------------------------------------------
(* The recursion of the fold.                                              *)

Step(h, l, entries, s) ==
  IF s = {} THEN l
  ELSE Apply(h[s \ {LastOf(entries, s)}], entries[LastOf(entries, s)])

IsReplay(h, l, entries, A) == h = [s \in SUBSET A |-> Step(h, l, entries, s)]

\* The ledger after the replay of the places A.
ReplayOf(l, entries, A) == (CHOOSE h : IsReplay(h, l, entries, A))[A]

\* The replay of all that the watermark does not cover.
LEMMA ReplayedIs ==
  ASSUME NEW l, NEW entries, NEW watermark
  PROVE  Replayed(l, entries, watermark) = ReplayOf(l, entries, Above(entries, watermark))
BY DEF Replayed, MapThenFoldSet, ReplayOf, IsReplay, Step

\* There is a function with that recursion.
LEMMA ReplayExists ==
  ASSUME NEW l, NEW entries, NEW A, Numbered(entries, A)
  PROVE  \E h : IsReplay(h, l, entries, A)
<1> DEFINE Upto(n) == {s \in SUBSET A : Cardinality(s) <= n}
           T == {n \in Nat : \E h : h = [s \in Upto(n) |-> Step(h, l, entries, s)]}
<1>1. \A s \in SUBSET A : IsFiniteSet(s) /\ Cardinality(s) \in Nat /\ (Cardinality(s) = 0 <=> s = {})
  BY FS_Subset, FS_CardinalityType, FS_EmptySet DEF Numbered
<1>2. 0 \in T
  <2> DEFINE h == [s \in Upto(0) |-> l]
  <2>1. \A s \in Upto(0) : s = {}
    BY <1>1
  <2>2. h = [s \in Upto(0) |-> Step(h, l, entries, s)]
    BY <2>1 DEF Step
  <2> HIDE DEF h
  <2> QED BY <2>2
<1>3. ASSUME NEW n \in Nat, n \in T PROVE n + 1 \in T
  <2>1. PICK h : h = [s \in Upto(n) |-> Step(h, l, entries, s)]
    BY <1>3
  <2> DEFINE g == [s \in Upto(n + 1) |-> Step(h, l, entries, s)]
  <2>2. ASSUME NEW s \in Upto(n) PROVE s \in Upto(n + 1) /\ g[s] = h[s]
    <3>1. s \in Upto(n + 1)
      BY <1>1
    <3> QED BY <2>1, <3>1
  <2>3. ASSUME NEW s \in Upto(n + 1) PROVE g[s] = Step(g, l, entries, s)
    <3>1. g[s] = Step(h, l, entries, s)
      OBVIOUS
    <3>2. ASSUME s # {} PROVE g[s \ {LastOf(entries, s)}] = h[s \ {LastOf(entries, s)}]
      <4>1. LastOf(entries, s) \in s
        BY <3>2, LastExists
      <4>2. Cardinality(s \ {LastOf(entries, s)}) = Cardinality(s) - 1
        BY <1>1, <4>1, FS_RemoveElement
      <4>3. s \ {LastOf(entries, s)} \in Upto(n)
        <5>1. s \ {LastOf(entries, s)} \in SUBSET A
          OBVIOUS
        <5>2. Cardinality(s) \in Nat /\ Cardinality(s) <= n + 1
          BY <1>1
        <5> QED BY <4>2, <5>1, <5>2
      <4> QED BY <2>2, <4>3
    <3> HIDE DEF g
    <3> QED BY <3>1, <3>2 DEF Step
  <2>4. g = [s \in Upto(n + 1) |-> Step(g, l, entries, s)]
    <3>1. g = [s \in Upto(n + 1) |-> g[s]]
      OBVIOUS
    <3> HIDE DEF g, Upto
    <3> QED BY <2>3, <3>1
  <2> HIDE DEF g, Upto
  <2>5. \E f : f = [s \in Upto(n + 1) |-> Step(f, l, entries, s)]
    BY <2>4
  <2> QED BY <2>5, n + 1 \in Nat
<1>4. Nat \subseteq T
  <2> DEFINE U == Nat \ T
  <2> SUFFICES ASSUME U # {} PROVE FALSE
    OBVIOUS
  <2> HIDE DEF T
  <2>1. PICK x \in U : \A y \in U : ~(y < x)
    BY LeastNumber
  <2>2. x # 0 /\ x \in Nat
    BY <1>2
  <2>3. x - 1 \in Nat /\ x - 1 < x
    BY <2>2
  <2>4. x - 1 \notin U
    BY <2>1, <2>3
  <2>5. x - 1 + 1 \in T
    BY <1>3, <2>3, <2>4
  <2> QED BY <2>1, <2>2, <2>5
<1>5. Cardinality(A) \in Nat
  BY <1>1
<1>6. Upto(Cardinality(A)) = SUBSET A
  <2>1. \A s \in SUBSET A : Cardinality(s) <= Cardinality(A)
    BY FS_Subset DEF Numbered
  <2> QED BY <2>1
<1>7. PICK h : h = [s \in Upto(Cardinality(A)) |-> Step(h, l, entries, s)]
  BY <1>4, <1>5
<1> HIDE DEF Upto
<1> QED BY <1>6, <1>7 DEF IsReplay

\* The logs have the same lines at the places C.
SameLines(d, e, C) == \A k \in C : d[k] = e[k]

\* Two replays agree on the places where the logs do.
LEMMA ReplaysAgree ==
  ASSUME NEW l, NEW d, NEW e, NEW A, NEW B, Numbered(d, A), Numbered(e, B),
         NEW h, IsReplay(h, l, d, A), NEW g, IsReplay(g, l, e, B),
         NEW C \in SUBSET (A \cap B), SameLines(d, e, C)
  PROVE  h[C] = g[C]
<1> DEFINE G == {s \in SUBSET C : h[s] = g[s]}
<1>1. IsFiniteSet(C)
  BY FS_Subset DEF Numbered
<1>2. {} \in G
  BY DEF IsReplay, Step
<1>3. ASSUME NEW s \in SUBSET C, s # {} PROVE \E x \in s : s \ {x} \in G => s \in G
  <2> DEFINE x == LastOf(d, s)
  <2>1. x \in s /\ Follows(d, s, x)
    BY <1>3, LastExists
  <2>2. Follows(e, s, x)
    BY <2>1 DEF Follows, SameLines
  <2>3. x = LastOf(e, s)
    BY <1>3, <2>1, <2>2, LastExists
  <2>4. s \in SUBSET A /\ s \in SUBSET B
    OBVIOUS
  <2>5. h[s] = Apply(h[s \ {LastOf(d, s)}], d[LastOf(d, s)])
    BY <1>3, <2>4 DEF IsReplay, Step
  <2>6. g[s] = Apply(g[s \ {LastOf(e, s)}], e[LastOf(e, s)])
    BY <1>3, <2>4 DEF IsReplay, Step
  <2>7. d[x] = e[x]
    BY <2>1 DEF SameLines
  <2>8. ASSUME s \ {x} \in G PROVE h[s] = g[s]
    <3>1. h[s \ {x}] = g[s \ {x}]
      BY <2>8
    <3> QED BY <2>3, <2>5, <2>6, <2>7, <3>1
  <2> HIDE DEF x
  <2> QED BY <2>1, <2>8
<1> HIDE DEF G
<1>4. SUBSET C \subseteq G
  BY <1>1, <1>2, <1>3, SubsetInduction
<1> QED BY <1>4 DEF G

-----------------------------------------------------------------------------
(* What the proofs of RunJournal need of it.                               *)

\* The entries above a watermark are entries, with numbers.
LEMMA AboveNumbered ==
  ASSUME NEW entries \in Seq(Lines), NEW watermark \in Nat
  PROVE  /\ Numbered(entries, Above(entries, watermark))
         /\ \A k \in Above(entries, watermark) : entries[k] \in Entries
<1>1. \A k \in DOMAIN entries : entries[k] \in Lines
  OBVIOUS
<1>2. \A k \in Above(entries, watermark) : entries[k] \in Entries
  BY <1>1 DEF Above, Lines, TornLine
<1>3. \A k \in Above(entries, watermark) : entries[k].seq \in Nat
  BY <1>2 DEF Entries
<1>4. Above(entries, watermark) \in SUBSET (1..Len(entries))
  BY DEF Above
<1>5. IsFiniteSet(Above(entries, watermark))
  BY <1>4, FS_Interval, FS_Subset
<1> QED BY <1>2, <1>3, <1>4, <1>5 DEF Numbered

\* The replay of the places A is that of all but the last, then the last.
LEMMA ReplayStep ==
  ASSUME NEW l, NEW entries, NEW A, Numbered(entries, A), A # {}
  PROVE  ReplayOf(l, entries, A) =
           Apply(ReplayOf(l, entries, A \ {LastOf(entries, A)}), entries[LastOf(entries, A)])
<1> DEFINE x == LastOf(entries, A)
           u == CHOOSE f : IsReplay(f, l, entries, A)
           v == CHOOSE f : IsReplay(f, l, entries, A \ {x})
<1>1. Numbered(entries, A \ {x})
  BY FS_RemoveElement DEF Numbered
<1>2. IsReplay(u, l, entries, A)
  BY ReplayExists
<1>3. IsReplay(v, l, entries, A \ {x})
  <2> HIDE DEF x
  <2> QED BY <1>1, ReplayExists
<1>4. u[A \ {x}] = v[A \ {x}]
  <2>1. A \ {x} \in SUBSET (A \cap (A \ {x}))
    OBVIOUS
  <2>2. SameLines(entries, entries, A \ {x})
    BY DEF SameLines
  <2> HIDE DEF v, u, x
  <2> QED BY <1>1, <1>2, <1>3, <2>1, <2>2, ReplaysAgree
<1>5. u[A] = Apply(u[A \ {x}], entries[x])
  <2> HIDE DEF u
  <2> QED BY <1>2 DEF IsReplay, Step
<1> QED BY <1>4, <1>5 DEF ReplayOf

\* Nothing is replayed of no places.
LEMMA ReplayOfNone ==
  ASSUME NEW l, NEW entries
  PROVE  ReplayOf(l, entries, {}) = l
<1> DEFINE h == CHOOSE f : IsReplay(f, l, entries, {})
<1>1. Numbered(entries, {})
  BY FS_EmptySet DEF Numbered
<1>2. IsReplay(h, l, entries, {})
  BY <1>1, ReplayExists
<1>3. h[{}] = l
  <2> HIDE DEF h
  <2> QED BY <1>2 DEF IsReplay, Step
<1> QED BY <1>3 DEF ReplayOf

\* The replays of two logs that agree on the places are the same.
LEMMA ReplayOfSame ==
  ASSUME NEW l, NEW log, NEW other, NEW A, Numbered(log, A), \A k \in A : log[k] = other[k]
  PROVE  ReplayOf(l, log, A) = ReplayOf(l, other, A)
<1> DEFINE u == CHOOSE f : IsReplay(f, l, log, A)
           v == CHOOSE f : IsReplay(f, l, other, A)
<1>1. Numbered(other, A)
  BY DEF Numbered
<1>2. IsReplay(u, l, log, A) /\ IsReplay(v, l, other, A)
  BY <1>1, ReplayExists
<1>3. u[A] = v[A]
  <2>1. SameLines(log, other, A) /\ A \in SUBSET (A \cap A)
    BY DEF SameLines
  <2> HIDE DEF v, u
  <2> QED BY <1>1, <1>2, <2>1, ReplaysAgree
<1> QED BY <1>3 DEF ReplayOf

\* A log of which the watermark covers everything changes nothing.
LEMMA ReplayNothing ==
  ASSUME NEW l, NEW entries, NEW watermark, Above(entries, watermark) = {}
  PROVE  Replayed(l, entries, watermark) = l
BY ReplayedIs, ReplayOfNone

\* Lines that the watermark covers change nothing.
LEMMA ReplaySame ==
  ASSUME NEW l, NEW d \in Seq(Lines), NEW e \in Seq(Lines), NEW watermark \in Nat,
         Above(d, watermark) = Above(e, watermark),
         \A k \in Above(d, watermark) : d[k] = e[k]
  PROVE  Replayed(l, d, watermark) = Replayed(l, e, watermark)
<1>1. Numbered(d, Above(d, watermark))
  BY AboveNumbered
<1>2. ReplayOf(l, d, Above(d, watermark)) = ReplayOf(l, e, Above(d, watermark))
  BY <1>1, ReplayOfSame
<1> QED BY <1>2, ReplayedIs

\* An entry that is put behind those of lower or the same numbers is replayed
\* last.
LEMMA ReplayAppend ==
  ASSUME NEW l, NEW entries \in Seq(Lines), NEW watermark \in Nat, NEW e \in Entries,
         e.seq > watermark, \A k \in Above(entries, watermark) : entries[k].seq <= e.seq
  PROVE  Replayed(l, Append(entries, e), watermark) =
           Apply(Replayed(l, entries, watermark), e)
<1> DEFINE longer == Append(entries, e)
           n == Len(longer)
           A == Above(entries, watermark)
           B == Above(longer, watermark)
<1>1. /\ longer \in Seq(Lines)
      /\ n \in Nat
      /\ n = Len(entries) + 1
      /\ longer[n] = e
      /\ DOMAIN longer = 1..n
      /\ DOMAIN entries = 1..n-1
      /\ \A k \in DOMAIN entries : longer[k] = entries[k]
  BY DEF Lines
<1>2. e.seq \in Nat
  BY DEF Entries
<1> HIDE DEF longer, n
<1>3. B = A \cup {n} /\ n \notin A
  BY <1>1 DEF Above
<1>4. B \ {n} = A /\ n \in B
  BY <1>3
<1>5. Numbered(longer, B) /\ Numbered(entries, A)
  BY <1>1, AboveNumbered
<1>6. \A k \in A : longer[k] = entries[k] /\ k < n
  BY <1>1 DEF Above
<1>7. Follows(longer, B, n)
  <2> SUFFICES ASSUME NEW j \in B
               PROVE  longer[j].seq < longer[n].seq \/ (longer[j].seq = longer[n].seq /\ j <= n)
    BY DEF Follows
  <2>1. CASE j = n
    BY <1>1, <2>1
  <2>2. CASE j \in A
    <3>1. longer[j].seq <= e.seq /\ j < n
      BY <1>6, <2>2
    <3>2. longer[j].seq \in Nat /\ j \in Nat
      BY <1>5 DEF Numbered
    <3> QED BY <1>1, <1>2, <3>1, <3>2
  <2> QED BY <1>3, <2>1, <2>2
<1>8. n = LastOf(longer, B)
  <2> HIDE DEF A, B
  <2> QED BY <1>4, <1>5, <1>7, LastExists
<1>9. ReplayOf(l, longer, B) = Apply(ReplayOf(l, longer, A), e)
  <2> HIDE DEF A, B
  <2>1. ReplayOf(l, longer, B) = Apply(ReplayOf(l, longer, B \ {n}), longer[n])
    BY <1>4, <1>5, <1>8, ReplayStep
  <2> QED BY <1>1, <1>4, <2>1
<1>10. ReplayOf(l, entries, A) = ReplayOf(l, longer, A)
  <2> HIDE DEF A, B
  <2> QED BY <1>5, <1>6, ReplayOfSame
<1> QED BY <1>9, <1>10, ReplayedIs DEF longer

\* What the journal's ledger satisfies and every entry of the log keeps holds of
\* the ledger that a restart builds.
LEMMA ReplayKeeps ==
  ASSUME NEW l, NEW entries \in Seq(Lines), NEW watermark \in Nat, NEW P, l \in P,
         \A k \in Above(entries, watermark), m \in P : Apply(m, entries[k]) \in P
  PROVE  Replayed(l, entries, watermark) \in P
<1> DEFINE A == Above(entries, watermark)
           G == {s \in SUBSET A : ReplayOf(l, entries, s) \in P}
<1>1. Numbered(entries, A)
  BY AboveNumbered
<1>2. {} \in G
  BY ReplayOfNone
<1>3. ASSUME NEW s \in SUBSET A, s # {} PROVE \E x \in s : s \ {x} \in G => s \in G
  <2>1. Numbered(entries, s)
    BY <1>1, FS_Subset DEF Numbered
  <2>2. LastOf(entries, s) \in s
    BY <1>3, <2>1, LastExists
  <2>3. ReplayOf(l, entries, s) =
          Apply(ReplayOf(l, entries, s \ {LastOf(entries, s)}), entries[LastOf(entries, s)])
    BY <1>3, <2>1, ReplayStep
  <2>4. ASSUME ReplayOf(l, entries, s \ {LastOf(entries, s)}) \in P
        PROVE  ReplayOf(l, entries, s) \in P
    BY <2>2, <2>3, <2>4
  <2> QED BY <2>2, <2>4
<1> HIDE DEF G
<1>4. SUBSET A \subseteq G
  <2>1. IsFiniteSet(A)
    BY <1>1 DEF Numbered
  <2> HIDE DEF A
  <2> QED BY <1>2, <1>3, <2>1, SubsetInduction
<1>5. ReplayOf(l, entries, A) \in P
  BY <1>4 DEF G
<1> QED BY <1>5, ReplayedIs

\* The largest of a nonempty finite set of naturals.
LEMMA MaxOf ==
  ASSUME NEW S \in SUBSET Nat, IsFiniteSet(S), S # {}
  PROVE  Max(S) \in S /\ \A x \in S : x <= Max(S)
<1> DEFINE G == {s \in SUBSET S : s = {} \/ \E x \in s : \A y \in s : x >= y}
<1>1. ASSUME NEW s \in SUBSET S, s # {} PROVE \E x \in s : s \ {x} \in G => s \in G
  <2>1. PICK x \in s : TRUE
    BY <1>1
  <2>2. ASSUME s \ {x} \in G PROVE s \in G
    <3>1. CASE s \ {x} = {}
      BY <2>1, <3>1, \A y \in s : x >= y
    <3>2. CASE s \ {x} # {}
      <4>1. PICK z \in s \ {x} : \A y \in s \ {x} : z >= y
        BY <2>2, <3>2
      <4>2. x \in Nat /\ z \in Nat
        OBVIOUS
      <4>3. CASE x >= z
        <5>1. \A y \in s : x >= y
          BY <4>1, <4>2, <4>3
        <5> QED BY <5>1
      <4>4. CASE ~(x >= z)
        <5>1. \A y \in s : z >= y
          BY <4>1, <4>2, <4>4
        <5> QED BY <5>1
      <4> QED BY <4>3, <4>4
    <3> QED BY <3>1, <3>2
  <2> QED BY <2>1, <2>2
<1> HIDE DEF G
<1>2. SUBSET S \subseteq G
  <2>1. {} \in G
    BY DEF G
  <2> QED BY <1>1, <2>1, SubsetInduction
<1>3. \E x \in S : \A y \in S : x >= y
  BY <1>2 DEF G
<1>4. Max(S) \in S /\ \A y \in S : Max(S) >= y
  BY <1>3 DEF Max
<1> QED BY <1>4

\* No entry is above the sequence number with which a resumed activation goes
\* on, nor is the watermark.
LEMMA HighestIs ==
  ASSUME NEW entries \in Seq(Lines), NEW watermark \in Nat
  PROVE  /\ HighestSeq(entries, watermark) \in Nat
         /\ HighestSeq(entries, watermark) >= watermark
         /\ \A k \in DOMAIN entries : entries[k].seq <= HighestSeq(entries, watermark)
<1> DEFINE T == {entries[k].seq : k \in DOMAIN entries}
<1>1. \A k \in DOMAIN entries : entries[k].seq \in Nat
  <2>1. \A k \in DOMAIN entries : entries[k] \in Lines
    OBVIOUS
  <2> QED BY <2>1 DEF Lines, Entries, TornLine
<1>2. IsFiniteSet(T)
  <2>1. IsFiniteSet(DOMAIN entries)
    <3>1. DOMAIN entries = 1..Len(entries) /\ Len(entries) \in Nat
      OBVIOUS
    <3> QED BY <3>1, FS_Interval
  <2> DEFINE f == [k \in DOMAIN entries |-> entries[k].seq]
  <2>2. f \in Surjection(DOMAIN entries, T)
    BY DEF Surjection
  <2> HIDE DEF f, T
  <2> QED BY <2>1, <2>2, FS_Surjection
<1>3. IsFiniteSet({watermark} \cup T)
  <2>1. {watermark} \cup T = T \cup {watermark}
    OBVIOUS
  <2> HIDE DEF T
  <2> QED BY <1>2, <2>1, FS_AddElement
<1>4. {watermark} \cup T \in SUBSET Nat
  BY <1>1
<1>5. /\ Max({watermark} \cup T) \in {watermark} \cup T
      /\ \A x \in {watermark} \cup T : x <= Max({watermark} \cup T)
  <2> HIDE DEF T
  <2> QED BY <1>3, <1>4, MaxOf
<1> QED BY <1>4, <1>5 DEF HighestSeq
=============================================================================
