---------------------------- MODULE DeliveryProofs ----------------------------
(***************************************************************************)
(* Proofs about Delivery, for snapshots of any length, in any order, and   *)
(* any components, producers, policies and stages: what hosted evidence    *)
(* says it deserves, and what a report says is warranted by its evidence.  *)
(***************************************************************************)
EXTENDS Delivery, FiniteSetTheorems, TLAPS

-----------------------------------------------------------------------------
(***************************************************************************)
(* The loops of normalize_ci and normalize_review.                         *)
(***************************************************************************)
Kind == IF side = "ci" THEN CheckRun ELSE Review
Ids  == 1..MaxChecks \cup 1..MaxReviews

HasPartial == \E i \in DOMAIN records : records[i] = Partial
Elsewhere  == \E r \in Taken : r.head # "same"
Intact     == snapshot.whole /\ snapshot.missing = "nothing"

\* Records that had all their fields and an identifier of their own.
Clean == "HE008" \notin reasons /\ ~HasPartial

LoopType ==
    /\ side \in {"ci", "review"}
    /\ records \in Seq(Kind \cup {Partial})
    /\ snapshot.approvals \in Int

SeenInv ==
    /\ seen = {r.id : r \in Taken}
    /\ seen \subseteq Ids
    /\ Clean => /\ Cardinality(seen) = Len(records)
                /\ \A q, r \in Taken : q.id = r.id => q = r
    /\ ~Clean => Cardinality(seen) < Len(records)

ReasonsInv ==
    /\ reasons \subseteq {"HE001", "HE002", "HE003", "HE008", "HE010"}
    /\ "HE001" \in reasons <=> ~Intact \/ HasPartial
    /\ "HE002" \in reasons <=> snapshot.head # "same" \/ (side = "ci" /\ Elsewhere)
    /\ "HE003" \in reasons <=> snapshot.policy # "same"
    /\ "HE010" \in reasons <=> side = "review" /\ Elsewhere

\* What a record is about, if it counts.
Counts(r) == IF side = "ci" THEN r.pair \in Required ELSE Substantive(r)
Key(r)    == IF side = "ci" THEN r.pair ELSE Fold(r.author)

NewestInv ==
    /\ IsFiniteSet(DOMAIN newest)
    /\ DOMAIN newest = {Key(r) : r \in {q \in Taken : Counts(q)}}
    /\ \A k \in DOMAIN newest :
          /\ newest[k] \in Taken /\ Counts(newest[k]) /\ Key(newest[k]) = k
          /\ \A q \in Taken : Counts(q) /\ Key(q) = k => q.id <= newest[k].id

LoopInv == LoopType /\ SeenInv /\ ReasonsInv /\ NewestInv

-----------------------------------------------------------------------------
LEMMA KindFacts ==
    ASSUME LoopType, NEW r \in Kind
    PROVE  r # Partial /\ r.id \in Ids /\ r.id \in Int
<1>1. CASE r \in CheckRun
  BY <1>1, HostedAssumption DEF CheckRun, Partial, Ids
<1>2. CASE r \in Review
  BY <1>2, HostedAssumption DEF Review, Partial, Ids
<1> QED BY <1>1, <1>2 DEF Kind

LEMMA TakenFacts ==
    ASSUME LoopType
    PROVE  Taken \subseteq Kind
  BY DEF LoopType, Taken

LEMMA AppendedFacts ==
    ASSUME LoopType, NEW r \in Kind \cup {Partial}, records' = Append(records, r)
    PROVE  /\ Len(records) \in Nat /\ Len(records') = Len(records) + 1
           /\ records' \in Seq(Kind \cup {Partial})
           /\ Taken' = Taken \cup ({r} \ {Partial})
           /\ HasPartial' <=> HasPartial \/ r = Partial
<1>1. DOMAIN records = 1..Len(records) /\ Len(records) \in Nat BY DEF LoopType
<1>2. DOMAIN records' = 1..(Len(records) + 1) /\ Len(records') = Len(records) + 1
      /\ records' \in Seq(Kind \cup {Partial})
  BY DEF LoopType
<1>3. records'[Len(records) + 1] = r /\ \A i \in 1..Len(records) : records'[i] = records[i]
  BY DEF LoopType
<1>4. {records'[i] : i \in DOMAIN records'} = {records[i] : i \in DOMAIN records} \cup {r}
  BY <1>1, <1>2, <1>3
<1>5. Taken' = Taken \cup ({r} \ {Partial})
  BY <1>4 DEF Taken
<1>6. HasPartial' <=> HasPartial \/ r = Partial
  BY <1>1, <1>2, <1>3 DEF HasPartial
<1> QED BY <1>1, <1>2, <1>5, <1>6

LEMMA SeenIsFinite ==
    ASSUME SeenInv
    PROVE  IsFiniteSet(seen) /\ Cardinality(seen) \in Nat
<1>1. IsFiniteSet(Ids)
  <2>1. IsFiniteSet(1..MaxChecks) BY HostedAssumption, FS_Interval
  <2>2. IsFiniteSet(1..MaxReviews) BY HostedAssumption, FS_Interval
  <2> QED BY <2>1, <2>2, FS_Union DEF Ids
<1> QED BY <1>1, FS_Subset, FS_CardinalityType DEF SeenInv

\* One more record r, with all its fields.
Add(r) ==
    /\ records' = Append(records, r)
    /\ reasons' = reasons \cup (IF r.head = "same" THEN {}
                               ELSE {IF side = "ci" THEN "HE002" ELSE "HE010"})
                          \cup (IF Repeated(r) THEN {"HE008"} ELSE {})
    /\ seen' = seen \cup {r.id}
    /\ IF Counts(r) THEN Supersede(Key(r), r) ELSE UNCHANGED newest
    /\ UNCHANGED <<side, snapshot>>

LEMMA AddSeen == ASSUME LoopInv, NEW r \in Kind, Add(r) PROVE SeenInv'
<1> USE DEF LoopInv
<1>1. r # Partial /\ r.id \in Ids BY KindFacts
<1>2. /\ Len(records) \in Nat /\ Len(records') = Len(records) + 1
      /\ Taken' = Taken \cup {r} /\ (HasPartial' <=> HasPartial)
  BY <1>1, AppendedFacts DEF Add
<1>3. IsFiniteSet(seen) /\ Cardinality(seen) \in Nat BY SeenIsFinite
<1>4. seen' = {q.id : q \in Taken'} /\ seen' \subseteq Ids
  BY <1>1, <1>2 DEF SeenInv, Add
<1>5. CASE Repeated(r)
  <2>1. seen' = seen BY <1>5 DEF Add, Repeated
  <2>2. "HE008" \in reasons' BY <1>5 DEF Add
  <2>3. Cardinality(seen) <= Len(records) BY <1>2, <1>3 DEF SeenInv
  <2>4. ~Clean' BY <2>2 DEF Clean
  <2>5. Cardinality(seen') < Len(records') BY <1>2, <1>3, <2>1, <2>3
  <2> QED BY <1>4, <2>4, <2>5 DEF SeenInv
<1>6. CASE ~Repeated(r)
  <2>1. Cardinality(seen') = Cardinality(seen) + 1
    BY <1>3, <1>6, FS_AddElement DEF Add, Repeated
  <2>2. Clean' <=> Clean
    BY <1>2, <1>6 DEF Clean, Add
  <2>3. \A q \in Taken : q.id # r.id BY <1>6 DEF SeenInv, Repeated
  <2>4. Clean => \A p, q \in Taken' : p.id = q.id => p = q
    BY <1>2, <2>3 DEF SeenInv
  <2>5. Clean => Cardinality(seen') = Len(records')
    BY <1>2, <1>3, <2>1 DEF SeenInv
  <2>6. ~Clean => Cardinality(seen') < Len(records')
    BY <1>2, <1>3, <2>1 DEF SeenInv
  <2> QED BY <1>4, <2>2, <2>4, <2>5, <2>6 DEF SeenInv
<1> QED BY <1>5, <1>6

LEMMA AddReasons == ASSUME LoopInv, NEW r \in Kind, Add(r) PROVE ReasonsInv'
<1> USE DEF LoopInv
<1>1. r # Partial BY KindFacts
<1>2. Taken' = Taken \cup {r} /\ (HasPartial' <=> HasPartial)
  BY <1>1, AppendedFacts DEF Add
<1>3. UNCHANGED <<side, snapshot>> BY DEF Add
<1>4. Elsewhere' <=> Elsewhere \/ r.head # "same"
  BY <1>2 DEF Elsewhere
<1>5. Intact' <=> Intact BY <1>3 DEF Intact
<1>6. reasons' \subseteq {"HE001", "HE002", "HE003", "HE008", "HE010"}
  BY DEF Add, ReasonsInv
<1>7. /\ "HE001" \in reasons' <=> "HE001" \in reasons
      /\ "HE003" \in reasons' <=> "HE003" \in reasons
      /\ "HE002" \in reasons' <=> "HE002" \in reasons \/ (side = "ci" /\ r.head # "same")
      /\ "HE010" \in reasons' <=> "HE010" \in reasons \/ (side # "ci" /\ r.head # "same")
  BY DEF Add
<1> QED BY <1>2, <1>3, <1>4, <1>5, <1>6, <1>7 DEF ReasonsInv, LoopType

LEMMA AddNewest == ASSUME LoopInv, NEW r \in Kind, Add(r) PROVE NewestInv'
<1> USE DEF LoopInv
<1>1. r # Partial BY KindFacts
<1>2. Taken' = Taken \cup {r} BY <1>1, AppendedFacts DEF Add
<1>3. UNCHANGED <<side, snapshot>> BY DEF Add
<1>4. \A q : (Counts(q)' <=> Counts(q)) /\ Key(q)' = Key(q)
  BY <1>3 DEF Counts, Key, Substantive, ByAuthor
<1>5. \A q \in Taken \cup {r} : q.id \in Int
  BY TakenFacts, KindFacts
<1>6. CASE ~Counts(r)
  BY <1>2, <1>4, <1>6 DEF Add, NewestInv
<1>7. CASE Counts(r)
  <2> DEFINE k == Key(r)
  <2>1. Supersede(k, r) BY <1>7 DEF Add
  <2>2. CASE Later(k, r)
    <3>1. newest' = [j \in DOMAIN newest \cup {k} |-> IF j = k THEN r ELSE newest[j]]
      BY <2>1, <2>2 DEF Supersede
    <3>2. DOMAIN newest' = {Key(q) : q \in {p \in Taken' : Counts(p)}}
      BY <1>2, <1>7, <3>1 DEF NewestInv
    <3>3. ASSUME NEW q \in Taken', Counts(q), Key(q) = k PROVE q.id <= r.id
      <4>1. CASE q = r BY <1>5, <4>1
      <4>2. CASE q \in Taken
        <5>1. k \in DOMAIN newest /\ q.id <= newest[k].id /\ newest[k] \in Taken
          BY <3>3, <4>2 DEF NewestInv
        <5>2. newest[k].id < r.id BY <2>2, <5>1 DEF Later
        <5> QED BY <1>5, <4>2, <5>1, <5>2
      <4> QED BY <1>2, <4>1, <4>2
    <3>4. ASSUME NEW j \in DOMAIN newest'
          PROVE  /\ newest'[j] \in Taken' /\ Counts(newest'[j]) /\ Key(newest'[j]) = j
                 /\ \A q \in Taken' : Counts(q) /\ Key(q) = j => q.id <= newest'[j].id
      <4>1. CASE j = k BY <1>2, <1>7, <3>1, <3>3, <4>1
      <4>2. CASE j # k
        <5>1. j \in DOMAIN newest /\ newest'[j] = newest[j] BY <3>1, <4>2
        <5> QED BY <1>2, <4>2, <5>1 DEF NewestInv
      <4> QED BY <4>1, <4>2
    <3>5. IsFiniteSet(DOMAIN newest')
      BY <3>1, FS_AddElement DEF NewestInv
    <3> QED BY <1>4, <3>2, <3>4, <3>5 DEF NewestInv
  <2>3. CASE ~Later(k, r)
    <3>1. newest' = newest /\ k \in DOMAIN newest /\ ~(newest[k].id < r.id)
      BY <2>1, <2>3 DEF Supersede, Later
    <3>2. newest[k] \in Taken BY <3>1 DEF NewestInv
    <3>3. r.id <= newest[k].id BY <1>5, <3>1, <3>2
    <3>4. DOMAIN newest' = {Key(q) : q \in {p \in Taken' : Counts(p)}}
      BY <1>2, <1>7, <3>1 DEF NewestInv
    <3>5. ASSUME NEW j \in DOMAIN newest
          PROVE  /\ newest[j] \in Taken' /\ Counts(newest[j]) /\ Key(newest[j]) = j
                 /\ \A q \in Taken' : Counts(q) /\ Key(q) = j => q.id <= newest[j].id
      BY <1>2, <3>3 DEF NewestInv
    <3> QED BY <1>4, <3>1, <3>4, <3>5 DEF NewestInv
  <2> QED BY <2>2, <2>3
<1> QED BY <1>6, <1>7

LEMMA AddInductive == ASSUME LoopInv, NEW r \in Kind, Add(r) PROVE LoopInv'
<1>1. LoopType'
  <2>1. records' \in Seq(Kind \cup {Partial}) BY AppendedFacts DEF LoopInv, Add
  <2> QED BY <2>1 DEF LoopInv, LoopType, Add, Kind
<1> QED BY <1>1, AddSeen, AddReasons, AddNewest DEF LoopInv

-----------------------------------------------------------------------------
\* Before the normalizer has begun.
HostedEmpty == side \in {"ci", "review"} /\ records = <<>> /\ newest = <<>> /\ seen = {}

LEMMA LoopBegins == HostedEmpty /\ Begin => LoopInv'
<1> SUFFICES ASSUME HostedEmpty, Begin PROVE LoopInv'
  OBVIOUS
<1> USE DEF HostedEmpty
<1>1. PICK s \in Snapshot :
        /\ snapshot' = s
        /\ reasons' = (IF s.whole /\ s.missing = "nothing" THEN {} ELSE {"HE001"})
                         \cup (IF s.head = "same" THEN {} ELSE {"HE002"})
                         \cup (IF s.policy = "same" THEN {} ELSE {"HE003"})
  BY DEF Begin
<1>2. UNCHANGED <<side, records, newest, seen>> BY DEF Begin
<1>3. Taken' = {} /\ ~HasPartial' /\ ~Elsewhere' /\ Len(records') = 0
  BY <1>2 DEF Taken, HasPartial, Elsewhere
<1>4. LoopType'
  <2>1. s.approvals \in Int BY DEF Snapshot, Base, Fields
  <2> QED BY <1>1, <1>2, <2>1 DEF LoopType
<1>5. SeenInv'
  BY <1>1, <1>2, <1>3, FS_EmptySet DEF SeenInv, Clean
<1>6. ReasonsInv'
  BY <1>1, <1>3 DEF ReasonsInv, Intact
<1>7. NewestInv'
  BY <1>2, <1>3, FS_EmptySet DEF NewestInv
<1> QED BY <1>4, <1>5, <1>6, <1>7 DEF LoopInv

LEMMA LoopPartial == ASSUME LoopInv, TakePartial PROVE LoopInv'
<1> USE DEF LoopInv, TakePartial
<1>1. /\ Len(records) \in Nat /\ Len(records') = Len(records) + 1
      /\ records' \in Seq(Kind \cup {Partial})
      /\ Taken' = Taken /\ HasPartial'
  BY AppendedFacts
<1>2. UNCHANGED <<side, snapshot, newest, seen>> OBVIOUS
<1>3. IsFiniteSet(seen) /\ Cardinality(seen) \in Nat BY SeenIsFinite
<1>4. LoopType' BY <1>1, <1>2 DEF LoopType, Kind
<1>5. SeenInv'
  <2>1. Cardinality(seen) < Len(records') BY <1>1, <1>3 DEF SeenInv
  <2> QED BY <1>1, <1>2, <2>1 DEF SeenInv, Clean
<1>6. ReasonsInv'
  <2>1. (Elsewhere' <=> Elsewhere) /\ (Intact' <=> Intact) BY <1>1, <1>2 DEF Elsewhere, Intact
  <2> QED BY <1>1, <1>2, <2>1 DEF ReasonsInv
<1>7. NewestInv' BY <1>1, <1>2 DEF NewestInv, Counts, Key, Substantive, ByAuthor
<1> QED BY <1>4, <1>5, <1>6, <1>7

LEMMA LoopCheck == ASSUME LoopInv, NEW r \in CheckRun, TakeCheck(r) PROVE LoopInv'
<1>1. side = "ci" /\ r \in Kind BY DEF TakeCheck, Kind
<1>2. Add(r) BY <1>1 DEF Add, TakeCheck, Counts, Key
<1> QED BY <1>1, <1>2, AddInductive

LEMMA LoopReview == ASSUME LoopInv, NEW r \in Review, TakeReview(r) PROVE LoopInv'
<1>1. side = "review" /\ r \in Kind BY DEF TakeReview, Kind
<1>2. Add(r) BY <1>1 DEF Add, TakeReview, Counts, Key
<1> QED BY <1>1, <1>2, AddInductive

-----------------------------------------------------------------------------
(***************************************************************************)
(* The conclusion.  A snapshot is trustworthy exactly if the loop found no *)
(* reason against it, and then the newest record of a key is the last one. *)
(***************************************************************************)
LEMMA TrustIsNoReason == ASSUME LoopInv PROVE Trustworthy <=> reasons = {}
<1> USE DEF LoopInv
<1>1. seen = {r.id : r \in Taken} BY DEF SeenInv
<1>2. IsFiniteSet(seen) /\ Cardinality(seen) \in Nat /\ Len(records) \in Nat
  BY SeenIsFinite DEF LoopType
<1>3. Cardinality({r.id : r \in Taken}) = Len(records) <=> Clean
  BY <1>1, <1>2 DEF SeenInv
<1>4. reasons = {} <=> /\ Intact /\ ~HasPartial /\ "HE008" \notin reasons
                       /\ snapshot.head = "same" /\ snapshot.policy = "same" /\ ~Elsewhere
  BY DEF ReasonsInv, LoopType
<1> QED BY <1>3, <1>4 DEF Trustworthy, Clean, Intact, Elsewhere

LEMMA NewestIsLast ==
    ASSUME LoopInv, Trustworthy, NEW k, NEW state,
           side = "ci" => k \in Required,
           side = "review" => k # Author /\ state # "COMMENTED"
    PROVE  (k \in DOMAIN newest /\ newest[k].state = state)
              <=> IF side = "ci" THEN LastRun(k, state) ELSE LastWord(k, state)
<1> USE DEF LoopInv
<1>1. Clean /\ snapshot.missing = "nothing" /\ \A r \in Taken : r.head = "same"
  BY TrustIsNoReason DEF ReasonsInv, Clean, Trustworthy
<1>2. \A q, r \in Taken : q.id = r.id => q = r BY <1>1 DEF SeenInv
<1>3. \A q \in Taken : q.id \in Int BY TakenFacts, KindFacts
<1> DEFINE Is(q) == q \in Taken /\ Counts(q) /\ Key(q) = k
           Top(q) == Is(q) /\ \A p : Is(p) => p.id <= q.id
<1>4. (k \in DOMAIN newest /\ newest[k].state = state)
        <=> \E r : Top(r) /\ r.state = state
  <2>1. ASSUME k \in DOMAIN newest PROVE Top(newest[k])
    BY <2>1 DEF NewestInv
  <2>2. ASSUME NEW r, Top(r) PROVE k \in DOMAIN newest /\ newest[k] = r
    <3>1. k \in DOMAIN newest BY <2>2 DEF NewestInv
    <3>2. Top(newest[k]) BY <2>1, <3>1
    <3>3. newest[k].id <= r.id /\ r.id <= newest[k].id BY <2>2, <3>2
    <3>4. newest[k].id = r.id BY <1>3, <2>2, <3>2, <3>3
    <3> QED BY <1>2, <2>2, <3>1, <3>2, <3>4
  <2> HIDE DEF Top
  <2> QED BY <2>1, <2>2
<1>5. CASE side = "ci"
  <2>1. \A q : Is(q) <=> q \in Taken /\ q.pair = k
    BY <1>5 DEF Counts, Key
  <2> HIDE DEF Is
  <2>2. (\E r : Top(r) /\ r.state = state) <=> LastRun(k, state)
    BY <2>1 DEF LastRun
  <2> QED BY <1>4, <1>5, <2>2
<1>6. CASE side = "review"
  <2>1. \A q : Is(q) <=> q \in Taken /\ Fold(q.author) = k /\ q.state # "COMMENTED"
    BY <1>1, <1>6 DEF Counts, Key, Substantive, ByAuthor
  <2> HIDE DEF Is
  <2>2. (\E r : Top(r) /\ r.state = state) <=> LastWord(k, state)
    BY <1>6, <2>1 DEF LastWord
  <2> QED BY <1>4, <1>6, <2>2
<1> QED BY <1>5, <1>6 DEF LoopType

LEMMA CheckReasonFacts ==
    ASSUME LoopInv, side = "ci", NEW p \in Required
    PROVE  /\ CheckReason(p) \subseteq {"HE004", "HE005", "HE006", "HE007"}
           /\ CheckReason(p) = {} <=> p \in DOMAIN newest /\ newest[p].state = "success"
           /\ "HE006" \in CheckReason(p)
                 <=> p \in DOMAIN newest /\ newest[p].state = "failed"
<1>1. CASE p \notin DOMAIN newest
  BY <1>1 DEF CheckReason
<1>2. CASE p \in DOMAIN newest
  <2>1. newest[p] \in CheckRun
    BY <1>2, TakenFacts DEF LoopInv, NewestInv, Kind
  <2>2. newest[p].state \in CheckState
    BY <2>1 DEF CheckRun, CheckState
  <2> QED BY <1>2, <2>2 DEF CheckReason, CheckState
<1> QED BY <1>1, <1>2

LEMMA DecisionFacts ==
    ASSUME NEW why
    PROVE  /\ DecisionFor(why) = "PASS" <=> why = {}
           /\ DecisionFor(why) = "FAIL"
                 <=> why \cap {"HE002", "HE003", "HE006", "HE013"} # {}
           /\ DecisionFor(why) \in Decision
  BY DEF DecisionFor, Decision

LEMMA ConcludesChecks ==
    ASSUME LoopInv, side = "ci", Conclude
    PROVE  /\ verdict'.decision = "PASS" <=> Deserved
           /\ verdict'.decision = "FAIL" /\ Trustworthy
                 => \E p \in Required : LastRun(p, "failed")
<1>1. reasons' = reasons \cup UNION {CheckReason(p) : p \in Required}
      /\ verdict'.decision = DecisionFor(reasons')
  BY DEF Conclude
<1>2. reasons' = {} <=> reasons = {} /\ \A p \in Required : CheckReason(p) = {}
  BY <1>1
<1>3. ASSUME Trustworthy, NEW p \in Required
      PROVE  /\ CheckReason(p) = {} <=> LastRun(p, "success")
             /\ "HE006" \in CheckReason(p) <=> LastRun(p, "failed")
  BY <1>3, CheckReasonFacts, NewestIsLast
<1>4. verdict'.decision = "PASS" <=> Deserved
  BY <1>1, <1>2, <1>3, TrustIsNoReason, DecisionFacts DEF Deserved
<1>5. ASSUME verdict'.decision = "FAIL", Trustworthy
      PROVE  \E p \in Required : LastRun(p, "failed")
  <2>1. reasons = {} BY <1>5, TrustIsNoReason
  <2>2. PICK p \in Required : CheckReason(p) \cap {"HE002", "HE003", "HE006", "HE013"} # {}
    BY <1>1, <1>5, <2>1, DecisionFacts
  <2>3. "HE006" \in CheckReason(p) BY <2>2, CheckReasonFacts
  <2> QED BY <1>3, <1>5, <2>3
<1> QED BY <1>4, <1>5

LEMMA ConcludesReviews ==
    ASSUME LoopInv, side = "review", Conclude
    PROVE  /\ verdict'.decision = "PASS" <=> Deserved
           /\ verdict'.decision = "FAIL" /\ Trustworthy
                 => \/ snapshot.github = "CHANGES_REQUESTED"
                    \/ \E p \in Reviewer : LastWord(p, "CHANGES_REQUESTED")
<1>1. reasons' = reasons \cup ReviewReasons /\ verdict'.decision = DecisionFor(reasons')
  BY DEF Conclude
<1>2. ASSUME Trustworthy PROVE DOMAIN newest \subseteq Reviewer
  <2> SUFFICES ASSUME NEW k \in DOMAIN newest PROVE k \in Reviewer
    OBVIOUS
  <2>1. newest[k] \in Review /\ Substantive(newest[k]) /\ Fold(newest[k].author) = k
    BY TakenFacts DEF LoopInv, NewestInv, Kind, Counts, Key
  <2>2. newest[k].author \in Login BY <2>1 DEF Review
  <2>3. k # Author BY <1>2, <2>1 DEF Substantive, ByAuthor, Trustworthy
  <2> QED BY <2>1, <2>2, <2>3 DEF Reviewer
<1>3. ASSUME Trustworthy, NEW p \in Reviewer, NEW state \in {"APPROVED", "CHANGES_REQUESTED"}
      PROVE  p \in DOMAIN newest /\ newest[p].state = state <=> LastWord(p, state)
  BY <1>3, NewestIsLast DEF Reviewer
<1>4. ASSUME Trustworthy
      PROVE  /\ (\E k \in DOMAIN newest : newest[k].state = "CHANGES_REQUESTED")
                   <=> \E p \in Reviewer : LastWord(p, "CHANGES_REQUESTED")
             /\ Approvals = Cardinality({p \in Reviewer : LastWord(p, "APPROVED")})
             /\ Github = snapshot.github /\ snapshot.missing = "nothing"
  <2>1. (\E k \in DOMAIN newest : newest[k].state = "CHANGES_REQUESTED")
          <=> \E p \in Reviewer : LastWord(p, "CHANGES_REQUESTED")
    BY <1>2, <1>3, <1>4
  <2>2. {k \in DOMAIN newest : newest[k].state = "APPROVED"}
          = {p \in Reviewer : LastWord(p, "APPROVED")}
    BY <1>2, <1>3, <1>4
  <2> QED BY <1>4, <2>1, <2>2 DEF Approvals, Github, Trustworthy
<1>5. Approvals \in Nat
  <2>1. IsFiniteSet(DOMAIN newest) BY DEF LoopInv, NewestInv
  <2> QED BY <2>1, FS_Subset, FS_CardinalityType DEF Approvals
<1>6. snapshot.approvals \in Int BY DEF LoopInv, LoopType
<1>7. ASSUME Trustworthy PROVE ReviewReasons = {} <=> ReviewersAgree
  BY <1>4, <1>5, <1>6, <1>7, SMTT(40) DEF ReviewReasons, ReviewersAgree
<1>8. verdict'.decision = "PASS" <=> Deserved
  BY <1>1, <1>7, TrustIsNoReason, DecisionFacts DEF Deserved
<1>9. ASSUME verdict'.decision = "FAIL", Trustworthy
      PROVE  \/ snapshot.github = "CHANGES_REQUESTED"
             \/ \E p \in Reviewer : LastWord(p, "CHANGES_REQUESTED")
  <2>1. reasons = {} BY <1>9, TrustIsNoReason
  <2>2. "HE013" \in ReviewReasons
    BY <1>1, <1>9, <2>1, DecisionFacts DEF ReviewReasons
  <2> QED BY <1>4, <1>9, <2>2 DEF ReviewReasons
<1> QED BY <1>8, <1>9

-----------------------------------------------------------------------------
(***************************************************************************)
(* The normalizer within a delivery.                                       *)
(***************************************************************************)
Before == {"begin", "loop", "judged"}
After  == {"supply", "composed", "refused", "saved", "verified"}

HostedInv ==
    /\ pc \in Before \cup After \cup {"rejected"}
    /\ side \in {"ci", "review"} /\ complete \in BOOLEAN
    /\ pc = "begin" => HostedEmpty
    /\ pc = "loop" => LoopInv
    /\ pc = "judged" => verdict.decision \in Decision /\ verdict.complete \in BOOLEAN
    /\ HostedPassIsDeserved /\ HostedFailIsDeserved

LEMMA HostedInitial == Init => HostedInv
  BY DEF Init, HostedInit, HostedInv, HostedEmpty, HostedPassIsDeserved,
         HostedFailIsDeserved, Before

LEMMA HostedConcludes == HostedInv /\ Conclude => HostedInv'
<1> SUFFICES ASSUME HostedInv, Conclude PROVE HostedInv'
  OBVIOUS
<1>1. LoopInv /\ side \in {"ci", "review"} /\ complete \in BOOLEAN
  BY DEF HostedInv, Conclude
<1>2. pc' = "judged" /\ UNCHANGED <<side, snapshot, records, complete>>
      /\ verdict'.complete = complete /\ verdict'.decision = DecisionFor(reasons')
  BY DEF Conclude
<1>3. (Deserved' <=> Deserved) /\ (Trustworthy' <=> Trustworthy)
      /\ \A p, t : (LastRun(p, t)' <=> LastRun(p, t)) /\ (LastWord(p, t)' <=> LastWord(p, t))
  BY <1>2 DEF Deserved, Trustworthy, Taken, LastRun, LastWord, ReviewersAgree
<1>4. verdict'.decision = "PASS" <=> Deserved
  BY <1>1, ConcludesChecks, ConcludesReviews
<1>5. HostedPassIsDeserved' BY <1>3, <1>4 DEF HostedPassIsDeserved
<1>6. HostedFailIsDeserved'
  <2>1. CASE side = "ci"
    BY <1>1, <1>2, <1>3, <2>1, ConcludesChecks DEF HostedFailIsDeserved
  <2>2. CASE side = "review"
    BY <1>1, <1>2, <1>3, <2>2, ConcludesReviews DEF HostedFailIsDeserved
  <2> QED BY <1>1, <2>1, <2>2
<1>7. verdict'.decision \in Decision /\ verdict'.complete \in BOOLEAN
  BY <1>1, <1>2, DecisionFacts
<1> QED BY <1>1, <1>2, <1>5, <1>6, <1>7 DEF HostedInv, Before

LEMMA HostedMoves ==
    ASSUME HostedInv, \/ Begin \/ Malformed \/ TakePartial
                      \/ (\E r \in CheckRun : TakeCheck(r)) \/ \E r \in Review : TakeReview(r)
    PROVE  HostedInv'
<1>1. side' = side /\ side \in {"ci", "review"}
  BY DEF HostedInv, Begin, Malformed, TakePartial, TakeCheck, TakeReview
<1>2. complete' \in BOOLEAN
  BY DEF HostedInv, Begin, Malformed, Forget, TakePartial, TakeCheck, TakeReview
<1>3. CASE Malformed
  BY <1>1, <1>2, <1>3 DEF HostedInv, Malformed, HostedPassIsDeserved, HostedFailIsDeserved
<1>4. CASE ~Malformed
  <2>1. pc' = "loop"
    BY <1>4 DEF Begin, TakePartial, TakeCheck, TakeReview
  <2>2. LoopInv'
    BY <1>4, LoopBegins, LoopPartial, LoopCheck, LoopReview
       DEF HostedInv, Begin, TakePartial, TakeCheck, TakeReview
  <2> QED BY <1>1, <1>2, <2>1, <2>2
          DEF HostedInv, Before, HostedPassIsDeserved, HostedFailIsDeserved
<1> QED BY <1>3, <1>4

LEMMA HostedStutters == HostedInv /\ UNCHANGED <<pc, hostedVars>> => HostedInv'
<1> SUFFICES ASSUME HostedInv, UNCHANGED <<pc, hostedVars>> PROVE HostedInv'
  OBVIOUS
<1> USE DEF hostedVars
<1>1. LoopInv => LoopInv'
  BY DEF LoopInv, LoopType, SeenInv, ReasonsInv, NewestInv, Kind, Taken, HasPartial,
         Elsewhere, Intact, Clean, Counts, Key, Substantive, ByAuthor
<1>2. HostedPassIsDeserved' /\ HostedFailIsDeserved'
  BY DEF HostedInv, HostedPassIsDeserved, HostedFailIsDeserved, Deserved, Trustworthy,
         Taken, LastRun, LastWord, ReviewersAgree
<1> QED BY <1>1, <1>2 DEF HostedInv, HostedEmpty

LEMMA HostedInductive == HostedInv /\ [Next]_vars => HostedInv'
<1> SUFFICES ASSUME HostedInv, [Next]_vars PROVE HostedInv'
  OBVIOUS
<1>1. CASE Normalize
  BY <1>1, HostedConcludes, HostedMoves DEF Normalize, HostedNext
<1>2. CASE Over \/ UNCHANGED vars
  BY <1>2, HostedStutters DEF Over, vars
<1>3. CASE Submit
  BY <1>3 DEF Submit, Forget, HostedInv, After, HostedPassIsDeserved, HostedFailIsDeserved
<1>4. CASE (\E c \in Component : Supply(c)) \/ ComposeReport \/ Save \/ Verify
  <2>1. pc' \in After /\ UNCHANGED hostedVars
    BY <1>4 DEF Supply, ComposeReport, Save, Verify, After
  <2> QED BY <2>1 DEF HostedInv, hostedVars, Before, After, HostedPassIsDeserved,
                      HostedFailIsDeserved
<1> QED BY <1>1, <1>2, <1>3, <1>4 DEF Next

LEMMA HostedInvariance == Spec => []HostedInv
  BY HostedInitial, HostedInductive, PTL DEF Spec

(***************************************************************************)
(* normalize_ci and normalize_review (hosted_evidence.py): a snapshot of   *)
(* any length in any order passes exactly if its newest records say so.    *)
(***************************************************************************)
THEOREM PassesAreDeserved == Spec => []HostedPassIsDeserved
<1>1. HostedInv => HostedPassIsDeserved BY DEF HostedInv
<1> QED BY <1>1, HostedInvariance, PTL

\* A trustworthy snapshot fails only for a last word or a newest run that does.
THEOREM FailuresAreDeserved == Spec => []HostedFailIsDeserved
<1>1. HostedInv => HostedFailIsDeserved BY DEF HostedInv
<1> QED BY <1>1, HostedInvariance, PTL

-----------------------------------------------------------------------------
(***************************************************************************)
(* The evidence supplied to compose_safe_delivery, and its report.         *)
(***************************************************************************)
AnyEvidence ==
    [component : Component \cup {"ci", "review"},
     tool      : Tool \cup {PinOf[c] : c \in Component \cup {"ci", "review"}},
     subject   : Subject \cup {Candidate},
     decision  : Decision, complete : BOOLEAN, valid : BOOLEAN]

SupplyInv ==
    pc \in After =>
        /\ supplied \in Seq(AnyEvidence) /\ Len(supplied) >= 1
        /\ supplied[1].component = side
        /\ supplied[1].decision = "PASS" => earned

ReportInv ==
    /\ pc = "composed" => report # Refused
    /\ report # Refused =>
        /\ pc \in {"composed", "saved", "verified"}
        /\ Collectable(supplied)
        /\ report = ReportOf(asked.subject, Records(supplied), asked.trusted,
                             asked.policy, asked.stage)

DeliveryInv == HostedInv /\ SupplyInv /\ ReportInv

LEMMA EvidenceFacts ==
    ASSUME NEW c \in Component \cup {"ci", "review"}, NEW d \in Decision,
           NEW whole \in BOOLEAN, NEW tool, NEW s,
           tool \in Tool \/ tool = PinOf[c], s \in Subject \/ s = Candidate
    PROVE  /\ Evidence(c, tool, s, d, whole) \in AnyEvidence
           /\ \A v \in BOOLEAN :
                 [Evidence(c, tool, s, d, whole) EXCEPT !.valid = v] \in AnyEvidence
           /\ Evidence(c, tool, s, d, whole).component = c
           /\ Evidence(c, tool, s, d, whole).decision = d
  BY DEF Evidence, AnyEvidence

LEMMA SupplyKept == DeliveryInv /\ Next => SupplyInv'
<1> SUFFICES ASSUME DeliveryInv, Next PROVE SupplyInv'
  OBVIOUS
<1>1. CASE Normalize
  <2>1. pc' \notin After
    BY <1>1 DEF Normalize, HostedNext, Begin, Malformed, TakePartial, TakeCheck,
                TakeReview, Conclude, After
  <2> QED BY <2>1 DEF SupplyInv
<1>2. CASE Submit
  <2>1. verdict.decision \in Decision /\ verdict.complete \in BOOLEAN
        /\ side \in {"ci", "review"} /\ HostedPassIsDeserved /\ pc = "judged"
    BY <1>2 DEF DeliveryInv, HostedInv, Submit
  <2> DEFINE e == Evidence(side, PinOf[side], Candidate, verdict.decision, verdict.complete)
  <2>2. e \in AnyEvidence /\ e.component = side /\ e.decision = verdict.decision
    BY <2>1, EvidenceFacts
  <2>3. supplied' = <<e>> /\ side' = side
    BY <1>2 DEF Submit
  <2>4. supplied' \in Seq(AnyEvidence) /\ Len(supplied') = 1 /\ supplied'[1] = e
    <3> HIDE DEF e
    <3> QED BY <2>2, <2>3
  <2>5. e.decision = "PASS" => earned'
    BY <1>2, <2>1, <2>2 DEF Submit, HostedPassIsDeserved
  <2> HIDE DEF e
  <2> QED BY <2>2, <2>3, <2>4, <2>5 DEF SupplyInv
<1>3. ASSUME NEW c \in Component, Supply(c) PROVE SupplyInv'
  <2>1. supplied \in Seq(AnyEvidence) /\ Len(supplied) >= 1
        /\ supplied[1].component = side /\ (supplied[1].decision = "PASS" => earned)
    BY <1>3 DEF DeliveryInv, SupplyInv, Supply, After
  <2>2. UNCHANGED <<side, earned>>
    BY <1>3 DEF Supply, hostedVars
  <2>3. PICK e \in AnyEvidence : supplied' = Append(supplied, e)
    <3>1. "PASS" \in Decision BY DEF Decision
    <3>2. PICK tool \in Tool, s \in Subject, d \in Decision, whole \in BOOLEAN :
             \/ supplied' = Append(supplied, Evidence(c, tool, s, d, whole))
             \/ supplied' = Append(supplied,
                   [Evidence(c, PinOf[c], Candidate, "PASS", TRUE)
                       EXCEPT !.valid = (c = side)])
      BY <1>3 DEF Supply
    <3>3. Evidence(c, tool, s, d, whole) \in AnyEvidence
      BY EvidenceFacts
    <3>4. [Evidence(c, PinOf[c], Candidate, "PASS", TRUE) EXCEPT !.valid = (c = side)]
             \in AnyEvidence
      BY <3>1, EvidenceFacts
    <3> QED BY <3>2, <3>3, <3>4
  <2>4. supplied' \in Seq(AnyEvidence) /\ Len(supplied') >= 1 /\ supplied'[1] = supplied[1]
    BY <2>1, <2>3
  <2> QED BY <2>1, <2>2, <2>4 DEF SupplyInv
<1>4. CASE ComposeReport \/ Save \/ Verify \/ Over
  <2>1. UNCHANGED <<supplied, earned, side>> /\ (pc' \in After => pc \in After)
    BY <1>4 DEF ComposeReport, Save, Verify, Over, vars, hostedVars, deliveryVars, After
  <2> QED BY <2>1 DEF DeliveryInv, SupplyInv
<1> QED BY <1>1, <1>2, <1>3, <1>4 DEF Next

LEMMA ReportKept == DeliveryInv /\ Next => ReportInv'
<1> SUFFICES ASSUME DeliveryInv, Next PROVE ReportInv'
  OBVIOUS
<1>1. CASE Normalize \/ Submit \/ \E c \in Component : Supply(c)
  <2>1. pc \notin {"composed", "saved", "verified"} /\ report' = report
        /\ pc' # "composed"
    BY <1>1 DEF Normalize, HostedNext, Begin, Malformed, TakePartial, TakeCheck,
                TakeReview, Conclude, Submit, Supply, deliveryVars
  <2> QED BY <2>1 DEF DeliveryInv, ReportInv
<1>2. CASE ComposeReport
  <2>1. report' # Refused <=> pc' = "composed"
    BY <1>2 DEF ComposeReport
  <2>2. supplied' = supplied
    BY <1>2 DEF ComposeReport
  <2>3. PICK stage \in Stage, policy \in Policy, unpinned \in SUBSET {"tests"} :
           LET trusted == [c \in Component \ unpinned |-> PinOf[c]] IN
           /\ asked' = [subject |-> Candidate, trusted |-> trusted,
                        policy |-> policy, stage |-> stage]
           /\ report' = Compose(Candidate, supplied, trusted, policy, stage)
    BY <1>2 DEF ComposeReport
  <2> DEFINE trusted == [c \in Component \ unpinned |-> PinOf[c]]
  <2>4. asked'.subject = Candidate /\ asked'.trusted = trusted
        /\ asked'.policy = policy /\ asked'.stage = stage
    BY <2>3
  <2>5. report' = Compose(Candidate, supplied, trusted, policy, stage)
    BY <2>3
  <2> HIDE DEF trusted
  <2>6. report' # Refused =>
          /\ Collectable(supplied)
          /\ report' = ReportOf(Candidate, Records(supplied), trusted, policy, stage)
    BY <2>5 DEF Compose
  <2>7. Collectable(supplied') <=> Collectable(supplied)
    BY <2>2
  <2>8. Records(supplied') = Records(supplied)
    BY <2>2
  <2> QED BY <2>1, <2>4, <2>6, <2>7, <2>8 DEF ReportInv
<1>3. CASE Save \/ Verify \/ Over
  <2>1. UNCHANGED <<supplied, asked, report>>
        /\ (pc' \in {"saved", "verified"} \/ UNCHANGED pc)
    BY <1>3 DEF Save, Verify, Over, vars, deliveryVars
  <2> QED BY <2>1 DEF DeliveryInv, ReportInv
<1> QED BY <1>1, <1>2, <1>3 DEF Next

LEMMA DeliveryInvariance == Spec => []DeliveryInv
<1>1. Init => DeliveryInv
  BY HostedInitial DEF Init, DeliveryInv, SupplyInv, ReportInv, After
<1>2. DeliveryInv /\ [Next]_vars => DeliveryInv'
  <2> SUFFICES ASSUME DeliveryInv, [Next]_vars PROVE DeliveryInv'
    OBVIOUS
  <2>1. HostedInv' BY HostedInductive DEF DeliveryInv
  <2>2. CASE UNCHANGED vars
    BY <2>1, <2>2 DEF DeliveryInv, SupplyInv, ReportInv, vars, hostedVars, deliveryVars
  <2>3. CASE Next
    BY <2>1, <2>3, SupplyKept, ReportKept DEF DeliveryInv
  <2> QED BY <2>2, <2>3
<1> QED BY <1>1, <1>2, PTL DEF Spec

-----------------------------------------------------------------------------
LEMMA OverallFacts ==
    ASSUME NEW decisions
    PROVE  /\ Overall(decisions) = "PASS"
                => decisions \cap {"FAIL", "UNKNOWN", "REVIEW_REQUIRED"} = {}
           /\ Overall(decisions) = "REVIEW_REQUIRED"
                => decisions \cap {"FAIL", "UNKNOWN"} = {}
  BY DEF Overall

LEMMA RecordFacts ==
    ASSUME SupplyInv, pc \in After, Collectable(supplied), NEW c \in Component
    PROVE  /\ c \in DOMAIN Records(supplied) <=> Supplied(c) # {}
           /\ c \in DOMAIN Records(supplied) =>
                 \E i \in DOMAIN supplied :
                    /\ Supplied(c) = {i}
                    /\ Records(supplied)[c] = supplied[i] /\ supplied[i] \in AnyEvidence
<1>1. c \in DOMAIN Records(supplied) <=> Supplied(c) # {}
  BY DEF Records, Supplied
<1>2. ASSUME c \in DOMAIN Records(supplied)
      PROVE  \E i \in DOMAIN supplied :
                /\ Supplied(c) = {i}
                /\ Records(supplied)[c] = supplied[i] /\ supplied[i] \in AnyEvidence
  <2>1. PICK i \in DOMAIN supplied : supplied[i].component = c
    BY <1>1, <1>2 DEF Supplied
  <2>2. \A j \in DOMAIN supplied : supplied[j].component = c => j = i
    BY <2>1 DEF Collectable
  <2>3. Supplied(c) = {i}
    BY <2>1, <2>2 DEF Supplied
  <2>4. (CHOOSE j \in DOMAIN supplied : supplied[j].component = c) = i
    BY <2>1, <2>2
  <2>5. Records(supplied)[c] = supplied[i]
    BY <1>2, <2>4 DEF Records
  <2>6. supplied[i] \in AnyEvidence
    BY <2>1 DEF SupplyInv
  <2> QED BY <2>1, <2>3, <2>5, <2>6
<1> QED BY <1>1, <1>2

\* What a decision of the composition about one component rests on.
LEMMA DecisionRests ==
    ASSUME DeliveryInv, report # Refused, NEW c \in Component,
           NEW d, d = DecisionOf(c, Records(supplied), asked.subject, asked.trusted,
                                 asked.stage)
    PROVE  /\ d \in Decision
           /\ d = "PASS" => /\ Cardinality(Supplied(c)) = 1
                            /\ Stands(c, "PASS") /\ Whole(c)
                            /\ \A i \in Supplied(c) : supplied[i].decision = "PASS"
           /\ d = "REVIEW_REQUIRED" =>
                 \/ Stands(c, "REVIEW_REQUIRED")
                 \/ /\ Supplied(c) = {}
                    /\ c \in {"ci", "review"} /\ asked.stage = "pr"
<1>1. SupplyInv /\ pc \in After /\ Collectable(supplied)
  BY DEF DeliveryInv, ReportInv, After
<1>2. CASE c \notin DOMAIN Records(supplied)
  <2>1. Supplied(c) = {} BY <1>1, <1>2, RecordFacts
  <2>2. d = MissingDecision(c, asked.stage) BY <1>2 DEF DecisionOf
  <2> QED BY <2>1, <2>2 DEF MissingDecision, Decision
<1>3. CASE c \in DOMAIN Records(supplied)
  <2>1. PICK i \in DOMAIN supplied :
           /\ Supplied(c) = {i}
           /\ Records(supplied)[c] = supplied[i] /\ supplied[i] \in AnyEvidence
    BY <1>1, <1>3, RecordFacts
  <2>2. d = Judged(c, supplied[i], asked.subject, asked.trusted)
    BY <1>3, <2>1 DEF DecisionOf
  <2>3. supplied[i].decision \in Decision /\ supplied[i].complete \in BOOLEAN
    BY <2>1 DEF AnyEvidence
  <2>4. d \in Decision
    BY <2>2, <2>3 DEF Judged, Decision
  <2>5. ASSUME d = "PASS" \/ d = "REVIEW_REQUIRED"
        PROVE  supplied[i].decision = d /\ Stands(c, d)
    <3>1. supplied[i].subject = asked.subject
          /\ ~Unpinned(c, supplied[i], asked.trusted) /\ supplied[i].decision = d
      BY <2>2, <2>5 DEF Judged
    <3> QED BY <2>1, <3>1 DEF Stands, Unpinned
  <2>6. d = "PASS" => supplied[i].complete
    BY <2>2, <2>3 DEF Judged
  <2>7. Cardinality(Supplied(c)) = 1
    BY <2>1, FS_Singleton
  <2> QED BY <2>1, <2>4, <2>5, <2>6, <2>7 DEF Whole
<1> QED BY <1>2, <1>3

LEMMA ReportDecides ==
    ASSUME DeliveryInv, report # Refused
    PROVE  report.payload.decision =
             Overall({DecisionOf(c, Records(supplied), asked.subject, asked.trusted,
                                 asked.stage) : c \in Component})
  BY DEF DeliveryInv, ReportInv, ReportOf

(***************************************************************************)
(* compose_safe_delivery: whatever is supplied in whatever order, PASS     *)
(* means that each component has one complete, passing, pinned piece of    *)
(* evidence about the subject, the hosted one earned from its snapshot.    *)
(***************************************************************************)
THEOREM PassesAreWarranted == Spec => []PassIsWarranted
<1>1. DeliveryInv => PassIsWarranted
  <2> SUFFICES ASSUME DeliveryInv, report # Refused, report.payload.decision = "PASS"
               PROVE  /\ earned
                      /\ \A c \in Component : Cardinality(Supplied(c)) = 1
                                              /\ Stands(c, "PASS") /\ Whole(c)
    BY DEF PassIsWarranted
  <2>1. \A c \in Component :
           DecisionOf(c, Records(supplied), asked.subject, asked.trusted, asked.stage)
              \notin {"FAIL", "UNKNOWN", "REVIEW_REQUIRED"}
    BY ReportDecides, OverallFacts
  <2>2. \A c \in Component :
           DecisionOf(c, Records(supplied), asked.subject, asked.trusted, asked.stage) = "PASS"
    BY <2>1, DecisionRests DEF Decision
  <2>3. \A c \in Component :
           /\ Cardinality(Supplied(c)) = 1 /\ Stands(c, "PASS") /\ Whole(c)
           /\ \A i \in Supplied(c) : supplied[i].decision = "PASS"
    BY <2>2, DecisionRests
  <2>4. 1 \in DOMAIN supplied /\ supplied[1].component = side
        /\ (supplied[1].decision = "PASS" => earned) /\ Collectable(supplied)
    BY DEF DeliveryInv, SupplyInv, ReportInv, After
  <2>5. side \in Component /\ 1 \in Supplied(side)
    BY <2>4 DEF Collectable, Supplied
  <2> QED BY <2>3, <2>4, <2>5
<1> QED BY <1>1, DeliveryInvariance, PTL

\* A report that only asks for review leaves nothing else to be done.
THEOREM ReviewIsTheRest == Spec => []ReviewIsAllThatIsLeft
<1>1. DeliveryInv => ReviewIsAllThatIsLeft
  <2> SUFFICES ASSUME DeliveryInv, report # Refused,
                      report.payload.decision = "REVIEW_REQUIRED", NEW c \in Component
               PROVE  \/ Stands(c, "REVIEW_REQUIRED")
                      \/ Stands(c, "PASS") /\ Whole(c)
                      \/ /\ Supplied(c) = {}
                         /\ c \in {"ci", "review"} /\ asked.stage = "pr"
    BY DEF ReviewIsAllThatIsLeft
  <2> DEFINE d == DecisionOf(c, Records(supplied), asked.subject, asked.trusted, asked.stage)
  <2>1. d \notin {"FAIL", "UNKNOWN"}
    BY ReportDecides, OverallFacts
  <2>2. d \in {"PASS", "REVIEW_REQUIRED"}
    BY <2>1, DecisionRests DEF Decision
  <2> QED BY <2>2, DecisionRests
<1> QED BY <1>1, DeliveryInvariance, PTL

-----------------------------------------------------------------------------
(***************************************************************************)
(* The saved report and what verification accepts.                         *)
(***************************************************************************)
SavedInv ==
    /\ pc \in {"saved", "verified"} =>
          report # Refused /\ saved.payload \in EditedPayloads(report.payload)
    /\ accepted \in BOOLEAN
    /\ accepted => pc = "verified" /\ Verified(saved)

LEMMA SavedInvariance == Spec => []SavedInv
<1>1. Init => SavedInv
  BY DEF Init, SavedInv
<1>2. HostedInv /\ ReportInv /\ SavedInv /\ [Next]_vars => SavedInv'
  <2> SUFFICES ASSUME HostedInv, ReportInv, SavedInv, [Next]_vars PROVE SavedInv'
    OBVIOUS
  <2>1. CASE Normalize \/ Submit \/ (\E c \in Component : Supply(c)) \/ ComposeReport
    <3>1. pc \notin {"saved", "verified"} /\ pc' \notin {"saved", "verified"}
          /\ accepted' = accepted
      BY <2>1 DEF Normalize, HostedNext, Begin, Malformed, TakePartial, TakeCheck,
                  TakeReview, Conclude, Submit, Supply, ComposeReport, deliveryVars
    <3> QED BY <3>1 DEF SavedInv
  <2>2. CASE Save
    <3>1. pc = "composed" /\ pc' = "saved" /\ report' = report /\ accepted' = accepted
      BY <2>2 DEF Save
    <3>2. saved'.payload \in EditedPayloads(report.payload)
      BY <2>2 DEF Save
    <3>3. report # Refused
      BY <3>1 DEF ReportInv, SavedInv, HostedInv
    <3> QED BY <3>1, <3>2, <3>3 DEF SavedInv
  <2>3. CASE Verify
    <3>1. pc = "saved" /\ pc' = "verified" /\ UNCHANGED <<report, saved>>
          /\ accepted' = Verified(saved)
      BY <2>3 DEF Verify
    <3>2. accepted' \in BOOLEAN /\ (accepted' => Verified(saved'))
      BY <3>1 DEF Verified
    <3>3. report' # Refused /\ saved'.payload \in EditedPayloads(report'.payload)
      BY <3>1 DEF SavedInv
    <3> QED BY <3>1, <3>2, <3>3 DEF SavedInv
  <2>4. CASE UNCHANGED vars
    BY <2>4 DEF SavedInv, vars, deliveryVars, Verified
  <2> QED BY <2>1, <2>2, <2>3, <2>4 DEF Next, Over
<1> QED BY <1>1, <1>2, DeliveryInvariance, PTL DEF Spec, DeliveryInv

-----------------------------------------------------------------------------
SectionOf(c) ==
    IF c \in DOMAIN Records(supplied)
    THEN [producer |-> Records(supplied)[c],
          decision |-> Judged(c, Records(supplied)[c], asked.subject, asked.trusted)]
    ELSE NoEvidence

LEMMA ReportParts ==
    ASSUME DeliveryInv, report # Refused
    PROVE  \E dec, fin :
              report.payload = [schema |-> Schema, stage |-> asked.stage, decision |-> dec,
                                sections |-> [c \in Component |-> SectionOf(c)],
                                policy |-> asked.policy, subject |-> asked.subject,
                                trusted |-> asked.trusted, findings |-> fin]
  BY DEF DeliveryInv, ReportInv, ReportOf, Section, SectionOf

LEMMA SectionFacts ==
    ASSUME DeliveryInv, report # Refused, NEW c \in Component
    PROVE  /\ c \in DOMAIN Records(supplied) <=> SectionOf(c) # NoEvidence
           /\ c \in DOMAIN Records(supplied) =>
                 /\ SectionOf(c).producer = Records(supplied)[c]
                 /\ SectionOf(c).producer \in AnyEvidence
                 /\ DOMAIN SectionOf(c) = {"producer", "decision"}
<1>1. SupplyInv /\ pc \in After /\ Collectable(supplied)
  BY DEF DeliveryInv, ReportInv, After
<1>2. CASE c \in DOMAIN Records(supplied)
  <2>1. SectionOf(c) = [producer |-> Records(supplied)[c],
           decision |-> Judged(c, Records(supplied)[c], asked.subject, asked.trusted)]
    BY <1>2 DEF SectionOf
  <2>2. DOMAIN SectionOf(c) = {"producer", "decision"}
        /\ SectionOf(c).producer = Records(supplied)[c]
    BY <2>1
  <2>3. DOMAIN NoEvidence = {"decision", "complete"}
    BY DEF NoEvidence
  <2>4. SectionOf(c) # NoEvidence
    BY <2>2, <2>3
  <2>5. Records(supplied)[c] \in AnyEvidence
    BY <1>1, <1>2, RecordFacts
  <2> QED BY <1>2, <2>2, <2>4, <2>5
<1>3. CASE c \notin DOMAIN Records(supplied)
  BY <1>3 DEF SectionOf
<1> QED BY <1>2, <1>3

LEMMA SavedRecordsOf ==
    ASSUME DeliveryInv, report # Refused
    PROVE  SavedRecords(report.payload) = Records(supplied)
<1>1. Collectable(supplied)
  BY DEF DeliveryInv, ReportInv
<1>2. DOMAIN Records(supplied) \subseteq Component
  BY <1>1 DEF Collectable, Records
<1>3. report.payload.sections = [c \in Component |-> SectionOf(c)]
  <2>1. PICK dec, fin :
           report.payload = [schema |-> Schema, stage |-> asked.stage, decision |-> dec,
                             sections |-> [c \in Component |-> SectionOf(c)],
                             policy |-> asked.policy, subject |-> asked.subject,
                             trusted |-> asked.trusted, findings |-> fin]
    BY ReportParts
  <2> QED BY <2>1
<1>4. {d \in Component : report.payload.sections[d] # NoEvidence} = DOMAIN Records(supplied)
  BY <1>2, <1>3, SectionFacts
<1>5. \A c \in DOMAIN Records(supplied) :
         report.payload.sections[c].producer = Records(supplied)[c]
  BY <1>2, <1>3, SectionFacts
<1>6. Records(supplied) = [c \in DOMAIN Records(supplied) |-> Records(supplied)[c]]
  BY DEF Records
<1> QED BY <1>4, <1>5, <1>6 DEF SavedRecords

LEMMA EditParts ==
    ASSUME DeliveryInv, report # Refused, NEW q \in EditedPayloads(report.payload)
    PROVE  /\ \A c \in Component :
                 /\ q.sections[c].decision = report.payload.sections[c].decision
                 /\ q.sections[c] # NoEvidence => q.sections[c].producer.decision \in Decision
           /\ q.decision # report.payload.decision =>
                 /\ q.sections = report.payload.sections
                 /\ q.subject = asked.subject /\ q.trusted = asked.trusted
                 /\ q.stage = asked.stage
<1>1. PICK dec, fin :
         report.payload = [schema |-> Schema, stage |-> asked.stage, decision |-> dec,
                           sections |-> [c \in Component |-> SectionOf(c)],
                           policy |-> asked.policy, subject |-> asked.subject,
                           trusted |-> asked.trusted, findings |-> fin]
  BY ReportParts
<1> DEFINE p == report.payload
           sec == [c \in Component |-> SectionOf(c)]
<1>2. p.sections = sec /\ p.decision = dec /\ p.subject = asked.subject
      /\ p.trusted = asked.trusted /\ p.stage = asked.stage
  BY <1>1
<1>3. \A c \in Component : sec[c] # NoEvidence => sec[c].producer.decision \in Decision
  BY SectionFacts DEF AnyEvidence
<1>4. \/ \E d : q = [p EXCEPT !.decision = d]
      \/ \E t : q = [p EXCEPT !.stage = t]
      \/ q = [p EXCEPT !.findings = {}]
      \/ q = [p EXCEPT !.trusted = <<>>]
      \/ \E c \in Component :
            q = [p EXCEPT !.sections[c] =
                    IF p.sections[c] = NoEvidence THEN NoEvidence
                    ELSE [@ EXCEPT !.producer.decision = "PASS",
                                   !.producer.complete = TRUE]]
  BY DEF EditedPayloads
<1>5. CASE q.sections = sec
  <2>1. q.decision # dec => \E d : q = [p EXCEPT !.decision = d]
    <3>1. (\E t : q = [p EXCEPT !.stage = t]) => q.decision = dec BY <1>1
    <3>2. q = [p EXCEPT !.findings = {}] => q.decision = dec BY <1>1
    <3>3. q = [p EXCEPT !.trusted = <<>>] => q.decision = dec BY <1>1
    <3>4. (\E c \in Component :
            q = [p EXCEPT !.sections[c] =
                    IF p.sections[c] = NoEvidence THEN NoEvidence
                    ELSE [@ EXCEPT !.producer.decision = "PASS",
                                   !.producer.complete = TRUE]]) => q.decision = dec
      BY <1>1
    <3> HIDE DEF p
    <3> QED BY <1>4, <3>1, <3>2, <3>3, <3>4
  <2>2. q.decision # dec =>
           /\ q.subject = asked.subject /\ q.trusted = asked.trusted
           /\ q.stage = asked.stage
    BY <1>1, <2>1
  <2> HIDE DEF sec
  <2> QED BY <1>2, <1>3, <1>5, <2>2
<1>6. CASE q.sections # sec
  <2>1. PICK c \in Component :
            q = [p EXCEPT !.sections[c] =
                    IF p.sections[c] = NoEvidence THEN NoEvidence
                    ELSE [@ EXCEPT !.producer.decision = "PASS",
                                   !.producer.complete = TRUE]]
    <3>1. (\E d : q = [p EXCEPT !.decision = d]) => q.sections = sec BY <1>1
    <3>2. (\E t : q = [p EXCEPT !.stage = t]) => q.sections = sec BY <1>1
    <3>3. q = [p EXCEPT !.findings = {}] => q.sections = sec BY <1>1
    <3>4. q = [p EXCEPT !.trusted = <<>>] => q.sections = sec BY <1>1
    <3> HIDE DEF sec, p
    <3> QED BY <1>4, <1>6, <3>1, <3>2, <3>3, <3>4
  <2>2. q.decision = dec
    BY <1>1, <2>1
  <2>3. q.sections = [sec EXCEPT ![c] =
                        IF sec[c] = NoEvidence THEN NoEvidence
                        ELSE [sec[c] EXCEPT !.producer.decision = "PASS",
                                            !.producer.complete = TRUE]]
    BY <1>1, <2>1
  <2>4. \A d \in Component : d # c => q.sections[d] = sec[d]
    BY <2>3
  <2>5. q.sections[c].decision = sec[c].decision
        /\ (q.sections[c] # NoEvidence => q.sections[c].producer.decision \in Decision)
    <3>1. CASE sec[c] = NoEvidence
      BY <2>3, <3>1
    <3>2. CASE sec[c] # NoEvidence
      <4>1. sec[c].producer \in AnyEvidence
            /\ DOMAIN sec[c] = {"producer", "decision"}
            /\ sec[c] = [producer |-> sec[c].producer, decision |-> sec[c].decision]
        BY <3>2, SectionFacts DEF SectionOf
      <4> DEFINE r == sec[c].producer
                 b == sec[c].decision
      <4>2. q.sections[c] = [[producer |-> r, decision |-> b]
                EXCEPT !.producer.decision = "PASS", !.producer.complete = TRUE]
        BY <2>3, <3>2, <4>1
      <4>3. r \in AnyEvidence BY <4>1
      <4> HIDE DEF r, b
      <4>4. q.sections[c].decision = b
        BY <4>2
      <4>5. q.sections[c].producer.decision = "PASS"
        <5>1. q.sections[c].producer =
                 [r EXCEPT !.decision = "PASS", !.complete = TRUE]
          BY <4>2
        <5>2. DOMAIN r = {"component", "tool", "subject", "decision", "complete", "valid"}
          BY <4>3 DEF AnyEvidence
        <5> QED BY <5>1, <5>2
      <4> QED BY <4>4, <4>5 DEF b, Decision
    <3> QED BY <3>1, <3>2
  <2> HIDE DEF sec
  <2> QED BY <1>2, <1>3, <2>2, <2>4, <2>5
<1> QED BY <1>5, <1>6

(***************************************************************************)
(* verify_safe_delivery: no single edit of a saved report, resealed or     *)
(* not, changes what an accepted report decides.                           *)
(***************************************************************************)
THEOREM EditsAreSeen == Spec => []EditsDoNotDecide
<1>1. DeliveryInv /\ SavedInv => EditsDoNotDecide
  <2> SUFFICES ASSUME DeliveryInv, SavedInv, accepted PROVE EditsDoNotDecide
    BY DEF EditsDoNotDecide
  <2> DEFINE q == saved.payload
             p == report.payload
  <2>1. report # Refused /\ q \in EditedPayloads(p) /\ Verified(saved)
    BY DEF SavedInv
  <2>2. \A c \in Component : q.sections[c].decision = p.sections[c].decision
    BY <2>1, EditParts
  <2>3. ASSUME q.decision # p.decision PROVE FALSE
    <3>1. q.sections = p.sections /\ q.subject = asked.subject
          /\ q.trusted = asked.trusted /\ q.stage = asked.stage
      BY <2>1, <2>3, EditParts
    <3>2. SavedRecords(q) = Records(supplied)
      BY <2>1, <3>1, SavedRecordsOf DEF SavedRecords
    <3>3. saved = ReportOf(q.subject, SavedRecords(q), q.trusted, q.policy, q.stage)
      BY <2>1 DEF Verified
    <3>4. q.decision = Overall({DecisionOf(c, SavedRecords(q), q.subject, q.trusted, q.stage) :
                                   c \in Component})
      BY <3>3 DEF ReportOf
    <3> HIDE DEF q, p
    <3>5. q.decision = Overall({DecisionOf(c, Records(supplied), asked.subject,
                                           asked.trusted, asked.stage) : c \in Component})
      BY <3>1, <3>2, <3>4
    <3> QED BY <2>1, <2>3, <3>5, ReportDecides DEF p
  <2> QED BY <2>2, <2>3 DEF EditsDoNotDecide
<1> QED BY <1>1, DeliveryInvariance, SavedInvariance, PTL

-----------------------------------------------------------------------------
\* All that is found about a component leads to its decision.
LEMMA FindingFacts ==
    ASSUME NEW c, NEW recs, NEW s, NEW trusted, NEW stage,
           c \in DOMAIN recs => recs[c].decision \in Decision
    PROVE  /\ DecisionOf(c, recs, s, trusted, stage) \in Decision
           /\ \A f \in Findings(c, recs, s, trusted, stage) :
                 f.decision = DecisionOf(c, recs, s, trusted, stage)
           /\ Findings(c, recs, s, trusted, stage) = {}
                 <=> DecisionOf(c, recs, s, trusted, stage) = "PASS"
<1> DEFINE d == DecisionOf(c, recs, s, trusted, stage)
           F == Findings(c, recs, s, trusted, stage)
<1>1. CASE c \notin DOMAIN recs
  <2>1. F = {[rule |-> "SD001", component |-> c, decision |-> d]}
    BY <1>1 DEF Findings
  <2>2. d \in {"REVIEW_REQUIRED", "UNKNOWN"}
    BY <1>1 DEF DecisionOf, MissingDecision
  <2> HIDE DEF F, d
  <2>3. F # {} /\ \A f \in F : f.decision = d
    BY <2>1
  <2> QED BY <2>2, <2>3 DEF F, d, Decision
<1>2. CASE c \in DOMAIN recs
  <2>1. d = Judged(c, recs[c], s, trusted)
    BY <1>2 DEF DecisionOf
  <2>2. recs[c].decision \in Decision BY <1>2
  <2>3. d \in Decision
    BY <2>1, <2>2 DEF Judged, Decision
  <2>4. \A f : f \in F <=>
           \/ f = [rule |-> "SD002", component |-> c, decision |-> d] /\ recs[c].subject # s
           \/ f = [rule |-> "SD003", component |-> c, decision |-> d]
                 /\ Unpinned(c, recs[c], trusted)
           \/ f = [rule |-> "SD004", component |-> c, decision |-> d]
                 /\ d = "UNKNOWN" /\ recs[c].decision = "PASS"
           \/ f = [rule |-> "SD005", component |-> c, decision |-> d] /\ d # "PASS"
    BY <1>2 DEF Findings
  <2>5. recs[c].subject # s \/ Unpinned(c, recs[c], trusted) => d = "FAIL"
    BY <2>1 DEF Judged
  <2> HIDE DEF F, d
  <2>6. \A f \in F : f.decision = d
    BY <2>4
  <2>7. F = {} <=> d = "PASS"
    BY <2>4, <2>5
  <2> QED BY <2>3, <2>6, <2>7 DEF F, d
<1> QED BY <1>1, <1>2

LEMMA OverallIff ==
    ASSUME NEW decisions \in SUBSET Decision
    PROVE  /\ Overall(decisions) = "PASS" <=> decisions \subseteq {"PASS"}
           /\ Overall(decisions) = "FAIL" <=> "FAIL" \in decisions
  BY DEF Overall, Decision

LEMMA ShownAsDecided ==
    ASSUME NEW s, NEW recs, NEW trusted, NEW policy, NEW stage, NEW r,
           r = ReportOf(s, recs, trusted, policy, stage),
           \A c \in Component : c \in DOMAIN recs => recs[c].decision \in Decision
    PROVE  /\ SarifResults(r) = {} <=> r.payload.decision = "PASS"
           /\ (\E x \in SarifResults(r) : x.level = "error")
                 <=> r.payload.decision = "FAIL"
<1> DEFINE d(c) == DecisionOf(c, recs, s, trusted, stage)
           F(c) == Findings(c, recs, s, trusted, stage)
<1>1. r.payload.findings = UNION {F(c) : c \in Component}
      /\ r.payload.decision = Overall({d(c) : c \in Component})
  BY DEF ReportOf
<1>2. \A c \in Component : /\ d(c) \in Decision /\ \A f \in F(c) : f.decision = d(c)
                           /\ F(c) = {} <=> d(c) = "PASS"
  BY FindingFacts
<1>3. \A x : x \in SarifResults(r) <=>
         \E f \in r.payload.findings :
            x = [rule |-> f.rule, component |-> f.component,
                 level |-> IF f.decision = "FAIL" THEN "error" ELSE "warning"]
  BY DEF SarifResults
<1> HIDE DEF d, F
<1>4. {d(c) : c \in Component} \in SUBSET Decision
  BY <1>2
<1>5. r.payload.decision = "PASS" <=> \A c \in Component : F(c) = {}
  BY <1>1, <1>2, <1>4, OverallIff
<1>6. r.payload.decision = "FAIL" <=> \E c \in Component : \E f \in F(c) : f.decision = "FAIL"
  <2>1. r.payload.decision = "FAIL" <=> \E c \in Component : d(c) = "FAIL"
    BY <1>1, <1>4, OverallIff
  <2>2. ASSUME NEW c \in Component
        PROVE  d(c) = "FAIL" <=> \E f \in F(c) : f.decision = "FAIL"
    BY <1>2
  <2> QED BY <2>1, <2>2
<1>7. SarifResults(r) = {} <=> r.payload.findings = {}
  BY <1>3
<1>8. r.payload.findings = {} <=> \A c \in Component : F(c) = {}
  BY <1>1
<1>9. (\E x \in SarifResults(r) : x.level = "error")
         <=> \E f \in r.payload.findings : f.decision = "FAIL"
  <2>1. ASSUME NEW f \in r.payload.findings, f.decision = "FAIL"
        PROVE  \E x \in SarifResults(r) : x.level = "error"
    <3> DEFINE x == [rule |-> f.rule, component |-> f.component, level |-> "error"]
    <3>1. x \in SarifResults(r) BY <1>3, <2>1
    <3> QED BY <3>1
  <2>2. ASSUME NEW x \in SarifResults(r), x.level = "error"
        PROVE  \E f \in r.payload.findings : f.decision = "FAIL"
    <3>1. PICK f \in r.payload.findings :
            x = [rule |-> f.rule, component |-> f.component,
                 level |-> IF f.decision = "FAIL" THEN "error" ELSE "warning"]
      BY <1>3
    <3>2. x.level = IF f.decision = "FAIL" THEN "error" ELSE "warning"
      BY <3>1
    <3> QED BY <2>2, <3>2
  <2> QED BY <2>1, <2>2
<1>10. (\E f \in r.payload.findings : f.decision = "FAIL")
          <=> \E c \in Component : \E f \in F(c) : f.decision = "FAIL"
  BY <1>1
<1> QED BY <1>5, <1>6, <1>7, <1>8, <1>9, <1>10

(***************************************************************************)
(* safe_delivery_sarif: a code scanner that only sees the results of an    *)
(* accepted report sees none for a PASS and an error for a FAIL.           *)
(***************************************************************************)
THEOREM SarifTells == Spec => []SarifAgrees
<1>1. DeliveryInv /\ SavedInv => SarifAgrees
  <2> SUFFICES ASSUME DeliveryInv, SavedInv, accepted PROVE SarifAgrees
    BY DEF SarifAgrees
  <2> DEFINE q == saved.payload
  <2>1. report # Refused /\ q \in EditedPayloads(report.payload)
        /\ saved = ReportOf(q.subject, SavedRecords(q), q.trusted, q.policy, q.stage)
    BY DEF SavedInv, Verified
  <2>2. \A c \in Component : q.sections[c] # NoEvidence => q.sections[c].producer.decision \in Decision
    BY <2>1, EditParts
  <2>3. \A c \in Component :
           c \in DOMAIN SavedRecords(q) => SavedRecords(q)[c].decision \in Decision
    BY <2>2 DEF SavedRecords
  <2> HIDE DEF q
  <2> QED BY <2>1, <2>3, ShownAsDecided DEF SarifAgrees, q
<1> QED BY <1>1, DeliveryInvariance, SavedInvariance, PTL

-----------------------------------------------------------------------------
(***************************************************************************)
(* Verification of a report nobody edited.  What is found of a component   *)
(* fits into three places, since a finding SD002 means FAIL and a finding  *)
(* SD004 means UNKNOWN; so all findings fit the budget of verification.    *)
(***************************************************************************)
\* What is found about a component is one of three things.
LEMMA FindingPlaces ==
    ASSUME NEW c, NEW recs, NEW s, NEW trusted, NEW stage,
           NEW f \in Findings(c, recs, s, trusted, stage)
    PROVE  /\ f.component = c /\ f.rule \in {"SD001", "SD002", "SD003", "SD004", "SD005"}
           /\ f = [rule |-> f.rule, component |-> c,
                   decision |-> DecisionOf(c, recs, s, trusted, stage)]
           /\ f.rule = "SD001" => c \notin DOMAIN recs
           /\ f.rule \in {"SD002", "SD003", "SD004", "SD005"} => c \in DOMAIN recs
           /\ f.rule = "SD002" => DecisionOf(c, recs, s, trusted, stage) = "FAIL"
           /\ f.rule = "SD004" => DecisionOf(c, recs, s, trusted, stage) = "UNKNOWN"
<1> DEFINE d == DecisionOf(c, recs, s, trusted, stage)
<1>1. CASE c \notin DOMAIN recs
  <2>1. f = [rule |-> "SD001", component |-> c, decision |-> d]
    BY <1>1 DEF Findings
  <2> HIDE DEF d
  <2>2. f.component = c /\ f.rule = "SD001"
    BY <2>1
  <2> QED BY <1>1, <2>1, <2>2 DEF d
<1>2. CASE c \in DOMAIN recs
  <2>1. \/ f = [rule |-> "SD002", component |-> c, decision |-> d] /\ recs[c].subject # s
        \/ f = [rule |-> "SD003", component |-> c, decision |-> d]
        \/ f = [rule |-> "SD004", component |-> c, decision |-> d] /\ d = "UNKNOWN"
        \/ f = [rule |-> "SD005", component |-> c, decision |-> d]
    BY <1>2 DEF Findings
  <2>2. recs[c].subject # s => d = "FAIL"
    BY <1>2 DEF DecisionOf, Judged
  <2> HIDE DEF d
  <2>3. /\ f.component = c /\ f.rule \in {"SD002", "SD003", "SD004", "SD005"}
        /\ f = [rule |-> f.rule, component |-> c, decision |-> d]
        /\ f.rule = "SD002" => recs[c].subject # s
        /\ f.rule = "SD004" => d = "UNKNOWN"
    BY <2>1
  <2> QED BY <1>2, <2>2, <2>3 DEF d
<1> QED BY <1>1, <1>2

\* The place of a finding among the three its component has room for.
Place(f) == CASE f.rule = "SD003" -> 2 [] f.rule = "SD005" -> 3 [] OTHER -> 1

LEMMA FindingsFit ==
    ASSUME NEW s, NEW recs, NEW trusted, NEW policy, NEW stage
    PROVE  LET r == ReportOf(s, recs, trusted, policy, stage)
           IN  Cardinality(r.payload.findings) <= 3 * Cardinality(Component)
<1> DEFINE F == UNION {Findings(c, recs, s, trusted, stage) : c \in Component}
           T == Component \X (1..3)
           at == [f \in F |-> <<f.component, Place(f)>>]
<1>1. ReportOf(s, recs, trusted, policy, stage).payload.findings = F
  BY DEF ReportOf
<1>2. \A f \in F : f.component \in Component
                   /\ f \in Findings(f.component, recs, s, trusted, stage)
  <2>1. TAKE f \in F
  <2>2. PICK c \in Component : f \in Findings(c, recs, s, trusted, stage)
    OBVIOUS
  <2>3. f.component = c
    BY <2>2, FindingPlaces
  <2> QED BY <2>2, <2>3
<1> HIDE DEF F
<1>3. at \in [F -> T]
  BY <1>2 DEF Place
<1>4. ASSUME NEW f \in F, NEW g \in F, at[f] = at[g] PROVE f = g
  <2> DEFINE c == f.component
             d == DecisionOf(c, recs, s, trusted, stage)
  <2>1. g.component = c /\ Place(f) = Place(g)
    BY <1>4
  <2>2. f \in Findings(c, recs, s, trusted, stage) /\ g \in Findings(c, recs, s, trusted, stage)
    BY <1>2, <2>1
  <2>3. /\ f.rule \in {"SD001", "SD002", "SD003", "SD004", "SD005"}
        /\ f = [rule |-> f.rule, component |-> c, decision |-> d]
        /\ f.rule = "SD001" => c \notin DOMAIN recs
        /\ f.rule \in {"SD002", "SD003", "SD004", "SD005"} => c \in DOMAIN recs
        /\ f.rule = "SD002" => d = "FAIL"
        /\ f.rule = "SD004" => d = "UNKNOWN"
    BY <2>2, FindingPlaces
  <2>4. /\ g.rule \in {"SD001", "SD002", "SD003", "SD004", "SD005"}
        /\ g = [rule |-> g.rule, component |-> c, decision |-> d]
        /\ g.rule = "SD001" => c \notin DOMAIN recs
        /\ g.rule \in {"SD002", "SD003", "SD004", "SD005"} => c \in DOMAIN recs
        /\ g.rule = "SD002" => d = "FAIL"
        /\ g.rule = "SD004" => d = "UNKNOWN"
    BY <2>2, FindingPlaces
  <2> HIDE DEF c, d
  <2>5. f.rule = g.rule
    BY <2>1, <2>3, <2>4 DEF Place
  <2> QED BY <2>3, <2>4, <2>5
<1>5. at \in Injection(F, T)
  BY <1>3, <1>4 DEF Injection, IsInjective
<1>6. IsFiniteSet(1..3) /\ Cardinality(1..3) = 3
  <2>1. Cardinality(1..3) = IF 1 > 3 THEN 0 ELSE 3 - 1 + 1
    BY ONLY FS_Interval, 1 \in Int, 3 \in Int
  <2>2. IsFiniteSet(1..3)
    BY ONLY FS_Interval, 1 \in Int, 3 \in Int
  <2> QED BY <2>1, <2>2
<1>7. IsFiniteSet(T) /\ Cardinality(T) = Cardinality(Component) * 3
  BY <1>6, FS_Product, ComponentAssumption
<1>8. Cardinality(F) <= Cardinality(T)
  BY <1>5, <1>7, FS_Injection
<1>9. Cardinality(Component) \in Nat
  BY FS_CardinalityType, ComponentAssumption
<1> QED BY <1>1, <1>7, <1>8, <1>9

\* The question of verification, and what a composition was asked.
AskedInv ==
    /\ pc = "verified" => accepted = Verified(saved)
    /\ report # Refused => Composable(asked.subject, asked.trusted, asked.policy, asked.stage)

LEMMA AskedInvariance == Spec => []AskedInv
<1>1. Init => AskedInv
  BY DEF Init, AskedInv
<1>2. AskedInv /\ [Next]_vars => AskedInv'
  <2> SUFFICES ASSUME AskedInv, [Next]_vars PROVE AskedInv'
    OBVIOUS
  <2>1. CASE Normalize \/ Submit \/ \E c \in Component : Supply(c)
    <3>1. pc' # "verified" /\ UNCHANGED <<report, asked>>
      BY <2>1 DEF Normalize, HostedNext, Begin, Malformed, TakePartial, TakeCheck,
                  TakeReview, Conclude, Submit, Supply, deliveryVars
    <3> QED BY <3>1 DEF AskedInv
  <2>2. CASE ComposeReport
    <3>1. PICK stage, policy, trusted :
             /\ asked' = [subject |-> Candidate, trusted |-> trusted,
                          policy |-> policy, stage |-> stage]
             /\ report' = Compose(Candidate, supplied, trusted, policy, stage)
      BY <2>2 DEF ComposeReport
    <3>2. pc' # "verified"
      BY <2>2 DEF ComposeReport
    <3>3. report' # Refused => Composable(Candidate, trusted, policy, stage)
      BY <3>1 DEF Compose
    <3>4. asked'.subject = Candidate /\ asked'.trusted = trusted
          /\ asked'.policy = policy /\ asked'.stage = stage
      BY <3>1
    <3> QED BY <3>2, <3>3, <3>4 DEF AskedInv
  <2>3. CASE Save
    BY <2>3 DEF Save, AskedInv
  <2>4. CASE Verify
    <3>1. accepted' = Verified(saved') /\ UNCHANGED <<report, asked>>
      BY <2>4 DEF Verify, Verified
    <3> QED BY <3>1 DEF AskedInv
  <2>5. CASE Over \/ UNCHANGED vars
    <3>1. UNCHANGED <<pc, accepted, saved, report, asked>>
      BY <2>5 DEF Over, vars, deliveryVars
    <3> QED BY <3>1 DEF AskedInv, Verified
  <2> QED BY <2>1, <2>2, <2>3, <2>4, <2>5 DEF Next
<1> QED BY <1>1, <1>2, PTL DEF Spec

\* verify_safe_delivery (safe_delivery.py:307-317) accepts every report the
\* composer made, for any number of components and whatever was found.
THEOREM UntouchedReportsPass == Spec => []UntouchedIsAccepted
<1>1. DeliveryInv /\ SavedInv /\ AskedInv => UntouchedIsAccepted
  <2> SUFFICES ASSUME DeliveryInv, SavedInv, AskedInv, pc = "verified", saved = report
               PROVE  accepted
    BY DEF UntouchedIsAccepted
  <2> DEFINE p == report.payload
             recs == Records(supplied)
  <2>1. report # Refused /\ accepted = Verified(report)
        /\ Composable(asked.subject, asked.trusted, asked.policy, asked.stage)
    BY DEF SavedInv, AskedInv
  <2>2. report = ReportOf(asked.subject, recs, asked.trusted, asked.policy, asked.stage)
        /\ Collectable(supplied) /\ SupplyInv /\ pc \in After
    BY <2>1 DEF DeliveryInv, ReportInv, After
  <2>3. p.schema = Schema /\ p.subject = asked.subject /\ p.trusted = asked.trusted
        /\ p.policy = asked.policy /\ p.stage = asked.stage
    BY <2>2 DEF ReportOf
  <2>4. Cardinality(p.findings) <= 3 * Cardinality(Component)
    BY <2>2, FindingsFit
  <2>5. SavedRecords(p) = recs
    BY <2>1, SavedRecordsOf
  <2>6. \A c \in DOMAIN recs : recs[c].valid /\ recs[c].component = c
    <3>1. TAKE c \in DOMAIN recs
    <3>2. c \in Component
      BY <2>2, <3>1 DEF Collectable, Records
    <3>3. PICK i \in DOMAIN supplied : Supplied(c) = {i} /\ recs[c] = supplied[i]
      BY <2>2, <3>1, <3>2, RecordFacts
    <3>4. supplied[i].component = c
      BY <3>3 DEF Supplied
    <3> QED BY <2>2, <3>3, <3>4 DEF Collectable
  <2> HIDE DEF p, recs
  <2>7. Verified(report) <=>
          /\ p.schema = Schema
          /\ Cardinality(p.findings) <= 3 * Cardinality(Component)
          /\ Composable(p.subject, p.trusted, p.policy, p.stage)
          /\ \A c \in DOMAIN SavedRecords(p) :
                SavedRecords(p)[c].valid /\ SavedRecords(p)[c].component = c
          /\ report = ReportOf(p.subject, SavedRecords(p), p.trusted, p.policy, p.stage)
    BY DEF Verified, p
  <2>8. Verified(report)
    BY <2>1, <2>2, <2>3, <2>4, <2>5, <2>6, <2>7
  <2> QED BY <2>1, <2>8
<1> QED BY <1>1, DeliveryInvariance, SavedInvariance, AskedInvariance, PTL

-----------------------------------------------------------------------------
(***************************************************************************)
(* Types.                                                                  *)
(***************************************************************************)
\* What the types of a delivery rest on beside HostedInv and SavedInv.
Record == CheckRun \cup Review \cup {Partial}

HeldInv ==
    /\ records \in Seq(Record) /\ Len(records) <= MaxChecks + MaxReviews
    /\ seen \subseteq 1..(MaxChecks + MaxReviews)
    /\ pc # "judged" => verdict = Undecided

WorkInv ==
    /\ earned \in BOOLEAN
    /\ pc \in Before \cup {"rejected", "supply"} => asked = <<>>
    /\ pc = "refused" => asked # <<>> /\ report = Refused
    /\ pc \in {"composed", "saved", "verified"} => report # Refused

LEMMA HeldInvariance == Spec => []HeldInv
<1> USE HostedAssumption
<1>1. Init => HeldInv
  BY DEF Init, HostedInit, HeldInv, Record, Undecided
<1>2. HeldInv /\ HostedInv /\ [Next]_vars => HeldInv'
  <2> SUFFICES ASSUME HeldInv, HostedInv, [Next]_vars PROVE HeldInv'
    OBVIOUS
  <2>1. CASE TakePartial \/ (\E r \in CheckRun : TakeCheck(r)) \/ \E r \in Review : TakeReview(r)
    <3>1. PICK r \in Record :
             /\ pc = "loop" /\ UNCHANGED <<pc, verdict>>
             /\ records' = Append(records, r)
             /\ seen' = seen \/ (seen' = seen \cup {r.id} /\ r \in CheckRun \cup Review)
             /\ Len(records) < MaxChecks \/ Len(records) < MaxReviews
      <4>1. CASE TakePartial
        BY <4>1 DEF TakePartial, Listing, Record
      <4>2. CASE \E r \in CheckRun : TakeCheck(r)
        BY <4>2 DEF TakeCheck, Listing, Record
      <4>3. CASE \E r \in Review : TakeReview(r)
        BY <4>3 DEF TakeReview, Listing, Record
      <4> QED BY <2>1, <4>1, <4>2, <4>3
    <3>2. r \in CheckRun \cup Review => r.id \in 1..(MaxChecks + MaxReviews)
      BY DEF CheckRun, Review
    <3>3. records' \in Seq(Record) /\ Len(records') = Len(records) + 1 /\ Len(records) \in Nat
      BY <3>1 DEF HeldInv
    <3>4. Len(records') <= MaxChecks + MaxReviews
      BY <3>1, <3>3
    <3>5. seen' \subseteq 1..(MaxChecks + MaxReviews)
      BY <3>1, <3>2 DEF HeldInv
    <3>6. pc' # "judged" => verdict' = Undecided
      BY <3>1 DEF HeldInv
    <3> QED BY <3>3, <3>4, <3>5, <3>6 DEF HeldInv
  <2>2. CASE Submit \/ Malformed
    <3>1. records' = <<>> /\ seen' = {} /\ verdict' = Undecided
      BY <2>2 DEF Submit, Malformed, Forget
    <3> QED BY <3>1 DEF HeldInv
  <2>3. CASE Begin \/ Conclude
    <3>1. UNCHANGED <<records, seen>> /\ (pc' # "judged" => pc # "judged" /\ verdict' = verdict)
      BY <2>3 DEF Begin, Conclude
    <3> QED BY <3>1 DEF HeldInv
  <2>4. CASE (\E c \in Component : Supply(c)) \/ ComposeReport \/ Save \/ Verify \/ Over
             \/ UNCHANGED vars
    <3>1. UNCHANGED <<records, seen, verdict>> /\ (pc # "judged" \/ pc' = pc)
      BY <2>4 DEF Supply, ComposeReport, Save, Verify, Over, vars, hostedVars
    <3> QED BY <3>1 DEF HeldInv
  <2> QED BY <2>1, <2>2, <2>3, <2>4 DEF Next, Normalize, HostedNext
<1> QED BY <1>1, <1>2, HostedInvariance, PTL DEF Spec

LEMMA WorkInvariance == Spec => []WorkInv
<1>1. Init => WorkInv
  BY DEF Init, WorkInv
<1>2. WorkInv /\ HostedInv /\ [Next]_vars => WorkInv'
  <2> SUFFICES ASSUME WorkInv, HostedInv, [Next]_vars PROVE WorkInv'
    OBVIOUS
  <2>1. CASE Normalize
    <3>1. UNCHANGED <<asked, report, earned>> /\ pc \in Before /\ pc' \in Before \cup {"rejected"}
      BY <2>1 DEF Normalize, HostedNext, Begin, Malformed, TakePartial, TakeCheck,
                  TakeReview, Conclude, deliveryVars, Before
    <3> QED BY <3>1 DEF WorkInv, Before
  <2>2. CASE Submit
    <3>1. earned' \in BOOLEAN
      BY <2>2 DEF Submit
    <3>2. pc = "judged" /\ pc' = "supply" /\ UNCHANGED <<asked, report>>
      BY <2>2 DEF Submit
    <3> QED BY <3>1, <3>2 DEF WorkInv, Before
  <2>3. CASE \E c \in Component : Supply(c)
    <3>1. UNCHANGED <<pc, asked, report, earned>>
      BY <2>3 DEF Supply
    <3> QED BY <3>1 DEF WorkInv
  <2>4. CASE ComposeReport
    <3>1. asked' # <<>>
      <4>1. PICK stage, policy, trusted :
             asked' = [subject |-> Candidate, trusted |-> trusted,
                       policy |-> policy, stage |-> stage]
        BY <2>4 DEF ComposeReport
      <4>2. "subject" \in DOMAIN asked' /\ "subject" \notin DOMAIN <<>>
        BY <4>1
      <4> QED BY <4>2
    <3>2. pc' = IF report' = Refused THEN "refused" ELSE "composed"
      BY <2>4 DEF ComposeReport
    <3>3. earned' = earned
      BY <2>4 DEF ComposeReport
    <3> QED BY <3>1, <3>2, <3>3 DEF WorkInv, Before
  <2>5. CASE Save \/ Verify
    <3>1. UNCHANGED <<asked, report, earned>> /\ pc \in {"composed", "saved"}
          /\ pc' \in {"saved", "verified"}
      BY <2>5 DEF Save, Verify
    <3> QED BY <3>1 DEF WorkInv, Before
  <2>6. CASE Over \/ UNCHANGED vars
    <3>1. UNCHANGED <<pc, asked, report, earned>>
      BY <2>6 DEF Over, vars, deliveryVars
    <3> QED BY <3>1 DEF WorkInv
  <2> QED BY <2>1, <2>2, <2>3, <2>4, <2>5, <2>6 DEF Next
<1> QED BY <1>1, <1>2, HostedInvariance, PTL DEF Spec

\* Every variable of a delivery keeps to its set of values: the sequence of
\* normalizer, producers, composition, saving and verification.
THEOREM DeliveryTypes == Spec => []TypeOK
<1>1. DeliveryInv /\ SavedInv /\ HeldInv /\ WorkInv => TypeOK
  <2> SUFFICES ASSUME DeliveryInv, SavedInv, HeldInv, WorkInv PROVE TypeOK
    OBVIOUS
  <2>1. /\ pc \in {"begin", "loop", "judged", "rejected", "supply", "composed",
                   "refused", "saved", "verified"}
        /\ side \in {"ci", "review"}
    BY DEF DeliveryInv, HostedInv, Before, After
  <2>2. verdict.decision \in Decision \cup {"none"} /\ verdict.complete \in BOOLEAN
    <3>1. pc # "judged" => verdict.decision = "none" /\ verdict.complete = FALSE
      BY DEF HeldInv, Undecided
    <3> QED BY <3>1 DEF DeliveryInv, HostedInv
  <2>3. report # Refused => report.payload.decision \in Decision
    <3> SUFFICES ASSUME report # Refused PROVE report.payload.decision \in Decision
      OBVIOUS
    <3>1. PICK decisions : report.payload.decision = Overall(decisions)
      BY DEF DeliveryInv, ReportInv, ReportOf
    <3> QED BY <3>1 DEF Overall, Decision
  <2>4. (pc = "refused") <=> (asked # <<>> /\ report = Refused)
    BY <2>1 DEF WorkInv, Before
  <2>5. (pc = "refused") = (asked # <<>> /\ report = Refused)
    BY <2>4
  <2> QED BY <2>1, <2>2, <2>3, <2>5 DEF TypeOK, HeldInv, WorkInv, SavedInv
<1> QED BY <1>1, DeliveryInvariance, SavedInvariance, HeldInvariance, WorkInvariance, PTL
=============================================================================
