---------------------------- MODULE PathsProofs ----------------------------
(***************************************************************************)
(* Theorems about Paths, for every set of places, every judgement of       *)
(* pathguard and any number of changes of the disk.                        *)
(***************************************************************************)
EXTENDS Paths, TLAPS

\* How far the path of the call has been judged, from where the call is: by name
\* for good, by what is there as long as nothing changes.
JudgedInv ==
    /\ changes \in Nat /\ base \in Bases
    /\ pc \in {"workdir", "policy", "place"} => where = NoPlace
    /\ pc \in {"judge", "find", "rejudge", "stat"} => base # "bad"
    /\ pc \in {"find", "rejudge", "stat"} =>
          /\ Missing(where) = "ok"
          /\ changes = 0 => ~Planted(raw)
    /\ pc = "stat" => Missing(canonical) = "ok"
    /\ pc # "done" => answer = None

PathsInv ==
    JudgedInv /\ AcceptedWhereItIs /\ RefusalHidesExistence /\ NothingHiddenAccepted

-----------------------------------------------------------------------------
(* Judgements *)

\* What the lists let pass.
LEMMA ListedOk ==
    ASSUME NEW p, Missing(p) = "ok"
    PROVE  /\ p \notin Credential \cup DeniedDir
           /\ raw \notin Credential /\ base # "secret"
           /\ p \in Below[root] \/ (op = "download" /\ p = root)
BY DEF Missing, Listed, Contained

\* What is let pass would be if nothing were there; and what is refused is so
\* refused, or for a hard link to a credential.
LEMMA JudgementSays ==
    ASSUME NEW p
    PROVE  /\ Judgement(p) = "ok" => Missing(p) = "ok" /\ ~Planted(raw)
           /\ \/ Judgement(p) = Missing(p)
              \/ Judgement(p) = "sensitive_path" /\ (Planted(raw) \/ Planted(p))
BY DEF Judgement

\* The lists are of paths, the root and the call: what they say of a place lasts;
\* and so does what is there, but for the disk.
LEMMA MissingLasts ==
    ASSUME NEW CONSTANT p, UNCHANGED <<call, root>>
    PROVE  Missing(p)' = Missing(p)
BY DEF Missing, Listed, Contained, call

LEMMA PlantedLasts ==
    ASSUME NEW CONSTANT p, UNCHANGED <<disk, call>>
    PROVE  Planted(p)' = Planted(p)
BY DEF Planted, Follow, disk, call

LEMMA NoneIsNoRefusal == None.reason # "ok"
BY DEF None

\* A refusal for another reason than a judgement is no acceptance.
LEMMA OtherRefusals ==
    ASSUME NEW reason, NEW p, Says(reason, p), reason # "ok"
    PROVE  /\ pc' = "done" /\ answer' = [reason |-> reason, path |-> p]
           /\ AcceptedWhereItIs' /\ NothingHiddenAccepted'
BY DEF Says, Goto, AcceptedWhereItIs, NothingHiddenAccepted

LEMMA InitInv == Init => PathsInv
BY NoneIsNoRefusal DEF Init, Bases, PathsInv, JudgedInv, AcceptedWhereItIs,
   RefusalHidesExistence, NothingHiddenAccepted

\* A step of the call that does not end it.
LEMMA GoesOn ==
    ASSUME pc' # "done", answer' = None
    PROVE  AcceptedWhereItIs' /\ RefusalHidesExistence' /\ NothingHiddenAccepted'
BY NoneIsNoRefusal DEF AcceptedWhereItIs, RefusalHidesExistence, NothingHiddenAccepted

\* A refusal of a place that the lists let pass.
LEMMA RefusedLater ==
    ASSUME PathsInv, UNCHANGED <<disk, call, root, where>>,
           pc \in {"find", "rejudge", "stat"},
           NEW reason, reason # "ok", NEW p, Says(reason, p)
    PROVE  PathsInv'
<1>1. /\ pc' = "done" /\ AcceptedWhereItIs' /\ NothingHiddenAccepted'
  BY OtherRefusals
<1>2. JudgedInv'
  BY <1>1 DEF PathsInv, JudgedInv, disk, call
<1> PICK m : m = where
  OBVIOUS
<1>3. Missing(m)' = "ok" /\ where' = m
  BY MissingLasts DEF PathsInv, JudgedInv
<1>4. RefusalHidesExistence'
  BY <1>3 DEF RefusalHidesExistence
<1> QED
  BY <1>1, <1>2, <1>4 DEF PathsInv

\* An acceptance of a place that was found and let pass.
LEMMA AcceptedLater ==
    ASSUME PathsInv, UNCHANGED <<disk, call, root, where, canonical>>,
           pc = "stat", ~IsHidden, Says("ok", canonical)
    PROVE  PathsInv'
<1> USE DEF PathsInv
<1>1. pc' = "done" /\ answer' = [reason |-> "ok", path |-> canonical]
  BY DEF Says, Goto
<1>2. JudgedInv'
  BY <1>1 DEF JudgedInv, disk, call
<1>3. AcceptedWhereItIs'
  <2> PICK m : m = raw
    OBVIOUS
  <2>1. Planted(m)' = Planted(m) /\ raw' = m
    BY PlantedLasts DEF call
  <2>2. changes = 0 => ~Planted(m)
    BY DEF JudgedInv
  <2>3. changes' = 0 => ~Planted(raw)'
    BY <2>1, <2>2 DEF disk
  <2>4. /\ canonical \notin Credential \cup DeniedDir
        /\ raw \notin Credential /\ base \notin {"secret", "bad"}
        /\ canonical \in Below[root] \/ (op = "download" /\ canonical = root)
    BY ListedOk DEF JudgedInv
  <2> QED
    BY <1>1, <2>3, <2>4 DEF AcceptedWhereItIs, call
<1>4. NothingHiddenAccepted'
  <2> PICK m : m = canonical
    OBVIOUS
  <2>1. HasDot(m)' = HasDot(m) /\ answer'.path = m /\ answer'.reason = "ok"
    BY <1>1 DEF HasDot
  <2>2. ~allowHidden => ~HasDot(m) /\ (op = "download" => base # "dotted")
    BY DEF IsHidden, HiddenAt
  <2>3. base \in Bases \ {"bad", "secret"}
    BY ListedOk DEF JudgedInv
  <2> QED
    BY <2>1, <2>2, <2>3 DEF Bases, NothingHiddenAccepted, call
<1>5. RefusalHidesExistence'
  <2> PICK m : m = where
    OBVIOUS
  <2>1. Missing(m)' = "ok" /\ where' = m
    BY MissingLasts DEF JudgedInv
  <2> QED
    BY <2>1 DEF RefusalHidesExistence
<1> QED
  BY <1>2, <1>3, <1>4, <1>5

LEMMA StepInv == PathsInv /\ [Next]_vars => PathsInv'
<1> SUFFICES ASSUME PathsInv, [Next]_vars PROVE PathsInv'
  OBVIOUS
<1> USE DEF PathsInv
<1>1. CASE ResolveWorkDir \/ NewPolicy
  <2>1. /\ UNCHANGED <<disk, call, where, canonical>>
        /\ where = NoPlace /\ changes' \in Nat /\ base' \in Bases
        /\ pc \in {"workdir", "policy"}
    BY <1>1 DEF ResolveWorkDir, NewPolicy, JudgedInv, disk, call
  <2>2. CASE pc' \in {"policy", "place"} /\ UNCHANGED answer
    <3>1. answer' = None
      BY <2>1, <2>2 DEF JudgedInv
    <3> QED
      BY <2>1, <2>2, <3>1, GoesOn DEF JudgedInv
  <2>3. CASE \E reason, p : reason # "ok" /\ Says(reason, p)
    <3>1. pc' = "done" /\ AcceptedWhereItIs' /\ NothingHiddenAccepted'
      BY <2>3, OtherRefusals
    <3> QED
      BY <2>1, <3>1 DEF JudgedInv, RefusalHidesExistence
  <2> QED
    BY <1>1, <2>2, <2>3 DEF ResolveWorkDir, NewPolicy, Proceeds, Goto
<1>2. CASE Place
  <2>1. UNCHANGED <<disk, call, root>> /\ changes' \in Nat /\ base' \in Bases
    BY <1>2 DEF Place, JudgedInv, disk, call
  <2>2. CASE base = "bad" /\ Says("bad_filename", NoPlace)
    <3>1. /\ pc' = "done" /\ base' = "bad"
          /\ AcceptedWhereItIs' /\ NothingHiddenAccepted'
      BY <2>1, <2>2, OtherRefusals DEF call
    <3> QED
      BY <2>1, <3>1 DEF JudgedInv, RefusalHidesExistence
  <2>3. CASE base # "bad" /\ Proceeds("judge")
    <3>1. pc' = "judge" /\ answer' = None /\ base' # "bad"
      BY <1>2, <2>1, <2>3 DEF Place, Proceeds, Goto, JudgedInv, call
    <3> QED
      BY <2>1, <3>1, GoesOn DEF JudgedInv
  <2> QED
    BY <1>2, <2>2, <2>3 DEF Place, AskedFirst
<1>3. CASE Judge
  <2> PICK m, r : m = where /\ r = raw
    OBVIOUS
  <2>1. /\ UNCHANGED <<disk, call, root, where, canonical>> /\ pc = "judge"
        /\ changes' \in Nat /\ base' \in Bases /\ base # "bad"
    BY <1>3 DEF Judge, JudgedInv, disk, call
  <2>2. /\ Missing(m)' = Missing(m) /\ Planted(m)' = Planted(m)
        /\ Planted(r)' = Planted(r) /\ where' = m /\ raw' = r
    BY <2>1, MissingLasts, PlantedLasts DEF call
  <2>3. CASE Judgement(where) # "ok" /\ Says(Judgement(where), where)
    <3>1. /\ pc' = "done" /\ AcceptedWhereItIs' /\ NothingHiddenAccepted'
          /\ answer' = [reason |-> Judgement(where), path |-> where]
      BY <2>3, OtherRefusals
    <3>2. RefusalHidesExistence'
      BY <2>2, <3>1, JudgementSays DEF RefusalHidesExistence
    <3> QED
      BY <2>1, <3>1, <3>2 DEF JudgedInv
  <2>4. CASE Judgement(where) = "ok" /\ Proceeds("find")
    <3>1. pc' = "find" /\ answer' = None /\ base' # "bad"
      BY <2>1, <2>4 DEF Proceeds, Goto, JudgedInv, call
    <3>2. Missing(m) = "ok" /\ ~Planted(r)
      BY <2>4, JudgementSays
    <3>3. JudgedInv'
      BY <2>1, <2>2, <3>1, <3>2 DEF JudgedInv
    <3> QED
      BY <3>1, <3>3, GoesOn
  <2> QED
    BY <1>3, <2>3, <2>4 DEF Judge, Judged
<1>4. CASE Find
  <2> PICK m, r, c : m = where /\ r = raw /\ c = canonical'
    OBVIOUS
  <2>1. /\ UNCHANGED <<disk, call, root, where>> /\ pc = "find"
        /\ changes' \in Nat /\ base' \in Bases /\ changes' = changes /\ base' # "bad"
    BY <1>4 DEF Find, JudgedInv, disk, call
  <2>2. CASE Says("not_found", raw)
    BY <2>1, <2>2, RefusedLater
  <2>3. CASE Proceeds(IF Elsewhere(canonical') THEN "rejudge" ELSE "stat")
    <3>1. /\ pc' = IF c = m THEN "stat" ELSE "rejudge"
          /\ answer' = None
      BY <2>1, <2>3 DEF Proceeds, Goto, Elsewhere, JudgedInv
    <3>2. Missing(m)' = "ok" /\ (changes = 0 => ~Planted(r)')
      BY <2>1, MissingLasts, PlantedLasts DEF JudgedInv
    <3>3. /\ where' = m /\ raw' = r
      BY <2>1 DEF call
    <3>4. JudgedInv'
      BY <2>1, <3>1, <3>2, <3>3 DEF JudgedInv
    <3> QED
      BY <3>1, <3>4, GoesOn
  <2> QED
    BY <1>4, <2>2, <2>3 DEF Find
<1>5. CASE Rejudge
  <2> PICK m, r, c : m = where /\ r = raw /\ c = canonical
    OBVIOUS
  <2>1. /\ UNCHANGED <<disk, call, root, where, canonical>> /\ pc = "rejudge"
        /\ changes' \in Nat /\ base' \in Bases /\ base' # "bad"
    BY <1>5 DEF Rejudge, JudgedInv, disk, call
  <2>2. CASE Judgement(canonical) # "ok" /\ Says(Judgement(canonical), canonical)
    BY <2>1, <2>2, RefusedLater
  <2>3. CASE Judgement(canonical) = "ok" /\ Proceeds("stat")
    <3>1. pc' = "stat" /\ answer' = None
      BY <2>1, <2>3 DEF Proceeds, Goto, JudgedInv
    <3>2. Missing(c) = "ok" /\ Missing(m) = "ok" /\ ~Planted(r)
      BY <2>1, <2>3, JudgementSays DEF JudgedInv
    <3>3. Missing(c)' = "ok" /\ Missing(m)' = "ok" /\ ~Planted(r)'
      BY <2>1, <3>2, MissingLasts, PlantedLasts
    <3>4. where' = m /\ raw' = r /\ canonical' = c
      BY <2>1 DEF call
    <3>5. JudgedInv'
      BY <2>1, <3>1, <3>3, <3>4 DEF JudgedInv
    <3> QED
      BY <3>1, <3>5, GoesOn
  <2> QED
    BY <1>5, <2>2, <2>3 DEF Rejudge, Judged
<1>6. CASE StatFile \/ StatDir
  <2>1. /\ UNCHANGED <<disk, call, root, where, canonical>> /\ pc = "stat"
    BY <1>6 DEF StatFile, StatDir
  <2>2. CASE \E reason : reason # "ok" /\ Says(reason, canonical)
    BY <2>1, <2>2, RefusedLater
  <2>3. CASE ~IsHidden /\ Says("ok", canonical)
    BY <2>1, <2>3, AcceptedLater
  <2> QED
    BY <1>6, <2>2, <2>3 DEF StatFile, StatDir
<1>7. CASE \/ \E p, q \in Places : Relinks(p, q)
           \/ \E p \in Places, k \in Kinds : Replaces(p, k)
  <2>1. /\ pc # "done" /\ changes' = changes + 1
        /\ UNCHANGED <<call, pc, root, where, canonical, answer>>
    BY <1>7 DEF Relinks, Replaces, Changes
  <2>2. changes' \in Nat /\ base' \in Bases /\ changes' # 0 /\ answer' = None /\ pc' # "done"
    BY <2>1 DEF JudgedInv, call
  <2> PICK m, c : m = where /\ c = canonical
    OBVIOUS
  <2>3. Missing(m)' = Missing(m) /\ Missing(c)' = Missing(c)
    BY <2>1, MissingLasts
  <2>4. where' = m /\ canonical' = c /\ base' = base
    BY <2>1 DEF call
  <2>5. JudgedInv'
    BY <2>1, <2>2, <2>3, <2>4 DEF JudgedInv
  <2> QED
    BY <2>2, <2>5, GoesOn
<1>8. CASE UNCHANGED vars
  <2> PICK m, c, r : m = where /\ c = canonical /\ r = raw
    OBVIOUS
  <2>1. /\ UNCHANGED <<disk, call, pc, root, where, canonical, answer>>
        /\ changes' = changes
    BY <1>8 DEF vars, disk
  <2>2. /\ Missing(m)' = Missing(m) /\ Missing(c)' = Missing(c)
        /\ Planted(r)' = Planted(r) /\ Planted(m)' = Planted(m)
    BY <2>1, MissingLasts, PlantedLasts
  <2>3. /\ where' = m /\ canonical' = c /\ raw' = r /\ base' = base
        /\ op' = op /\ allowHidden' = allowHidden
    BY <2>1 DEF call
  <2>4. JudgedInv' /\ RefusalHidesExistence' /\ AcceptedWhereItIs'
    BY <2>1, <2>2, <2>3 DEF JudgedInv, RefusalHidesExistence, AcceptedWhereItIs
  <2>5. NothingHiddenAccepted'
    BY <2>1, <2>3 DEF NothingHiddenAccepted, HasDot
  <2> QED
    BY <2>4, <2>5
<1> QED
  BY <1>1, <1>2, <1>3, <1>4, <1>5, <1>6, <1>7, <1>8 DEF Next, Terminated

LEMMA SpecInv == Spec => []PathsInv
BY InitInv, StepInv, PTL DEF Spec

-----------------------------------------------------------------------------
\* However the disk changes between the looks, a place that is accepted was
\* judged under its own name, under the call's root, by all the rules; on a disk
\* that does not change it is no hard link to a credential either.
THEOREM AcceptedWasJudged == Spec => []AcceptedWhereItIs
<1>1. PathsInv => AcceptedWhereItIs
  BY DEF PathsInv
<1> QED
  BY <1>1, SpecInv, PTL

\* A place that may not be used is refused as if nothing were there, whatever is
\* there and however that changes meanwhile, but for a hard link to a credential.
THEOREM RefusalsHideExistence == Spec => []RefusalHidesExistence
<1>1. PathsInv => RefusalHidesExistence
  BY DEF PathsInv
<1> QED
  BY <1>1, SpecInv, PTL

\* No hidden place is used, and no hidden name given, against the operator's
\* setting.
THEOREM HiddenIsRefused == Spec => []NothingHiddenAccepted
<1>1. PathsInv => NothingHiddenAccepted
  BY DEF PathsInv
<1> QED
  BY <1>1, SpecInv, PTL
=============================================================================
