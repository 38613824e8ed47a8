------------------------ MODULE ExecvePrinterProofs ------------------------
(***************************************************************************)
(* Proofs about the environment diff of print_execve_trace, for every     *)
(* set of entries, every set of baselines and every bound on envp.        *)
(*                                                                         *)
(* DiffMatchesReference only speaks of the final state.  What makes it    *)
(* true is the loop invariant of the two for-loops: after the entries     *)
(* 1..i-1 of envp, the clone holds exactly the baseline keys none of them *)
(* named, the records written are the "+"/"M" records of those entries,  *)
(* and in the second loop every key taken out of the clone has its "-"   *)
(* record.  DiffInv states it; it holds under the hypothesis of the      *)
(* property (well-formed entries with distinct keys), which is constant  *)
(* because envp never changes.                                            *)
(***************************************************************************)
EXTENDS ExecvePrinter, TLAPS

(* The hypothesis of DiffMatchesReference. *)
Clean == (\A e \in Range(envp) : WellFormed(e)) /\ DistinctKeys

(* The entries the first loop has handled, and their keys. *)
Done == {envp[j] : j \in 1..(i - 1)}
DoneKeys == {EntryKey(e) : e \in Done}

(* The "+" and "M" records the reference diff has for the entries D. *)
Changes(D) ==
    {Rec("+", EntryKey(e), EntryValue(e)) :
        e \in {e2 \in D : EntryKey(e2) \notin DOMAIN baseline}}
    \cup {Rec("M", EntryKey(e), EntryValue(e)) :
        e \in {e2 \in D : /\ EntryKey(e2) \in DOMAIN baseline
                          /\ baseline[EntryKey(e2)] # EntryValue(e2)}}

(* The "-" records of the baseline keys no entry named that the second   *)
(* loop has already taken out of the clone.                               *)
Removed == {Rec("-", k, baseline[k]) : k \in (DOMAIN baseline \ DoneKeys) \ DOMAIN env}

(* The loop invariant of the two for-loops of the diff, for clean envp. *)
DiffCore ==
    /\ phase \in {"envp", "removed", "done"}
    /\ i \in 1..(Len(envp) + 1)
    /\ phase # "envp" => i = Len(envp) + 1
    /\ DOMAIN env \subseteq DOMAIN baseline \ DoneKeys
    /\ phase = "envp" => DOMAIN env = DOMAIN baseline \ DoneKeys
    /\ phase = "done" => DOMAIN env = {}
    /\ Range(out) = Changes(Done) \cup Removed

DiffInv == TypeOK /\ (Clean => DiffCore)
-----------------------------------------------------------------------------
(* position(): the index found is 0 or an index of s holding '='. *)
LEMMA FirstEqFacts ==
    ASSUME NEW S, NEW s \in Seq(S)
    PROVE  /\ FirstEq(s) \in 0..Len(s)
           /\ FirstEq(s) # 0 => IsEq(s[FirstEq(s)])
<1> DEFINE P(j) == IsEq(s[j]) /\ \A m \in 1..(j - 1) : ~IsEq(s[m])
<1>1. CASE \E j \in 1..Len(s) : P(j)
  <2> DEFINE c == CHOOSE j \in 1..Len(s) : P(j)
  <2>1. c \in 1..Len(s) /\ P(c)
    BY <1>1, Zenon
  <2>2. FirstEq(s) = c
    BY <1>1 DEF FirstEq
  <2>3. QED
    BY <2>1, <2>2
<1>2. CASE ~\E j \in 1..Len(s) : P(j)
  <2>1. FirstEq(s) = 0
    BY <1>2 DEF FirstEq
  <2>2. QED
    BY <2>1
<1>3. QED
  BY <1>1, <1>2

(* sep_loc never lies past the end of the item. *)
LEMMA SepLocRange ==
    ASSUME NEW S, NEW item \in Seq(S)
    PROVE  SepLoc(item) \in 0..Len(item)
<1>1. FirstEq(item) \in 0..Len(item)
  BY FirstEqFacts
<1>2. SubSeq(item, 2, Len(item)) \in Seq(S)
      /\ Len(SubSeq(item, 2, Len(item))) <= Len(item)
  OBVIOUS
<1>3. FirstEq(SubSeq(item, 2, Len(item))) \in 0..Len(SubSeq(item, 2, Len(item)))
  BY <1>2, FirstEqFacts
<1>4. QED
  BY <1>1, <1>2, <1>3 DEF SepLoc, Position0

(* The key and the value split_at cuts from an item are strings. *)
LEMMA SplitTyped ==
    ASSUME NEW item \in Str
    PROVE  KeyOf(item) \in Str /\ ValueOf(item) \in Str
<1>1. SepLoc(item) \in 0..Len(item)
  BY SepLocRange DEF Str
<1>2. QED
  BY <1>1 DEF KeyOf, ValueOf, Str

(* For a well-formed entry the code's split agrees with the reference    *)
(* key and value, and the tail slice does not panic.                     *)
LEMMA WellFormedSplit ==
    ASSUME NEW item \in Str, WellFormed(item)
    PROVE  /\ Splits(item)
           /\ KeyOf(item) = EntryKey(item)
           /\ ValueOf(item) = EntryValue(item)
<1> DEFINE F == FirstEq(item)
<1>1. F \in 1..Len(item) /\ IsEq(item[F])
  BY FirstEqFacts DEF WellFormed, Str
<1>2. F # 1
  BY <1>1 DEF WellFormed
<1>3. SepLoc(item) = F - 1
  BY <1>1, <1>2 DEF SepLoc, Position0
<1>4. QED
  BY <1>1, <1>3 DEF Splits, KeyOf, ValueOf, EntryKey, EntryValue

(* Appending a record adds exactly that record to the set written. *)
LEMMA RangeAppend ==
    ASSUME NEW S, NEW s \in Seq(S), NEW x
    PROVE  Range(Append(s, x)) = Range(s) \cup {x}
BY DEF Range

(* An envp of BoundedSeq is a sequence no longer than the bound. *)
LEMMA BoundedSeqLen ==
    ASSUME NEW S, NEW n \in Nat, NEW s \in BoundedSeq(S, n)
    PROVE  s \in Seq(S) /\ Len(s) <= n
<1>1. PICK m \in 0..n : s \in [1..m -> S]
  BY DEF BoundedSeq
<1>2. QED
  BY <1>1

-----------------------------------------------------------------------------
(* Every step of the printer keeps the clone a restriction of the        *)
(* baseline, the loop index within envp, and writes records of a known   *)
(* operation, key and value.                                             *)
LEMMA TypeStep == TypeOK /\ [Next]_vars => TypeOK'
<1> SUFFICES ASSUME TypeOK, [Next]_vars PROVE TypeOK'
  OBVIOUS
<1> DEFINE RecT == [op : {"M", "+", "-"}, k : Str, v : Str]
<1>0. /\ envp \in Seq(Entries) /\ Len(envp) <= MaxEnvp
      /\ baseline \in [DOMAIN baseline -> Str] /\ DOMAIN baseline \subseteq Str
      /\ MaxEnvp \in Nat
  BY BoundedSeqLen, EnvAssumption DEF TypeOK
<1>1. CASE DiffEntry
  <2> DEFINE item == envp[i]
             k == KeyOf(item)
             v == ValueOf(item)
  <2>1. item \in Str /\ i \in 1..Len(envp)
    BY <1>0, <1>1, EnvAssumption DEF DiffEntry, TypeOK
  <2>2. k \in Str /\ v \in Str
    BY <2>1, SplitTyped
  <2>3. CASE ~Splits(item)
    BY <1>1, <2>3 DEF DiffEntry, TypeOK
  <2>4. CASE Splits(item) /\ k \in DOMAIN env
    <3>1. Rec("M", k, v) \in RecT
      BY <2>2 DEF Rec
    <3>0. out' = IF env[k] # v THEN Append(out, Rec("M", k, v)) ELSE out
      BY <1>1, <2>4, Zenon DEF DiffEntry
    <3>2. out' \in Seq(RecT)
      <4>1. Append(out, Rec("M", k, v)) \in Seq(RecT) /\ out \in Seq(RecT)
        BY <3>1 DEF TypeOK
      <4>2. QED
        BY <3>0, <4>1
    <3>3. env' = WithoutKey(env, k)
      BY <1>1, <2>4 DEF DiffEntry, RemoveFound
    <3>4. DOMAIN env' \subseteq DOMAIN baseline /\ env' = [x \in DOMAIN env' |-> baseline[x]]
      BY <3>3 DEF WithoutKey, TypeOK
    <3>5. i' \in 1..(MaxEnvp + 1) /\ UNCHANGED <<baseline, envp, phase>>
      BY <1>0, <1>1, <2>1, <2>4 DEF DiffEntry
    <3>6. QED
      BY <3>2, <3>4, <3>5 DEF TypeOK
  <2>5. CASE Splits(item) /\ k \notin DOMAIN env
    <3>1. Rec("+", k, v) \in RecT
      BY <2>2 DEF Rec
    <3>0. out' = Append(out, Rec("+", k, v)) /\ UNCHANGED <<env, baseline, envp, phase>>
      BY <1>1, <2>5, Zenon DEF DiffEntry
    <3>2. out' \in Seq(RecT) /\ UNCHANGED <<env, baseline, envp, phase>>
      BY <3>0, <3>1 DEF TypeOK
    <3>3. i' \in 1..(MaxEnvp + 1)
      BY <1>0, <1>1, <2>1, <2>5 DEF DiffEntry
    <3>4. QED
      BY <3>2, <3>3 DEF TypeOK
  <2>6. QED
    BY <2>3, <2>4, <2>5
<1>2. CASE EmitRemoved
  <2>1. PICK k \in DOMAIN env : /\ out' = Append(out, Rec("-", k, env[k]))
                                /\ env' = WithoutKey(env, k)
    BY <1>2 DEF EmitRemoved
  <2>2. Rec("-", k, env[k]) \in RecT
    BY <1>0 DEF Rec, TypeOK
  <2>3. DOMAIN env' \subseteq DOMAIN baseline /\ env' = [x \in DOMAIN env' |-> baseline[x]]
    BY <2>1 DEF WithoutKey, TypeOK
  <2>4. QED
    BY <1>2, <2>1, <2>2, <2>3 DEF EmitRemoved, TypeOK
<1>3. CASE EnvpDone \/ RemovedDone \/ Terminated \/ UNCHANGED vars
  BY <1>3 DEF EnvpDone, RemovedDone, Terminated, TypeOK, vars
<1>4. QED
  BY <1>1, <1>2, <1>3 DEF Next

(* The printer starts with the clone equal to the baseline. *)
LEMMA TypeInit == Init => TypeOK
<1> SUFFICES ASSUME Init PROVE TypeOK
  OBVIOUS
<1>1. baseline \in [DOMAIN baseline -> Str] /\ MaxEnvp \in Nat
  BY EnvAssumption DEF Init
<1>2. QED
  BY <1>1, EnvAssumption DEF Init, TypeOK

(* Every reachable state of print_execve_trace's diff is well typed. *)
THEOREM TypeCorrect == Spec => []TypeOK
BY TypeInit, TypeStep, PTL DEF Spec

-----------------------------------------------------------------------------
(* The reference records of a set of entries are those of its members. *)
LEMMA ChangesAdd ==
    ASSUME NEW D, NEW e
    PROVE  Changes(D \cup {e}) = Changes(D) \cup Changes({e})
BY DEF Changes

(* The records of one entry: "+" for a new key, "M" for a changed value, *)
(* none for an unchanged one.                                             *)
LEMMA ChangesOne ==
    ASSUME NEW e
    PROVE  Changes({e}) =
             IF EntryKey(e) \notin DOMAIN baseline
             THEN {Rec("+", EntryKey(e), EntryValue(e))}
             ELSE IF baseline[EntryKey(e)] # EntryValue(e)
                  THEN {Rec("M", EntryKey(e), EntryValue(e))}
                  ELSE {}
BY DEF Changes

(* envp never changes, so neither does the hypothesis on it. *)
LEMMA CleanStable ==
    ASSUME envp' = envp PROVE Clean' = Clean
BY DEF Clean, DistinctKeys, WellFormed, Range, EntryKey, FirstEq, IsEq

(* The first loop meets every entry with a key it has not seen before. *)
LEMMA FreshKey ==
    ASSUME TypeOK, Clean, NEW j \in 1..Len(envp), i \in 1..j
    PROVE  EntryKey(envp[j]) \notin DoneKeys
<1>1. envp \in Seq(Entries)
  BY BoundedSeqLen, EnvAssumption DEF TypeOK
<1>2. \A m \in 1..(i - 1) : EntryKey(envp[m]) # EntryKey(envp[j])
  BY <1>1 DEF Clean, DistinctKeys
<1>3. QED
  BY <1>2 DEF DoneKeys, Done

(* The reference records of the handled entries depend on the baseline *)
(* only, which the printer never changes.                                *)
LEMMA ChangesPrime ==
    ASSUME baseline' = baseline
    PROVE  Changes(Done)' = Changes(Done')
BY DEF Changes, EntryKey, EntryValue, FirstEq, IsEq, Rec

(* A step that leaves the baseline, envp, the index and the clone alone   *)
(* leaves every set the invariant is stated with alone.                   *)
LEMMA FrameSets ==
    ASSUME UNCHANGED <<baseline, envp, i, env>>
    PROVE  /\ Done' = Done /\ DoneKeys' = DoneKeys
           /\ Changes(Done)' = Changes(Done) /\ Removed' = Removed
BY DEF Done, DoneKeys, Changes, Removed, EntryKey, EntryValue, FirstEq, IsEq, Rec

(* Each step of the two loops keeps the loop invariant, for a clean envp. *)
LEMMA DiffStep ==
    ASSUME TypeOK, TypeOK', Clean, DiffCore, [Next]_vars
    PROVE  DiffCore'
<1>0. /\ envp \in Seq(Entries) /\ Entries \subseteq Str
      /\ baseline \in [DOMAIN baseline -> Str]
  BY BoundedSeqLen, EnvAssumption DEF TypeOK
<1>1. CASE DiffEntry
  <2> DEFINE item == envp[i]
             k == EntryKey(item)
             v == EntryValue(item)
  <2>1. i \in 1..Len(envp) /\ phase = "envp" /\ item \in Range(envp) /\ item \in Str
    BY <1>0, <1>1 DEF DiffEntry, Range, DiffCore
  <2>2. Splits(item) /\ KeyOf(item) = k /\ ValueOf(item) = v
    BY <2>1, WellFormedSplit DEF Clean
  <2>3. /\ i' = i + 1 /\ phase' = "envp" /\ UNCHANGED <<baseline, envp>>
        /\ IF k \in DOMAIN env
           THEN /\ out' = IF env[k] # v THEN Append(out, Rec("M", k, v)) ELSE out
                /\ env' = WithoutKey(env, k)
           ELSE /\ out' = Append(out, Rec("+", k, v))
                /\ env' = env
    BY <1>1, <2>1, <2>2, Zenon DEF DiffEntry, RemoveFound
  <2>4. Done' = Done \cup {item} /\ DoneKeys' = DoneKeys \cup {k}
    BY <2>1, <2>3 DEF Done, DoneKeys
  <2>5. k \notin DoneKeys
    BY <2>1, FreshKey
  <2>6. k \in DOMAIN env <=> k \in DOMAIN baseline
    BY <2>1, <2>5 DEF DiffCore
  <2>7. Removed = {} /\ Range(out) = Changes(Done)
    BY <2>1 DEF DiffCore, Removed
  <2>8. Changes(Done') = Changes(Done) \cup Changes({item})
    BY <2>4, ChangesAdd
  <2>9. CASE k \in DOMAIN baseline
    <3>1. env[k] = baseline[k]
      BY <2>6, <2>9 DEF TypeOK
    <3>2. DOMAIN env' = DOMAIN baseline \ DoneKeys'
      BY <2>1, <2>3, <2>4, <2>6, <2>9 DEF DiffCore, WithoutKey
    <3>3. Removed' = {}
      BY <2>3, <3>2 DEF Removed
    <3>4. Range(out') = Changes(Done) \cup Changes({item})
      <4>1. out \in Seq([op : {"M", "+", "-"}, k : Str, v : Str])
        BY DEF TypeOK
      <4>2. CASE baseline[k] # v
        <5>1. out' = Append(out, Rec("M", k, v))
          BY <2>3, <2>6, <2>9, <3>1, <4>2
        <5>2. Changes({item}) = {Rec("M", k, v)}
          BY <2>9, <4>2, ChangesOne
        <5>3. Range(out') = Range(out) \cup {Rec("M", k, v)}
          BY <5>1, <4>1, RangeAppend
        <5>4. QED
          BY <2>7, <5>2, <5>3
      <4>3. CASE baseline[k] = v
        <5>1. out' = out
          BY <2>3, <2>6, <2>9, <3>1, <4>3
        <5>2. Changes({item}) = {}
          BY <2>9, <4>3, ChangesOne
        <5>3. QED
          BY <2>7, <5>1, <5>2
      <4>4. QED
        BY <4>2, <4>3
    <3>5. Changes(Done)' = Changes(Done')
      BY <2>3, ChangesPrime
    <3>6. QED
      BY <2>1, <2>3, <2>8, <3>2, <3>3, <3>4, <3>5 DEF DiffCore
  <2>10. CASE k \notin DOMAIN baseline
    <3>1. DOMAIN env' = DOMAIN baseline \ DoneKeys'
      BY <2>1, <2>3, <2>4, <2>6, <2>10 DEF DiffCore
    <3>2. Removed' = {}
      BY <2>3, <3>1 DEF Removed
    <3>3. Range(out') = Changes(Done) \cup Changes({item})
      <4>1. out \in Seq([op : {"M", "+", "-"}, k : Str, v : Str])
        BY DEF TypeOK
      <4>2. out' = Append(out, Rec("+", k, v))
        BY <2>3, <2>6, <2>10
      <4>3. Changes({item}) = {Rec("+", k, v)}
        BY <2>10, ChangesOne
      <4>4. Range(out') = Range(out) \cup {Rec("+", k, v)}
        BY <4>1, <4>2, RangeAppend
      <4>5. QED
        BY <2>7, <4>3, <4>4
    <3>4. Changes(Done)' = Changes(Done')
      BY <2>3, ChangesPrime
    <3>5. QED
      BY <2>1, <2>3, <2>8, <3>1, <3>2, <3>3, <3>4 DEF DiffCore
  <2>11. QED
    BY <2>9, <2>10
<1>2. CASE EnvpDone
  <2>1. UNCHANGED <<baseline, envp, i, env, out>> /\ phase' = "removed"
        /\ phase = "envp" /\ i > Len(envp)
    BY <1>2 DEF EnvpDone
  <2>2. QED
    BY <2>1, FrameSets DEF DiffCore
<1>3. CASE EmitRemoved
  <2>1. PICK k \in DOMAIN env : /\ out' = Append(out, Rec("-", k, env[k]))
                                /\ env' = WithoutKey(env, k)
    BY <1>3 DEF EmitRemoved
  <2>2. /\ phase = "removed" /\ UNCHANGED <<baseline, envp, i, phase>>
        /\ Done' = Done /\ DoneKeys' = DoneKeys
    BY <1>3 DEF EmitRemoved, Done, DoneKeys
  <2>3. env[k] = baseline[k] /\ k \in DOMAIN baseline \ DoneKeys
    BY <2>1, <2>2 DEF TypeOK, DiffCore
  <2>4. DOMAIN env' = DOMAIN env \ {k}
    BY <2>1 DEF WithoutKey
  <2>5. Removed' = Removed \cup {Rec("-", k, baseline[k])}
    BY <2>2, <2>3, <2>4 DEF Removed
  <2>6. Range(out') = Range(out) \cup {Rec("-", k, baseline[k])}
    BY <2>1, <2>3, RangeAppend DEF TypeOK
  <2>7. Changes(Done)' = Changes(Done)
    BY <2>2, ChangesPrime
  <2>8. QED
    BY <2>2, <2>3, <2>4, <2>5, <2>6, <2>7 DEF DiffCore
<1>4. CASE RemovedDone
  <2>1. UNCHANGED <<baseline, envp, i, env, out>> /\ phase' = "done"
        /\ phase = "removed" /\ DOMAIN env = {}
    BY <1>4 DEF RemovedDone
  <2>2. QED
    BY <2>1, FrameSets DEF DiffCore
<1>5. CASE Terminated \/ UNCHANGED vars
  <2>1. UNCHANGED vars
    BY <1>5 DEF Terminated
  <2>2. QED
    BY <2>1, FrameSets DEF vars, DiffCore
<1>6. QED
  BY <1>1, <1>2, <1>3, <1>4, <1>5 DEF Next

(* Before the first entry nothing is handled and nothing is written. *)
LEMMA DiffInitial == Init => DiffInv
<1> SUFFICES ASSUME Init PROVE DiffInv
  OBVIOUS
<1>1. TypeOK
  BY TypeInit
<1>2. Done = {} /\ DoneKeys = {}
  BY DEF Init, Done, DoneKeys
<1>3. Changes(Done) = {} /\ Removed = {} /\ Range(out) = {}
  BY <1>2 DEF Init, Changes, Removed, Range
<1>4. envp \in Seq(Entries)
  BY <1>1, BoundedSeqLen, EnvAssumption DEF TypeOK
<1>5. i \in 1..(Len(envp) + 1) /\ phase = "envp"
  BY <1>4 DEF Init
<1>6. DOMAIN env = DOMAIN baseline \ DoneKeys
  BY <1>2 DEF Init
<1>7. Range(out) = Changes(Done) \cup Removed
  BY <1>3
<1>8. QED
  BY <1>1, <1>5, <1>6, <1>7 DEF DiffInv, DiffCore

(* Every step keeps DiffInv: envp, and so the hypothesis, never changes. *)
LEMMA DiffInvStep == DiffInv /\ [Next]_vars => DiffInv'
<1> SUFFICES ASSUME DiffInv, [Next]_vars, Clean' PROVE DiffCore'
  BY TypeStep DEF DiffInv
<1>1. envp' = envp
  BY DEF Next, vars, DiffEntry, EnvpDone, EmitRemoved, RemovedDone, Terminated
<1>2. Clean
  BY <1>1, CleanStable
<1>3. QED
  BY <1>2, TypeStep, DiffStep DEF DiffInv

(* When the second loop is over, the records written are the reference *)
(* diff.                                                                *)
LEMMA DiffDone ==
    ASSUME TypeOK, Clean, DiffCore, phase = "done"
    PROVE  Range(out) = ReferenceDiff
<1>1. envp \in Seq(Entries)
  BY BoundedSeqLen, EnvAssumption DEF TypeOK
<1>2. Done = Range(envp)
  BY <1>1 DEF DiffCore, Done, Range
<1>3. DoneKeys = EnvpKeys /\ DOMAIN env = {}
  BY <1>2 DEF DiffCore, DoneKeys, EnvpKeys
<1>4. Removed = {Rec("-", k, baseline[k]) : k \in DOMAIN baseline \ EnvpKeys}
  BY <1>3 DEF Removed
<1>5. QED
  BY <1>2, <1>4 DEF DiffCore, Changes, ReferenceDiff

(* For every baseline environment and every envp of well-formed entries *)
(* with distinct keys, print_execve_trace's diff, once done, reports     *)
(* exactly the added, modified and removed variables of the reference.   *)
THEOREM DiffMatchesReferenceInvariant == Spec => []DiffMatchesReference
<1>1. DiffInv => DiffMatchesReference
  BY DiffDone DEF DiffInv, DiffMatchesReference, Clean
<1>2. QED
  BY <1>1, DiffInitial, DiffInvStep, PTL DEF Spec
-----------------------------------------------------------------------------
(* RemovedExactlyUnnamed drops DistinctKeys.  Its loop invariant RemCore  *)
(* keeps the clone part of DiffCore, which still holds when a key comes   *)
(* twice: the second entry finds its key already out of the clone, and    *)
(* prints "+" with the clone unchanged.  Of the records it keeps only the *)
(* "-" ones, which the first loop never writes.                           *)
WFAll == \A e \in Range(envp) : WellFormed(e)

RemCore ==
    /\ phase \in {"envp", "removed", "done"}
    /\ i \in 1..(Len(envp) + 1)
    /\ phase # "envp" => i = Len(envp) + 1
    /\ DOMAIN env \subseteq DOMAIN baseline \ DoneKeys
    /\ phase = "envp" => DOMAIN env = DOMAIN baseline \ DoneKeys
    /\ phase = "done" => DOMAIN env = {}
    /\ RemovedRecords = Removed

RemInv == TypeOK /\ (WFAll => RemCore)

(* Appending a record adds it to the "-" records exactly when it is one. *)
LEMMA MinusAppend ==
    ASSUME NEW S, NEW s \in Seq(S), NEW r
    PROVE  {x \in Range(Append(s, r)) : x.op = "-"}
             = {x \in Range(s) : x.op = "-"} \cup {x \in {r} : x.op = "-"}
BY RangeAppend

(* envp never changes, so neither does the hypothesis on it. *)
LEMMA WFStable ==
    ASSUME envp' = envp PROVE WFAll' = WFAll
BY DEF WFAll, WellFormed, Range, FirstEq, IsEq

(* Each step of the two loops keeps RemCore, for well-formed entries. *)
LEMMA RemStep ==
    ASSUME TypeOK, WFAll, RemCore, [Next]_vars
    PROVE  RemCore'
<1>0. /\ envp \in Seq(Entries) /\ Entries \subseteq Str
      /\ out \in Seq([op : {"M", "+", "-"}, k : Str, v : Str])
  BY BoundedSeqLen, EnvAssumption DEF TypeOK
<1>1. CASE DiffEntry
  <2> DEFINE item == envp[i]
             k == EntryKey(item)
             v == EntryValue(item)
  <2>1. i \in 1..Len(envp) /\ phase = "envp" /\ item \in Range(envp) /\ item \in Str
    BY <1>0, <1>1 DEF DiffEntry, Range, RemCore
  <2>2. Splits(item) /\ KeyOf(item) = k /\ ValueOf(item) = v
    BY <2>1, WellFormedSplit DEF WFAll
  <2>3. /\ i' = i + 1 /\ phase' = "envp" /\ UNCHANGED <<baseline, envp>>
        /\ IF k \in DOMAIN env
           THEN /\ out' = IF env[k] # v THEN Append(out, Rec("M", k, v)) ELSE out
                /\ env' = WithoutKey(env, k)
           ELSE /\ out' = Append(out, Rec("+", k, v))
                /\ env' = env
    BY <1>1, <2>1, <2>2, Zenon DEF DiffEntry, RemoveFound
  <2>4. DoneKeys' = DoneKeys \cup {k}
    BY <2>1, <2>3 DEF Done, DoneKeys
  <2>5. DOMAIN env = DOMAIN baseline \ DoneKeys
    BY <2>1 DEF RemCore
  <2>6. DOMAIN env' = DOMAIN baseline \ DoneKeys'
    <3>1. CASE k \in DOMAIN env
      BY <2>3, <2>4, <2>5, <3>1 DEF WithoutKey
    <3>2. CASE k \notin DOMAIN env
      BY <2>3, <2>4, <2>5, <3>2
    <3>3. QED
      BY <3>1, <3>2
  <2>7. Removed = {} /\ Removed' = {}
    BY <2>3, <2>5, <2>6 DEF Removed
  <2>8. RemovedRecords' = RemovedRecords
    <3>1. CASE k \in DOMAIN env /\ env[k] # v
      <4>1. out' = Append(out, Rec("M", k, v))
        BY <2>3, <3>1
      <4>2. QED
        BY <1>0, <4>1, MinusAppend DEF RemovedRecords, Rec
    <3>2. CASE k \in DOMAIN env /\ env[k] = v
      BY <2>3, <3>2 DEF RemovedRecords
    <3>3. CASE k \notin DOMAIN env
      <4>1. out' = Append(out, Rec("+", k, v))
        BY <2>3, <3>3
      <4>2. QED
        BY <1>0, <4>1, MinusAppend DEF RemovedRecords, Rec
    <3>4. QED
      BY <3>1, <3>2, <3>3
  <2>9. QED
    BY <2>1, <2>3, <2>6, <2>7, <2>8 DEF RemCore
<1>2. CASE EnvpDone
  <2>1. UNCHANGED <<baseline, envp, i, env, out>> /\ phase' = "removed"
        /\ phase = "envp" /\ i > Len(envp)
    BY <1>2 DEF EnvpDone
  <2>2. QED
    BY <2>1, FrameSets DEF RemCore, RemovedRecords
<1>3. CASE EmitRemoved
  <2>1. PICK k \in DOMAIN env : /\ out' = Append(out, Rec("-", k, env[k]))
                                /\ env' = WithoutKey(env, k)
    BY <1>3 DEF EmitRemoved
  <2>2. /\ phase = "removed" /\ UNCHANGED <<baseline, envp, i, phase>>
        /\ Done' = Done /\ DoneKeys' = DoneKeys
    BY <1>3 DEF EmitRemoved, Done, DoneKeys
  <2>3. env[k] = baseline[k] /\ k \in DOMAIN baseline \ DoneKeys
    BY <2>1, <2>2 DEF TypeOK, RemCore
  <2>4. DOMAIN env' = DOMAIN env \ {k}
    BY <2>1 DEF WithoutKey
  <2>5. Removed' = Removed \cup {Rec("-", k, baseline[k])}
    BY <2>2, <2>3, <2>4 DEF Removed
  <2>6. RemovedRecords' = RemovedRecords \cup {Rec("-", k, baseline[k])}
    BY <1>0, <2>1, <2>3, MinusAppend DEF RemovedRecords, Rec
  <2>7. QED
    BY <2>2, <2>3, <2>4, <2>5, <2>6 DEF RemCore
<1>4. CASE RemovedDone
  <2>1. UNCHANGED <<baseline, envp, i, env, out>> /\ phase' = "done"
        /\ phase = "removed" /\ DOMAIN env = {}
    BY <1>4 DEF RemovedDone
  <2>2. QED
    BY <2>1, FrameSets DEF RemCore, RemovedRecords
<1>5. CASE Terminated \/ UNCHANGED vars
  <2>1. UNCHANGED vars
    BY <1>5 DEF Terminated
  <2>2. QED
    BY <2>1, FrameSets DEF vars, RemCore, RemovedRecords
<1>6. QED
  BY <1>1, <1>2, <1>3, <1>4, <1>5 DEF Next

(* Before the first entry nothing is handled and nothing is written. *)
LEMMA RemInitial == Init => RemInv
<1> SUFFICES ASSUME Init PROVE RemInv
  OBVIOUS
<1>1. TypeOK
  BY TypeInit
<1>2. DoneKeys = {}
  BY DEF Init, Done, DoneKeys
<1>3. RemovedRecords = {} /\ Removed = {}
  BY <1>2 DEF Init, RemovedRecords, Removed, Range
<1>4. envp \in Seq(Entries)
  BY <1>1, BoundedSeqLen, EnvAssumption DEF TypeOK
<1>5. i \in 1..(Len(envp) + 1) /\ phase = "envp"
  BY <1>4 DEF Init
<1>6. DOMAIN env = DOMAIN baseline \ DoneKeys
  BY <1>2 DEF Init
<1>7. QED
  BY <1>1, <1>3, <1>5, <1>6 DEF RemInv, RemCore

(* Every step keeps RemInv: envp, and so the hypothesis, never changes. *)
LEMMA RemInvStep == RemInv /\ [Next]_vars => RemInv'
<1> SUFFICES ASSUME RemInv, [Next]_vars, WFAll' PROVE RemCore'
  BY TypeStep DEF RemInv
<1>1. envp' = envp
  BY DEF Next, vars, DiffEntry, EnvpDone, EmitRemoved, RemovedDone, Terminated
<1>2. WFAll
  BY <1>1, WFStable
<1>3. TypeOK /\ RemCore
  BY <1>2 DEF RemInv
<1>4. QED
  BY <1>2, <1>3, RemStep

(* When the second loop is over, the "-" records are those of the        *)
(* baseline keys no entry names.                                         *)
LEMMA RemDone ==
    ASSUME TypeOK, RemCore, phase = "done"
    PROVE  RemovedRecords = {Rec("-", k, baseline[k]) : k \in DOMAIN baseline \ EnvpKeys}
<1>1. envp \in Seq(Entries)
  BY BoundedSeqLen, EnvAssumption DEF TypeOK
<1>2. Done = Range(envp)
  BY <1>1 DEF RemCore, Done, Range
<1>3. DoneKeys = EnvpKeys /\ DOMAIN env = {}
  BY <1>2 DEF RemCore, DoneKeys, EnvpKeys
<1>4. QED
  BY <1>3 DEF RemCore, Removed

(* For every baseline and every envp of well-formed entries, a key given *)
(* twice included, print_execve_trace reports as removed exactly the     *)
(* baseline variables no entry names, whatever the order of the entries: *)
(* the clone loses a key at its first entry and never gets it back.      *)
THEOREM RemovedExactlyUnnamedInvariant == Spec => []RemovedExactlyUnnamed
<1>1. RemInv => RemovedExactlyUnnamed
  BY RemDone DEF RemInv, RemovedExactlyUnnamed, WFAll
<1>2. QED
  BY <1>1, RemInitial, RemInvStep, PTL DEF Spec
=============================================================================
