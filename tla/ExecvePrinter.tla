--------------------------- MODULE ExecvePrinter ---------------------------
(***************************************************************************)
(* The environment diff of print_execve_trace (src/printer.rs).            *)
(*                                                                         *)
(* For an exec event it walks exec_data.envp in order, splits each entry  *)
(* at its separator, and compares it with a clone of the baseline         *)
(* environment: a changed value is printed "M", an unknown key "+", and a  *)
(* key found is removed from the clone; what is left of the clone is then *)
(* printed "-" in the HashMap's iteration order.                          *)
(*                                                                         *)
(* Strings are sequences over a small alphabet: the position of the '='   *)
(* bytes is what the parsing is about.  Colours, quoting and the errno    *)
(* suffix are formatting and are left out.                                *)
(***************************************************************************)
EXTENDS Naturals, Sequences, FiniteSets

CONSTANTS
    Entries,    \* envp entries the tracee may pass (strings over Chars)
    Baselines,  \* baseline environments: functions from keys to values
    MaxEnvp     \* bound on the length of envp

Chars == {"=", "a", "b", "1", "2"}
Str == Seq(Chars)

ASSUME EnvAssumption ==
    /\ Entries \subseteq Str
    /\ \A b \in Baselines : DOMAIN b \subseteq Str /\ b \in [DOMAIN b -> Str]
    /\ MaxEnvp \in Nat

VARIABLES
    baseline,  \* the BaselineInfo environment (read only)
    envp,      \* exec_data.envp
    env,       \* the clone of the baseline the loop removes keys from
    i,         \* the envp index the loop is at
    out,       \* the diff records written: [op, k, v]
    phase      \* "envp", "removed", "done" or "panicked"

vars == <<baseline, envp, env, i, out, phase>>

-----------------------------------------------------------------------------
IsEq(c) == c = "="

(* The 1-based index of the first '=' of s, 0 when there is none: the    *)
(* position() of the code.  It asks for a first index directly, so that  *)
(* the index found is '=' with none before it by definition.             *)
FirstEq(s) ==
    IF \E j \in 1..Len(s) : IsEq(s[j]) /\ \A m \in 1..(j - 1) : ~IsEq(s[m])
    THEN CHOOSE j \in 1..Len(s) : IsEq(s[j]) /\ \A m \in 1..(j - 1) : ~IsEq(s[m])
    ELSE 0

(* The 0-based index position() finds in s, or the fallback item.len(). *)
Position0(s, fallback) ==
    IF FirstEq(s) = 0 THEN fallback ELSE FirstEq(s) - 1

(* The values of a sequence, and the sequences over S of length <= n. *)
Range(f) == {f[x] : x \in DOMAIN f}
BoundedSeq(S, n) == UNION {[1..m -> S] : m \in 0..n}

(* The sep_loc of the code: the first '='; when that is the first byte,  *)
(* the position of the next '=' in item.skip(1), i.e. counted from the   *)
(* second byte; the length of the item when there is none.              *)
SepLoc(item) ==
    IF Position0(item, Len(item)) # 0 THEN Position0(item, Len(item))
    ELSE Position0(SubSeq(item, 2, Len(item)), Len(item))

(* split_at(sep_loc) and &tail[1..]; the slice panics on an empty tail. *)
Splits(item) == SepLoc(item) < Len(item)
KeyOf(item) == SubSeq(item, 1, SepLoc(item))
ValueOf(item) == SubSeq(item, SepLoc(item) + 2, Len(item))

Rec(op, k, v) == [op |-> op, k |-> k, v |-> v]
WithoutKey(f, k) == [x \in DOMAIN f \ {k} |-> f[x]]

(* Mutants: the key found in the baseline is left in the clone; its value *)
(* is cleared in the clone instead of the key being removed.               *)
KeepFound(e, k) == e
ClearFound(e, k) == [x \in DOMAIN e |-> IF x = k THEN <<>> ELSE e[x]]

(* env.remove(k): a key of the tracee is not reported as removed. *)
RemoveFound(e, k) == WithoutKey(e, k)

-----------------------------------------------------------------------------
Init ==
    /\ baseline \in Baselines
    /\ envp \in BoundedSeq(Entries, MaxEnvp)
    /\ env = baseline
    /\ i = 1
    /\ out = <<>>
    /\ phase = "envp"

(* Mutant: `env.remove(k)` moved inside the `if orig_v != v` block, so an *)
(* unchanged variable stays in the clone.                                 *)
DiffEntryRemoveOnChange ==
    /\ phase = "envp"
    /\ i <= Len(envp)
    /\ LET item == envp[i] IN
       \/ /\ ~Splits(item)
          /\ phase' = "panicked"
          /\ UNCHANGED <<env, i, out>>
       \/ /\ Splits(item)
          /\ LET k == KeyOf(item)
                 v == ValueOf(item)
             IN  IF k \in DOMAIN env
                 THEN /\ out' = IF env[k] # v THEN Append(out, Rec("M", k, v)) ELSE out
                      /\ env' = IF env[k] # v THEN RemoveFound(env, k) ELSE env
                 ELSE /\ out' = Append(out, Rec("+", k, v))
                      /\ UNCHANGED env
          /\ i' = i + 1
          /\ UNCHANGED phase
    /\ UNCHANGED <<baseline, envp>>

(* One iteration of `for item in exec_data.envp.iter()`. *)
DiffEntry ==
    /\ phase = "envp"
    /\ i <= Len(envp)
    /\ LET item == envp[i] IN
       \/ /\ ~Splits(item)
          /\ phase' = "panicked"
          /\ UNCHANGED <<env, i, out>>
       \/ /\ Splits(item)
          /\ LET k == KeyOf(item)
                 v == ValueOf(item)
             IN  IF k \in DOMAIN env
                 THEN /\ out' = IF env[k] # v THEN Append(out, Rec("M", k, v)) ELSE out
                      /\ env' = RemoveFound(env, k)
                 ELSE /\ out' = Append(out, Rec("+", k, v))
                      /\ UNCHANGED env
          /\ i' = i + 1
          /\ UNCHANGED phase
    /\ UNCHANGED <<baseline, envp>>

EnvpDone ==
    /\ phase = "envp"
    /\ i > Len(envp)
    /\ phase' = "removed"
    /\ UNCHANGED <<baseline, envp, env, i, out>>

(* One iteration of `for (k, v) in env.iter()`, in any order. *)
EmitRemoved ==
    /\ phase = "removed"
    /\ \E k \in DOMAIN env :
          /\ out' = Append(out, Rec("-", k, env[k]))
          /\ env' = WithoutKey(env, k)
    /\ UNCHANGED <<baseline, envp, i, phase>>

RemovedDone ==
    /\ phase = "removed"
    /\ DOMAIN env = {}
    /\ phase' = "done"
    /\ UNCHANGED <<baseline, envp, env, i, out>>

(* The printer has returned or panicked. *)
Terminated ==
    /\ phase \in {"done", "panicked"}
    /\ UNCHANGED vars

Next == DiffEntry \/ EnvpDone \/ EmitRemoved \/ RemovedDone \/ Terminated

Spec == Init /\ [][Next]_vars

-----------------------------------------------------------------------------
TypeOK ==
    /\ baseline \in Baselines
    /\ envp \in BoundedSeq(Entries, MaxEnvp)
    /\ DOMAIN env \subseteq DOMAIN baseline /\ env = [k \in DOMAIN env |-> baseline[k]]
    /\ i \in 1..(MaxEnvp + 1)
    /\ out \in Seq([op : {"M", "+", "-"}, k : Str, v : Str])
    /\ phase \in {"envp", "removed", "done", "panicked"}

(* An entry as an environment variable: a key of one byte or more, the  *)
(* first '=' after it, and the value.                                     *)
WellFormed(item) ==
    /\ item # <<>> /\ ~IsEq(item[1])
    /\ FirstEq(item) # 0
EntryKey(item) == SubSeq(item, 1, FirstEq(item) - 1)
EntryValue(item) == SubSeq(item, FirstEq(item) + 1, Len(item))
EnvpKeys == {EntryKey(e) : e \in Range(envp)}
DistinctKeys ==
    \A m, n \in DOMAIN envp : m # n => EntryKey(envp[m]) # EntryKey(envp[n])

(* The diff of spec section 8 as sets: keys of the baseline the tracee    *)
(* lacks, keys it adds, and keys whose value it changes.                  *)
ReferenceDiff ==
    {Rec("-", k, baseline[k]) : k \in DOMAIN baseline \ EnvpKeys}
    \cup {Rec("+", EntryKey(e), EntryValue(e)) :
            e \in {e2 \in Range(envp) : EntryKey(e2) \notin DOMAIN baseline}}
    \cup {Rec("M", EntryKey(e), EntryValue(e)) :
            e \in {e2 \in Range(envp) : /\ EntryKey(e2) \in DOMAIN baseline
                                        /\ baseline[EntryKey(e2)] # EntryValue(e2)}}

(* For a tracee environment of well-formed entries with distinct keys,   *)
(* print_execve_trace reports exactly the reference diff: every added,   *)
(* modified and removed variable, and no unchanged one.                   *)
DiffMatchesReference ==
    (phase = "done" /\ (\A e \in Range(envp) : WellFormed(e)) /\ DistinctKeys)
        => Range(out) = ReferenceDiff

(* The "-" records print_execve_trace has written. *)
RemovedRecords == {r \in Range(out) : r.op = "-"}

(* The removal of a found key from the clone (printer.rs 81) for every   *)
(* tracee environment of well-formed entries, a key given twice included: *)
(* once done, the variables reported removed are exactly the baseline    *)
(* variables that no entry names, each with its baseline value, whatever *)
(* the order of the entries and of the HashMap.                          *)
RemovedExactlyUnnamed ==
    (phase = "done" /\ \A e \in Range(envp) : WellFormed(e))
        => RemovedRecords = {Rec("-", k, baseline[k]) : k \in DOMAIN baseline \ EnvpKeys}

(* The comment of the parser: an entry without '=' is taken as a key     *)
(* with an empty value; printing never panics on what a tracee passes.    *)
NoPanic == phase # "panicked"

(* The comment "Find the next equal sign": for an entry starting with '=' *)
(* the key runs to the next '='; key, '=' and value printed rebuild the   *)
(* entry.                                                                 *)
EntryRebuilt ==
    \A r \in Range(out) : r.op # "-" => r.k \o <<"=">> \o r.v \in Range(envp)
=============================================================================
