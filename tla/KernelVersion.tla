--------------------------- MODULE KernelVersion ---------------------------
(***************************************************************************)
(* The kernel version check at the start of main (src/main.rs).           *)
(*                                                                         *)
(* is_current_kernel_greater_than takes utsname.release(), cuts it at the  *)
(* first byte that is neither '.' nor an ASCII digit, splits what is left *)
(* on '.', parses the first two pieces with atoi::<u32> and compares the  *)
(* pair with (4, 8).  A piece that does not parse bails, and the `?` at   *)
(* the call site turns the bail into the error main returns; a version   *)
(* below 4.8 only logs a warning.                                          *)
(*                                                                         *)
(* The release string is a sequence of one-character strings: the        *)
(* parsing is what is modelled.                                            *)
(***************************************************************************)
EXTENDS Naturals, Sequences, SequencesExt, FiniteSetsExt

CONSTANTS
    Releases,   \* the release strings uname may return
    NoRelease   \* stands for a failing uname() call

DigitChars == <<"0", "1", "2", "3", "4", "5", "6", "7", "8", "9">>
IsDigit(c) == c \in ToSet(DigitChars)
DigitValue(c) == SelectInSeq(DigitChars, LAMBDA d : d = c) - 1
IsDot(c) == c = "."

(* The digits of u32::MAX, 4294967295. *)
U32MaxDigits == <<"4", "2", "9", "4", "9", "6", "7", "2", "9", "5">>

(* min_support_kver *)
MinSupport == <<4, 8>>

ASSUME ReleasesAssumption ==
    /\ \A r \in Releases : r \in Seq(STRING)
    /\ NoRelease \notin Releases

VARIABLES
    release,  \* what uname() returned, or NoRelease
    verdict   \* "unchecked", "supported", "warned", or "error" when main returns Err

vars == <<release, verdict>>

-----------------------------------------------------------------------------
(* kver: the bytes before position(|c| c != '.' && !is_ascii_digit).     *)
Truncate(kstr) ==
    LET pos == SelectInSeq(kstr, LAMBDA c : ~IsDot(c) /\ ~IsDigit(c))
    IN IF pos = 0 THEN kstr ELSE SubSeq(kstr, 1, pos - 1)

(* The first piece of split(|c| c == '.'), and whether there is a second *)
(* (split yields one piece more than there are separators).            *)
FirstPiece(s) ==
    IF SelectInSeq(s, IsDot) = 0 THEN s ELSE SubSeq(s, 1, SelectInSeq(s, IsDot) - 1)
HasSecondPiece(s) == SelectInSeq(s, IsDot) # 0
AfterFirstDot(s) == SubSeq(s, SelectInSeq(s, IsDot) + 1, Len(s))

(* A piece of digits whose value exceeds u32::MAX: with its leading     *)
(* zeros dropped, longer than ten digits, or ten digits that compare     *)
(* above those of u32::MAX.                                              *)
OverflowsU32(piece) ==
    LET first == SelectInSeq(piece, LAMBDA c : c # "0")
        sig   == IF first = 0 THEN <<>> ELSE SubSeq(piece, first, Len(piece))
    IN \/ Len(sig) > Len(U32MaxDigits)
       \/ /\ Len(sig) = Len(U32MaxDigits)
          /\ \E m \in 1..Len(sig) :
                /\ \A k \in 1..m - 1 : sig[k] = U32MaxDigits[k]
                /\ DigitValue(sig[m]) > DigitValue(U32MaxDigits[m])

(* atoi::<u32> on a piece of digits: None (here -1) when there is no     *)
(* digit or the checked multiply-add overflows, the value otherwise.    *)
Atoi(piece) ==
    IF piece = <<>> \/ OverflowsU32(piece) THEN -1
    ELSE FoldLeft(LAMBDA acc, c : 10 * acc + DigitValue(c), 0, piece)

(* (major, minor) >= min_support, compared as Rust compares tuples. *)
SupportedStrict(major, minor) ==
    major > MinSupport[1] \/ (major = MinSupport[1] /\ minor > MinSupport[2])
Supported(major, minor) ==
    major > MinSupport[1] \/ (major = MinSupport[1] /\ minor >= MinSupport[2])

(* The Result<bool> of is_current_kernel_greater_than as main acts on   *)
(* it: "error" for Err, "warned" for Ok(false), "supported" for Ok(true).*)
Verdict(b) == IF b THEN "supported" ELSE "warned"
KernelCheck(r) ==
    IF r = NoRelease THEN "error"
    ELSE LET kver  == Truncate(r)
             major == Atoi(FirstPiece(kver))
             minor == Atoi(FirstPiece(AfterFirstDot(kver)))
         IN IF major = -1 THEN "error"
            ELSE IF ~HasSecondPiece(kver) \/ minor = -1 THEN "error"
            ELSE Verdict(Supported(major, minor))

Init ==
    /\ release \in Releases \cup {NoRelease}
    /\ verdict = "unchecked"

(* main.rs 64-72: the check runs once; Err ends main, FALSE only warns. *)
Check ==
    /\ verdict = "unchecked"
    /\ verdict' = KernelCheck(release)
    /\ UNCHANGED release

Next == Check

Spec == Init /\ [][Next]_vars

-----------------------------------------------------------------------------
(* The reference: a release is read as "<digits>.<digits>..." with a      *)
(* decimal value for each run of digits, independently of the code's     *)
(* truncate-then-split.                                                    *)
Num(t) == MapThenSumSet(LAMBDA m : DigitValue(t[m]) * 10^(Len(t) - m), 1..Len(t))
IsVersionAt(r, i, j) ==
    /\ 1 <= i /\ i + 2 <= j /\ j <= Len(r)
    /\ \A m \in 1..i : IsDigit(r[m])
    /\ r[i + 1] = "."
    /\ \A m \in i + 2..j : IsDigit(r[m])
    /\ j = Len(r) \/ ~IsDigit(r[j + 1])
ReferenceCheck(r) ==
    IF r # NoRelease /\ \E i, j \in 1..Len(r) : IsVersionAt(r, i, j)
    THEN LET ij == CHOOSE ij \in (1..Len(r)) \X (1..Len(r)) : IsVersionAt(r, ij[1], ij[2])
             maj == Num(SubSeq(r, 1, ij[1]))
             min == Num(SubSeq(r, ij[1] + 2, ij[2]))
         IN Verdict(maj > 4 \/ (maj = 4 /\ min >= 8))
    ELSE "error"

TypeOK ==
    /\ release \in Releases \cup {NoRelease}
    /\ verdict \in {"unchecked", "error", "supported", "warned"}

(* The startup check of main.rs 66 and 125-143 makes main fail exactly   *)
(* for the releases that do not start with <digits>.<digits>, and warns  *)
(* exactly for the versions below 4.8, compared numerically piece by     *)
(* piece ("4.10" is newer than "4.8").                                    *)
CheckMatchesReference ==
    verdict # "unchecked" => verdict = ReferenceCheck(release)
=============================================================================
