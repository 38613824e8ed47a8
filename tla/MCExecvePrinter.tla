-------------------------- MODULE MCExecvePrinter --------------------------
(* Instances of ExecvePrinter for TLC. *)
EXTENDS ExecvePrinter

(* Well-formed entries with keys a and b and values 1 and 2, an entry     *)
(* without '=', one with an empty value, and one whose key starts with '='. *)
MCEntries ==
    {<<"a", "=", "1">>, <<"a", "=", "2">>, <<"b", "=", "2">>, <<"b", "=">>,
     <<"a">>, <<"=", "a", "=", "1">>}

(* Every baseline over keys a and b with values 1 and 2. *)
MCBaselines ==
    UNION {[D -> {<<"1">>, <<"2">>}] : D \in SUBSET {<<"a">>, <<"b">>}}
=============================================================================
