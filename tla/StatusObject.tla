----------------------------- MODULE StatusObject -----------------------------
(***************************************************************************)
(* StatusObject (status_obj.cc): the process-wide list of how often each   *)
(* path was answered with each response code.                              *)
(***************************************************************************)
EXTENDS Naturals, Sequences, Functions

Entry(n, url, code) == [n |-> n, url |-> url, code |-> code]

Matches(entries, url, code) ==
    {i \in DOMAIN entries : entries[i].url = url /\ entries[i].code = code}

\* The first entry of the path and code is counted up; without one, a new entry
\* is appended.
MutantAddStatusEntry(entries, url, code) ==      \* compares the path alone
    LET same == {i \in DOMAIN entries : entries[i].url = url}
    IN  IF same = {} THEN Append(entries, Entry(1, url, code))
        ELSE LET first == CHOOSE i \in same : \A j \in same : i <= j
             IN  [entries EXCEPT ![first].n = @ + 1]
MutantNotCounted(entries, url, code) ==          \* a new entry starts at 0
    IF Matches(entries, url, code) = {} THEN Append(entries, Entry(0, url, code))
    ELSE entries
AddStatusEntry(entries, url, code) ==
    LET same == Matches(entries, url, code)
    IN  IF same = {} THEN Append(entries, Entry(1, url, code))
        ELSE LET first == CHOOSE i \in same : \A j \in same : i <= j
             IN  [entries EXCEPT ![first].n = @ + 1]

\* getStatusCalls: the sum of all counts.
MutantGetStatusCalls(entries) == Len(entries)    \* counts the entries
GetStatusCalls(entries) ==
    FoldFunction(LAMBDA entry, sum : entry.n + sum, 0, entries)
==============================================================================
