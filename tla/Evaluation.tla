----------------------------- MODULE Evaluation -----------------------------
(***************************************************************************)
(* A package that keeps no state of its own is modelled by the functions   *)
(* it exports, and explored by evaluating one of them on one input.        *)
(* Several such packages share one run: subject says whose call this is.   *)
(***************************************************************************)
EXTENDS Integers, Sequences, FiniteSets, TLC

VARIABLES
  subject, \* the package called
  in,      \* the argument of the call
  out      \* <<>> before the call, <<its result>> after it

evalVars == <<subject, in, out>>

\* A call of package s with an argument of inputs is about to be made.
Called(s, inputs) == subject = s /\ in \in inputs /\ out = <<>>

\* The call is made: Result is what the package computes from its argument.
Evaluate(s, Result(_)) ==
  subject = s /\ out = <<>> /\ out' = <<Result(in)>> /\ UNCHANGED <<subject, in>>

\* Package s has returned.
Returned(s) == subject = s /\ out # <<>>

\* The result of a parser that refuses its input.
Bad == [ok |-> FALSE]

\* First and last position of e in s, 0 when it does not occur.
First(s, e) == IF \E i \in DOMAIN s : s[i] = e
               THEN CHOOSE i \in DOMAIN s : s[i] = e /\ \A j \in 1..(i - 1) : s[j] # e ELSE 0
LastOf(s, e) == IF \E i \in DOMAIN s : s[i] = e
                THEN CHOOSE i \in DOMAIN s : s[i] = e /\ \A j \in (i + 1)..Len(s) : s[j] # e ELSE 0
Upto(s, i) == SubSeq(s, 1, i)
From(s, i) == SubSeq(s, i, Len(s))

\* The members of a finite set of numbers, smallest first.
Ascending(S) == [k \in 1..Cardinality(S) |-> CHOOSE c \in S : Cardinality({d \in S : d < c}) = k - 1]

\* strings.Split(s, sep), with any member of seps as the separator.
Split(s, seps) ==
  LET cut == {0, Len(s) + 1} \cup {i \in DOMAIN s : s[i] \in seps}
      nth == Ascending(cut)
  IN [k \in 1..(Cardinality(cut) - 1) |-> SubSeq(s, nth[k] + 1, nth[k + 1] - 1)]

\* The elements of s at the positions ps, in their order.
KeptAt(s, ps) == [k \in 1..Cardinality(ps) |-> s[Ascending(ps)[k]]]

\* sort.SliceStable: equal elements keep their order.  An element's place is the
\* number of elements that go before it.
StableSort(s, Less(_, _)) ==
  LET place(i) == Cardinality({j \in DOMAIN s : Less(s[j], s[i]) \/ (~Less(s[i], s[j]) /\ j < i)})
  IN [k \in DOMAIN s |-> s[CHOOSE i \in DOMAIN s : place(i) = k - 1]]

\* strings.TrimSpace: blanks go at both ends.
Trimmed(s) ==
  LET kept == {i \in DOMAIN s : s[i] # " "}
  IN IF kept = {} THEN <<>>
     ELSE SubSeq(s, CHOOSE i \in kept : \A j \in kept : i <= j,
                    CHOOSE i \in kept : \A j \in kept : j <= i)
=============================================================================
