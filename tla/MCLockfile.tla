----------------------------- MODULE MCLockfile -----------------------------
EXTENDS Lockfile

Pin == [op |-> "==", ver |-> "1"]
From == [op |-> ">=", ver |-> "1"]
T(a, n, src, spec, items, skips) ==
  [alias |-> a, name |-> n, source |-> src, spec |-> spec,
   stub |-> [items |-> items, skips |-> skips]]

Httpx == T(1, 1, "registry", Pin, {"async"}, FALSE)
HttpxGrown == T(1, 1, "registry", Pin, {"async", "record"}, TRUE)
HttpxAgain == T(2, 1, "registry", From, {"async"}, FALSE)
Util == T(2, 2, "git", NoSpec, {"func"}, TRUE)
Hyphen == T(1, 3, "registry", From, {"func"}, FALSE)
BadStub == [Httpx EXCEPT !.alias = 2, !.stub = Broken]

R(ts, loop, header) == [targets |-> ts, loop |-> loop, header |-> header]

\* An import, the same after an upstream change, next to another package,
\* twice; then requests Plan refuses at once, because of two equal aliases, and
\* at the second target.
MCRequests ==
  {R(<<Httpx>>, "per-call", FALSE), R(<<HttpxGrown>>, "persistent", TRUE),
   R(<<Util, Httpx>>, "per-call", FALSE), R(<<Httpx, HttpxAgain>>, "per-call", FALSE),
   R(<<Httpx, [Util EXCEPT !.alias = 1]>>, "per-call", FALSE),
   R(<<Util, Hyphen>>, "per-call", FALSE), R(<<Httpx, BadStub>>, "per-call", FALSE)}
=============================================================================
