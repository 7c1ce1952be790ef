---------------------------- MODULE MCIdempotency ----------------------------
(* Instances of Idempotency for TLC: clients that repeat the request id,   *)
(* clients that do not, a login that authLimiter may turn away, a DELETE   *)
(* that succeeds with res.send, and a PATCH on its path, which has no      *)
(* handler and is answered 404.                                            *)
EXTENDS Idempotency, TLC

CONSTANTS login, product, k1, id1

Req(m, p, id) == [key |-> k1, method |-> m, path |-> p, requestId |-> id]

MCLogin == [method |-> "POST", path |-> login]
MCDelete == [method |-> "DELETE", path |-> product]
MCRoutes == {MCLogin, MCDelete}
MCSilent == {MCDelete}
MCLimited == {MCLogin}

Login == Req("POST", login, id1)
LoginWithoutId == Req("POST", login, Absent)
Delete == Req("DELETE", product, id1)
Patch == Req("PATCH", product, id1)

MCAll == {Login, LoginWithoutId, Delete, Patch}
MCPost == {Login}
MCSymmetry == Permutations(Attempts)

\* The attempts share their storage key, or all but one: attempts that share none touch
\* no common state.
MCInit == /\ Init
          /\ {input[a] : a \in Attempts} \in {{Login}, {Login, LoginWithoutId}, {Delete, Patch}}
          /\ Cardinality({a \in Attempts : input[a] \in {LoginWithoutId, Patch}}) <= 1
MCSpec == MCInit /\ [][Next]_vars
=============================================================================
