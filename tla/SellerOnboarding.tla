-------------------------- MODULE SellerOnboarding --------------------------
(***************************************************************************)
(* POST /sellers/onboard without an Idempotency-Key: authenticate reads    *)
(* the User row on the primary, and onboardSeller decides from that row,   *)
(* creates a Stripe account, records it in the row and asks Stripe for an  *)
(* onboarding link. Nothing is locked from the read to the record.         *)
(***************************************************************************)
CONSTANTS
  Requests,   \* POST /sellers/onboard requests, each sent once
  Users,      \* rows of the User table
  Sellers,    \* the users with role SELLER
  UserOf,     \* UserOf[r]: the user in the token of r
  None

ASSUME RequestsAssumption == /\ Sellers \subseteq Users
                             /\ UserOf \in [Requests -> Users]
                             /\ None \notin Requests

VARIABLES
  pc,         \* pc[r]: where the request r stands
  seen,       \* seen[r]: stripeAccountId in the row that authenticate attached to r
  row,        \* row[u]: stripeAccountId of u, named by the request that created it
  accounts,   \* requests whose account exists at Stripe
  met         \* history, met[r]: requests of the same user that had read the row,
              \* and not yet recorded an account, when r read it

vars == <<pc, seen, row, accounts, met>>

Failed == {"failed", "abandoned", "unlinked"}
Ended  == {"unauthorized", "forbidden", "conflict", "linked"} \cup Failed

TypeOK ==
  /\ pc \in [Requests -> {"sent", "authenticated", "creating", "recorded"} \cup Ended]
  /\ seen \in [Requests -> Requests \cup {None}]
  /\ row \in [Users -> Requests \cup {None}]
  /\ accounts \subseteq Requests
  /\ met \in [Requests -> SUBSET Requests]

Init ==
  /\ pc = [r \in Requests |-> "sent"]
  /\ seen = [r \in Requests |-> None]
  /\ row = [u \in Users |-> None]
  /\ accounts = {}
  /\ met = [r \in Requests |-> {}]

GoTo(r, from, to) == pc[r] = from /\ pc' = [pc EXCEPT ![r] = to]

SameUser(r, q) == UserOf[r] = UserOf[q]

-----------------------------------------------------------------------------
\* The token is good and prisma.user.findUnique returns the row.
Authenticate(r) ==
  /\ GoTo(r, "sent", "authenticated")
  /\ seen' = [seen EXCEPT ![r] = row[UserOf[r]]]
  /\ met' = [met EXCEPT ![r] = {q \in Requests \ {r} :
               SameUser(q, r) /\ pc[q] \in {"authenticated", "creating"}}]
  /\ UNCHANGED <<row, accounts>>

\* No token, a bad one, or a query that fails: the catch makes all of them 401.
RejectUnauthenticated(r) == GoTo(r, "sent", "unauthorized") /\ UNCHANGED <<seen, row, accounts, met>>

\* requireRole('SELLER')
Forbid(r) ==
  /\ UserOf[r] \notin Sellers
  /\ GoTo(r, "authenticated", "forbidden")
  /\ UNCHANGED <<seen, row, accounts, met>>

\* 'Stripe account already exists', also for a seller who never got a link.
RejectExisting(r) ==
  /\ UserOf[r] \in Sellers /\ seen[r] # None
  /\ GoTo(r, "authenticated", "conflict")
  /\ UNCHANGED <<seen, row, accounts, met>>

\* Mutant of CreateAccount: the account in the row is not looked at.
CreateAccountAnyway(r) ==
  /\ UserOf[r] \in Sellers
  /\ GoTo(r, "authenticated", "creating")
  /\ accounts' = accounts \cup {r}
  /\ UNCHANGED <<seen, row, met>>

\* stripe.accounts.create takes effect at Stripe; the answer is under way.
CreateAccount(r) ==
  /\ UserOf[r] \in Sellers /\ seen[r] = None
  /\ GoTo(r, "authenticated", "creating")
  /\ accounts' = accounts \cup {r}
  /\ UNCHANGED <<seen, row, met>>

\* Mutant of RecordAccount: the link is asked for before the row is written.
RecordNothing(r) == GoTo(r, "creating", "recorded") /\ UNCHANGED <<seen, row, accounts, met>>

\* sellerRepository.update overwrites whatever the row has by now.
RecordAccount(r) ==
  /\ GoTo(r, "creating", "recorded")
  /\ row' = [row EXCEPT ![UserOf[r]] = r]
  /\ UNCHANGED <<seen, accounts, met>>

\* stripe.accountLinks.create for the account of r itself, answered 200.
SendLink(r) == GoTo(r, "recorded", "linked") /\ UNCHANGED <<seen, row, accounts, met>>

\* Stripe refuses the account, its answer is lost or the UPDATE fails, Stripe
\* refuses the link; or the process dies. Nothing is undone at Stripe.
Fail(r) ==
  /\ \/ GoTo(r, "authenticated", "failed")
     \/ GoTo(r, "creating", "abandoned")
     \/ GoTo(r, "recorded", "unlinked")
  /\ UNCHANGED <<seen, row, accounts, met>>

Next == \E r \in Requests :
  \/ Authenticate(r) \/ RejectUnauthenticated(r) \/ Forbid(r) \/ RejectExisting(r)
  \/ CreateAccount(r) \/ RecordAccount(r) \/ SendLink(r) \/ Fail(r)

Spec == Init /\ [][Next]_vars

-----------------------------------------------------------------------------
(* Properties.                                                             *)

Overlapped(r, q) == SameUser(r, q) /\ (r \in met[q] \/ q \in met[r])

\* Who has created an account had not seen one, and the row has one as soon as
\* somebody has recorded his.
AccountsFollowTheRow ==
  /\ \A r \in Requests :
       /\ pc[r] \in {"creating", "recorded", "linked", "abandoned", "unlinked"} <=> r \in accounts
       /\ r \in accounts => seen[r] = None /\ UserOf[r] \in Sellers
       /\ pc[r] \in {"recorded", "linked", "unlinked"} => row[UserOf[r]] # None
  /\ \A u \in Users : row[u] # None =>
       /\ row[u] \in accounts /\ UserOf[row[u]] = u
       /\ pc[row[u]] \in {"recorded", "linked", "unlinked"}

\* Two requests that have both read a row without an account have met, unless
\* one of them is over and left no account in the row.
BlindReadersMeet ==
  \A r, q \in Requests :
    /\ r # q /\ SameUser(r, q) /\ seen[r] = None /\ seen[q] = None
    /\ pc[r] \in {"authenticated", "creating", "recorded", "linked", "unlinked"}
    /\ pc[q] \in {"authenticated", "creating", "recorded", "linked", "unlinked"}
    => Overlapped(r, q)

\* A seller gets a second Stripe account only from requests that overlapped
\* between the read of the row and its update, or after a request that failed
\* between Stripe's account and the row: such an account is lost for good.
SecondAccountNeedsOverlap ==
  \A r, q \in accounts : r # q /\ SameUser(r, q) =>
    Overlapped(r, q) \/ "abandoned" \in {pc[r], pc[q]}

\* A seller who got an onboarding link onboards the account of his row, unless
\* an overlapping request has put its own account there: then he may complete an
\* account the marketplace does not know.
LinkIsForTheRow ==
  \A r \in Requests : pc[r] = "linked" /\ row[UserOf[r]] # r =>
    row[UserOf[r]] # None /\ Overlapped(r, row[UserOf[r]])

\* Inductive.
OnboardingInv == TypeOK /\ AccountsFollowTheRow /\ BlindReadersMeet
=============================================================================
