----------------------- MODULE SellerOnboardingProofs -----------------------
(***************************************************************************)
(* OnboardingInv is inductive, and from it every second Stripe account and *)
(* every misplaced link of a seller has an overlap to blame.               *)
(***************************************************************************)
EXTENDS SellerOnboarding, TLAPS

LEMMA TypeStep == TypeOK /\ [Next]_vars => TypeOK'
<1> SUFFICES ASSUME TypeOK, [Next]_vars PROVE TypeOK'
  OBVIOUS
<1>1. ASSUME NEW r \in Requests, Authenticate(r) PROVE TypeOK'
  <2>1. row[UserOf[r]] \in Requests \cup {None}
    BY RequestsAssumption DEF TypeOK
  <2>2. QED
    BY <1>1, <2>1 DEF TypeOK, Authenticate, GoTo, Ended, Failed
<1>2. ASSUME NEW r \in Requests, RecordAccount(r) PROVE TypeOK'
  BY <1>2 DEF TypeOK, RecordAccount, GoTo
<1>3. ASSUME NEW r \in Requests,
             \/ RejectUnauthenticated(r) \/ Forbid(r) \/ RejectExisting(r)
             \/ CreateAccount(r) \/ SendLink(r) \/ Fail(r)
      PROVE  TypeOK'
  BY <1>3 DEF TypeOK, RejectUnauthenticated, Forbid, RejectExisting, CreateAccount,
              SendLink, Fail, GoTo, Ended, Failed
<1>4. CASE UNCHANGED vars
  BY <1>4 DEF TypeOK, vars
<1>5. QED
  BY <1>1, <1>2, <1>3, <1>4 DEF Next

\* The row and the accounts at Stripe stay in step.
LEMMA RowStep == OnboardingInv /\ [Next]_vars => AccountsFollowTheRow'
<1> SUFFICES ASSUME OnboardingInv, [Next]_vars PROVE AccountsFollowTheRow'
  OBVIOUS
<1> USE DEF OnboardingInv
<1>1. ASSUME NEW r \in Requests, Authenticate(r) PROVE AccountsFollowTheRow'
  BY <1>1 DEF TypeOK, AccountsFollowTheRow, Authenticate, GoTo
<1>2. ASSUME NEW r \in Requests, CreateAccount(r) PROVE AccountsFollowTheRow'
  BY <1>2 DEF TypeOK, AccountsFollowTheRow, CreateAccount, GoTo
<1>3. ASSUME NEW r \in Requests, RecordAccount(r) PROVE AccountsFollowTheRow'
  <2>1. UserOf[r] \in Users /\ r # None
    BY RequestsAssumption
  <2>2. QED
    BY <1>3, <2>1 DEF TypeOK, AccountsFollowTheRow, RecordAccount, GoTo
<1>4. ASSUME NEW r \in Requests,
             \/ RejectUnauthenticated(r) \/ Forbid(r) \/ RejectExisting(r)
             \/ SendLink(r) \/ Fail(r)
      PROVE  AccountsFollowTheRow'
  BY <1>4 DEF TypeOK, AccountsFollowTheRow, RejectUnauthenticated, Forbid,
              RejectExisting, SendLink, Fail, GoTo
<1>5. CASE UNCHANGED vars
  BY <1>5 DEF AccountsFollowTheRow, vars
<1>6. QED
  BY <1>1, <1>2, <1>3, <1>4, <1>5 DEF Next

\* The account that counts in BlindReadersMeet: under way, or in the row.
LEMMA MeetStep == OnboardingInv /\ [Next]_vars => BlindReadersMeet'
<1> SUFFICES ASSUME OnboardingInv, [Next]_vars PROVE BlindReadersMeet'
  OBVIOUS
<1> USE DEF OnboardingInv
<1>1. ASSUME NEW r \in Requests, Authenticate(r) PROVE BlindReadersMeet'
  <2> SUFFICES ASSUME NEW q \in Requests, q # r, SameUser(r, q),
                      seen'[r] = None, seen'[q] = None,
                      pc'[q] \in {"authenticated", "creating", "recorded", "linked", "unlinked"}
               PROVE  q \in met'[r]
    BY <1>1 DEF TypeOK, BlindReadersMeet, Overlapped, SameUser, Authenticate, GoTo
  <2>1. pc[q] = pc'[q] /\ row[UserOf[r]] = None
    BY <1>1 DEF TypeOK, Authenticate, GoTo
  <2>2. pc[q] \in {"authenticated", "creating"}
    BY <2>1 DEF AccountsFollowTheRow, SameUser
  <2>3. QED
    BY <1>1, <2>2 DEF TypeOK, Authenticate, SameUser
<1>2. ASSUME NEW r \in Requests,
             \/ RejectUnauthenticated(r) \/ Forbid(r) \/ RejectExisting(r)
             \/ CreateAccount(r) \/ RecordAccount(r) \/ SendLink(r) \/ Fail(r)
      PROVE  BlindReadersMeet'
  <2>1. /\ seen' = seen /\ met' = met
        /\ \A q \in Requests :
             pc'[q] \in {"authenticated", "creating", "recorded", "linked", "unlinked"} =>
             pc[q] \in {"authenticated", "creating", "recorded", "linked", "unlinked"}
    BY <1>2 DEF TypeOK, RejectUnauthenticated, Forbid, RejectExisting, CreateAccount,
                RecordAccount, SendLink, Fail, GoTo
  <2>2. QED
    BY <2>1 DEF BlindReadersMeet, Overlapped, SameUser
<1>3. CASE UNCHANGED vars
  BY <1>3 DEF BlindReadersMeet, Overlapped, SameUser, vars
<1>4. QED
  BY <1>1, <1>2, <1>3 DEF Next

\* A request that creates an account has read a row without one, and the row has
\* one from the first update on.
THEOREM OnboardingInvariant == Spec => []OnboardingInv
<1>1. Init => OnboardingInv
  BY DEF Init, OnboardingInv, TypeOK, AccountsFollowTheRow, BlindReadersMeet
<1>2. OnboardingInv /\ [Next]_vars => OnboardingInv'
  BY TypeStep, RowStep, MeetStep DEF OnboardingInv
<1>3. QED
  BY <1>1, <1>2, PTL DEF Spec

\* Two accounts of one seller take two overlapping requests or an abandoned one.
THEOREM SecondAccounts == Spec => []SecondAccountNeedsOverlap
<1>1. OnboardingInv => SecondAccountNeedsOverlap
  BY DEF OnboardingInv, TypeOK, AccountsFollowTheRow, BlindReadersMeet,
         SecondAccountNeedsOverlap
<1>2. QED
  BY <1>1, OnboardingInvariant, PTL

\* A link that is not for the account of the row was overtaken by the request
\* whose account is there.
THEOREM LinksAreForTheRow == Spec => []LinkIsForTheRow
<1>1. OnboardingInv => LinkIsForTheRow
  <2> SUFFICES ASSUME OnboardingInv, NEW r \in Requests, pc[r] = "linked",
                      row[UserOf[r]] # r
               PROVE  row[UserOf[r]] # None /\ Overlapped(r, row[UserOf[r]])
    BY DEF LinkIsForTheRow
  <2> DEFINE q == row[UserOf[r]]
  <2>1. UserOf[r] \in Users /\ q # None
    BY RequestsAssumption DEF OnboardingInv, AccountsFollowTheRow
  <2>2. /\ q \in accounts /\ SameUser(r, q) /\ r \in accounts
        /\ pc[q] \in {"recorded", "linked", "unlinked"}
    BY <2>1 DEF OnboardingInv, AccountsFollowTheRow, SameUser
  <2>3. q \in Requests /\ seen[r] = None /\ seen[q] = None
    BY <2>2 DEF OnboardingInv, TypeOK, AccountsFollowTheRow
  <2>4. QED
    BY <2>1, <2>2, <2>3 DEF OnboardingInv, BlindReadersMeet
<1>2. QED
  BY <1>1, OnboardingInvariant, PTL
=============================================================================
