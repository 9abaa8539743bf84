------------------------------- MODULE EmailOtp -------------------------------
(***************************************************************************)
(* How a creator who signed in with TikTok gets a real address on the      *)
(* account: email-otp.ts behind its two routes, and credentials.ts, which  *)
(* writes an address once a code mailed to it has come back.  One user,    *)
(* who may have several requests under way.                                *)
(***************************************************************************)
EXTENDS Naturals, FiniteSets

CONSTANTS
  Caller,      \* requests of the user that may overlap
  Address,     \* what may be typed into the form
  Own,         \* those whose mail the user can read: the others are misspelt
  MaxAttempts, \* OTP_MAX_ATTEMPTS
  MaxCodes     \* a bound of the model: codes ever made up

VARIABLES
  email,    \* user.email
  handle,   \* user.tiktokHandle is set
  codes,    \* verification rows of the user: identifier has no unique index
  inbox,    \* codes that reached a mailbox of the user
  minted,   \* codes made up so far
  call      \* what each request is doing

vars == << email, handle, codes, inbox, minted, call >>

Placeholder == "the TikTok name"   \* what Login Kit leaves in the column
Wrong       == 0                   \* a code that was never made up

Row == [address : Address, code : 1..MaxCodes, attempts : 0..MaxAttempts,
        age : {"cooling", "live", "expired"}]

Idle == [pc |-> "idle"]

Init ==
  /\ email = Placeholder
  /\ handle = FALSE   \* an account older than the sign-up hook that stores it
  /\ codes = {} /\ inbox = {} /\ minted = 0
  /\ call = [w \in Caller |-> Idle]

At(w, pc)  == call[w].pc = pc
Goes(w, k) == call' = [call EXCEPT ![w] = k]
Ends(w)    == Goes(w, Idle)

----------------------------------------------------------------------------
\* Ages: the cooldown of a minute, then the ten minutes of a code.  No transaction lasts so long.
Older(r) == [r EXCEPT !.age = IF @ = "cooling" THEN "live" ELSE "expired"]

TimePasses ==
  /\ \A w \in Caller : ~At(w, "commit")
  /\ codes' = { Older(r) : r \in codes }
  /\ call' = [w \in Caller |-> IF At(w, "save") THEN [call[w] EXCEPT !.row = Older(@)] ELSE call[w]]
  /\ UNCHANGED << email, handle, inbox, minted >>

----------------------------------------------------------------------------
\* The routes.  The session is read first, and what it said of the address is used later.

Begin(w, op, a, k) ==
  /\ At(w, "idle")
  /\ Goes(w, [pc |-> "load", op |-> op, address |-> a, typed |-> k, needsEmail |-> (email = Placeholder)])
  /\ UNCHANGED << email, handle, codes, inbox, minted >>

\* handleRequestOtp refuses a user who has an address.
AskForCode(w, a) == email = Placeholder /\ Begin(w, "ask", a, Wrong)

\* handlePeekOtp only looks, the credentials route consumes.
TypeCode(w, op, a, k) == k \in inbox \cup {Wrong} /\ Begin(w, op, a, k)

\* saveRow: one transaction, of a delete that sees the rows there are, and an insert.
Saving(r, next) == [pc |-> "save", row |-> r, next |-> next]

DeleteRows(w) ==
  /\ At(w, "save")
  /\ Goes(w, [pc |-> "commit", row |-> call[w].row, next |-> call[w].next, seen |-> codes])
  /\ UNCHANGED << email, handle, codes, inbox, minted >>

CommitRow(w) ==
  /\ At(w, "commit")
  /\ codes' = (codes \ call[w].seen) \cup {call[w].row}
  /\ Goes(w, call[w].next)
  /\ UNCHANGED << email, handle, inbox, minted >>

\* removeRow
RemoveRows(w) ==
  /\ At(w, "remove")
  /\ codes' = {}
  /\ Ends(w)
  /\ UNCHANGED << email, handle, inbox, minted >>

----------------------------------------------------------------------------
\* requestEmailOtp

Cooling(r) == r.age = "cooling"

LoadForAsking(w) ==
  /\ At(w, "load") /\ call[w].op = "ask"
  /\ \/ /\ \E r \in codes : Cooling(r)
        /\ Ends(w)
        /\ UNCHANGED minted
     \/ /\ codes = {} \/ \E r \in codes : ~Cooling(r)
        /\ minted < MaxCodes
        /\ minted' = minted + 1
        /\ Goes(w, Saving([address |-> call[w].address, code |-> minted + 1,
                           attempts |-> 0, age |-> "cooling"],
                          [pc |-> "send", address |-> call[w].address, code |-> minted + 1]))
  /\ UNCHANGED << email, handle, codes, inbox >>

\* The mail goes out behind the row.  It may be lost, and nobody reads a misspelt address.
SendCode(w, arrives) ==
  /\ At(w, "send")
  /\ inbox' = IF arrives /\ call[w].address \in Own THEN inbox \cup {call[w].code} ELSE inbox
  /\ Ends(w)
  /\ UNCHANGED << email, handle, codes, minted >>

----------------------------------------------------------------------------
\* matchEmailOtp

\* Mutant: any live code of the user will do.
AnyAddress(r, a) == TRUE

SameAddress(r, a) == r.address = a

Remove == [pc |-> "remove"]

\* The branches in their order; a row at its limit is never stored, so that branch is dead.
MatchWith(w, r) ==
  CASE r.age = "expired"                -> Goes(w, Remove)
    [] ~SameAddress(r, call[w].address) -> Ends(w)
    [] r.attempts >= MaxAttempts        -> Goes(w, Remove)
    [] r.code # call[w].typed ->
         IF r.attempts + 1 >= MaxAttempts
         THEN Goes(w, Remove)
         ELSE Goes(w, Saving([r EXCEPT !.attempts = @ + 1], Idle))
    [] OTHER ->
         IF call[w].op = "peek" THEN Ends(w)
         ELSE Goes(w, [pc |-> "consume", address |-> call[w].address, needsEmail |-> call[w].needsEmail])

Match(w) ==
  /\ At(w, "load") /\ call[w].op \in {"peek", "set"}
  /\ \/ codes = {} /\ Ends(w)
     \/ \E r \in codes : MatchWith(w, r)
  /\ UNCHANGED << email, handle, codes, inbox, minted >>

Consume(w) ==
  /\ At(w, "consume")
  /\ codes' = {}
  /\ Goes(w, [call[w] EXCEPT !.pc = "write"])
  /\ UNCHANGED << email, handle, inbox, minted >>

----------------------------------------------------------------------------
\* setCreatorCredentials

\* The name moves out of the column the address moves into.
WriteEmail(w) ==
  /\ At(w, "write")
  /\ call[w].needsEmail
  /\ email' = call[w].address
  /\ handle' = TRUE
  /\ Ends(w)
  /\ UNCHANGED << codes, inbox, minted >>

\* The session had an address, or another user has this one (the column is unique).
WriteRefused(w) ==
  /\ At(w, "write")
  /\ Ends(w)
  /\ UNCHANGED << email, handle, codes, inbox, minted >>

Dies(w) ==
  /\ ~At(w, "idle")
  /\ Ends(w)
  /\ UNCHANGED << email, handle, codes, inbox, minted >>

----------------------------------------------------------------------------
Step(w) ==
  \/ \E a \in Address : AskForCode(w, a)
  \/ \E op \in {"peek", "set"}, a \in Address, k \in 0..MaxCodes : TypeCode(w, op, a, k)
  \/ LoadForAsking(w) \/ DeleteRows(w) \/ CommitRow(w) \/ RemoveRows(w)
  \/ \E arrives \in BOOLEAN : SendCode(w, arrives)
  \/ Match(w) \/ Consume(w) \/ WriteEmail(w) \/ WriteRefused(w) \/ Dies(w)

Next == TimePasses \/ \E w \in Caller : Step(w)

Spec == Init /\ [][Next]_vars

----------------------------------------------------------------------------
\* Properties

\* However requests, typed codes and lost answers interleave, and whichever of two rows an
\* answer finds: the address on the account is one whose mail the user reads, a misspelt one
\* never gets there (every later notice would go to nobody), the TikTok name it replaced is
\* not lost; and a stored code has tries left, so none is refused as an older build's.
AddressIsReadable ==
  /\ email # Placeholder => email \in Own /\ handle
  /\ \A r \in codes : r \in Row /\ r.attempts < MaxAttempts
=============================================================================
