------------------------------- MODULE Account -------------------------------
(***************************************************************************)
(* One row of table users: the handlers of src/auth/auth.service.ts and    *)
(* the password and delete endpoints of src/users/users.service.ts.  All   *)
(* of them concern the account of one e-mail address, which may be deleted *)
(* and registered again under a new id.  A handler finds the row, compares *)
(* bcrypt hashes for some hundred milliseconds, and then writes by id,     *)
(* without repeating what it checked; any other call may run in between.   *)
(* What a call reads first decides all its checks, so that its arrival and *)
(* this read are one step.                                                 *)
(* The codes sent by mail for e-mail verification and for password reset   *)
(* are handled alike, in two sets of columns: code and attempts are        *)
(* functions of the kind of code.                                          *)
(***************************************************************************)
EXTENDS Naturals, FiniteSets

CONSTANTS Request, Password,
          MaxAttempts,        \* wrong answers a code survives, 5 in the code
          MaxAccounts,        \* bound on the registrations of the address
          MaxCodes,           \* bound on the codes generated
          MaxUncounted,       \* bound on wrong answers lost before the count
          NoAccount, NoPassword

ASSUME BoundsNat ==
    /\ MaxAttempts \in Nat \ {0}
    /\ {MaxAccounts, MaxCodes, MaxUncounted} \subseteq Nat
ASSUME RequestFinite == IsFiniteSet(Request)
ASSUME NoPasswordApart == NoPassword \notin Password

VARIABLES account,            \* the row of the address, or NoAccount
          made,               \* ids and codes used up so far
          codeOf,             \* the account a code was generated for
          expired,            \* kinds whose code is older than 15 minutes
          lastMail,           \* the code in the last mail sent, by kind
          req,                \* the requests, slot by slot
          guesses,            \* history: wrong answers compared with a code
          accepted,           \* history: how often a code was accepted
          uncounted,          \* history: wrong answers whose count failed
          astray,             \* history: the kinds of code whose present code
                              \* was not mailed, or replaced one still to mail
          issued,             \* history: accounts given an access token
          outlived            \* history: the ends of sessions (logout, reset)
                              \* that the stored token has survived

history == <<guesses, accepted, uncounted, astray, issued, outlived>>

vars == <<account, made, codeOf, expired, lastMail, req, history>>

Kind == {"verify", "reset"}

AccountId == 1 .. MaxAccounts
Code == 1 .. MaxCodes

\* A refresh token is known by the id it was signed for (sub); the column holds
\* the hash of one token, or null.
AccountRow == [id : AccountId, password : Password, isVerified : BOOLEAN,
               refreshToken : AccountId \cup {0},
               code : [Kind -> Code \cup {0}], attempts : [Kind -> Nat]]

Op == {"register", "login", "refresh", "logout", "verify", "reset",
       "resend", "forgot", "change"}

\* late is history: the ends of sessions since the call was authorised.
Slot == [pc : {"idle", "insert", "issue", "mail", "store", "clear",
               "count", "accept", "set"},
         op : Op, id : AccountId \cup {0}, code : Code \cup {0},
         old : Password \cup {NoPassword}, new : Password \cup {NoPassword},
         late : SUBSET {"logout", "reset"}]

Idle == [pc |-> "idle", op |-> "login", id |-> 0, code |-> 0,
         old |-> NoPassword, new |-> NoPassword, late |-> {}]

Call(step, op, id) == [Idle EXCEPT !.pc = step, !.op = op, !.id = id]

KindOf(op) == IF op \in {"reset", "forgot"} THEN "reset" ELSE "verify"

Registered == account # NoAccount

\* where: { id }.
Found(id) == Registered /\ account.id = id

-----------------------------------------------------------------------------
Init ==
    /\ account = NoAccount
    /\ made = [accounts |-> 0, codes |-> 0]
    /\ codeOf = [c \in Code |-> 0]
    /\ expired = {}
    /\ lastMail = [k \in Kind |-> 0]
    /\ req = [r \in Request |-> Idle]
    /\ guesses = [c \in Code |-> 0]
    /\ accepted = [c \in Code |-> 0]
    /\ uncounted = 0
    /\ astray = {}
    /\ issued = {}
    /\ outlived = {}

Start(r, call) == req' = [req EXCEPT ![r] = call]

Goto(r, step) == req' = [req EXCEPT ![r].pc = step]

\* The status of an answer is for the client; no later call depends on it.
Answer(r, status) == req' = [req EXCEPT ![r] = Idle]

\* POST /auth/register.
FindEmail(r, p) ==
    /\ req[r].pc = "idle"
    /\ IF Registered THEN Answer(r, 409)
       ELSE Start(r, [Call("insert", "register", 0) EXCEPT !.new = p])
    /\ UNCHANGED <<account, made, codeOf, expired, lastMail, history>>

\* The insert; the key of email may refuse it (500).
CreateUser(r) ==
    /\ req[r].pc = "insert"
    /\ IF Registered
       THEN Answer(r, 500) /\ UNCHANGED <<account, made>>
       ELSE LET id == made.accounts + 1
            IN  /\ id \in AccountId
                /\ account' = [id |-> id, password |-> req[r].new,
                               isVerified |-> FALSE, refreshToken |-> 0,
                               code |-> [k \in Kind |-> 0],
                               attempts |-> [k \in Kind |-> 0]]
                /\ made' = [made EXCEPT !.accounts = id]
                /\ Start(r, Call("issue", "register", id))
    /\ UNCHANGED <<codeOf, expired, lastMail, history>>

\* POST /auth/login with a password.
CheckCredentials(r, p) ==
    /\ req[r].pc = "idle"
    /\ IF ~Registered                THEN Answer(r, 401)
       ELSE IF account.password # p  THEN Answer(r, 401)
       ELSE IF ~account.isVerified   THEN Answer(r, 403)
       ELSE Start(r, Call("store", "login", account.id))
    /\ UNCHANGED <<account, made, codeOf, expired, lastMail, history>>

\* POST /auth/refresh: a token that is not the stored one, or older than 30
\* days, is refused.
CheckToken(r, id) ==
    /\ req[r].pc = "idle"
    /\ \/ Answer(r, 401)
       \/ /\ Found(id) /\ account.refreshToken = id
          /\ Start(r, [Call("store", "refresh", id)
                          EXCEPT !.late = outlived])
    /\ UNCHANGED <<account, made, codeOf, expired, lastMail, history>>

\* The update of the token, if the where clause finds a row, and the answer.
Store(r, found) ==
    /\ req[r].pc = "store"
    /\ IF ~found
       THEN Answer(r, 500) /\ UNCHANGED <<account, issued, outlived>>
       ELSE /\ account' = [account EXCEPT !.refreshToken = req[r].id]
            /\ issued' = issued \cup {req[r].id}
            /\ outlived' = req[r].late
            /\ Answer(r, IF req[r].op = "register" THEN 201 ELSE 200)
    /\ UNCHANGED <<made, codeOf, expired, lastMail, guesses, accepted,
                   uncounted, astray>>

\* Fault: the update goes by the address.
StoreTokenByEmail(r) == Store(r, Registered)

\* generateTokens, updateRefreshToken and the answer with both tokens.
StoreToken(r) == Store(r, Found(req[r].id))

\* Slot r ends the sessions, which is late for the calls that were authorised
\* before and have their tokens still to store.
EndSessions(r, how) ==
    /\ outlived' = IF account'.refreshToken = 0 THEN {}
                                                ELSE outlived \cup {how}
    /\ req' = [q \in Request |->
                 IF q = r THEN Idle
                 ELSE IF req[q].id = account.id /\
                         req[q].op \in {"register", "login", "refresh"}
                 THEN [req[q] EXCEPT !.late = @ \cup {how}] ELSE req[q]]

\* POST /auth/logout with an access token of account id, which the guard
\* looks up.
CheckLogout(r, id) ==
    /\ req[r].pc = "idle" /\ id \in issued
    /\ IF Found(id) THEN Start(r, Call("clear", "logout", id))
                    ELSE Answer(r, 401)
    /\ UNCHANGED <<account, made, codeOf, expired, lastMail, history>>

ClearToken(r) ==
    /\ req[r].pc = "clear"
    /\ IF Found(req[r].id)
       THEN /\ account' = [account EXCEPT !.refreshToken = 0]
            /\ EndSessions(r, "logout")
       ELSE Answer(r, 500) /\ UNCHANGED <<account, outlived>>
    /\ UNCHANGED <<made, codeOf, expired, lastMail, guesses, accepted,
                   uncounted, astray, issued>>

\* POST /auth/resend-verification, POST /auth/forgot-password.
FindForCode(r, op) ==
    /\ req[r].pc = "idle" /\ op \in {"resend", "forgot"}
    /\ IF ~Registered                                THEN Answer(r, 200)
       ELSE IF op = "resend" /\ account.isVerified   THEN Answer(r, 200)
       ELSE Start(r, Call("issue", op, account.id))
    /\ UNCHANGED <<account, made, codeOf, expired, lastMail, history>>

\* A code of kind k is on its way into a mail.
Mailing(k) == \E q \in Request : req[q].pc = "mail" /\ KindOf(req[q].op) = k

\* The update with a new code for slot r, whose mail is next.
Issue(r, row) ==
    /\ req[r].pc = "issue"
    /\ LET c == made.codes + 1
           k == KindOf(req[r].op)
       IN  IF ~Found(req[r].id)
           THEN /\ Answer(r, 500)
                /\ UNCHANGED <<account, made, codeOf, expired, astray>>
           ELSE /\ c \in Code
                /\ account' = row
                /\ made' = [made EXCEPT !.codes = c]
                /\ codeOf' = [codeOf EXCEPT ![c] = req[r].id]
                /\ expired' = expired \ {k}
                /\ astray' = IF Mailing(k) THEN astray \cup {k}
                                           ELSE astray \ {k}
                /\ req' = [req EXCEPT ![r].pc = "mail", ![r].code = c]
    /\ UNCHANGED <<lastMail, guesses, accepted, uncounted, issued, outlived>>

\* The row with the next code of kind k, and its 15 minutes.
NextCode(k) == [account EXCEPT !.code[k] = made.codes + 1, !.attempts[k] = 0]

\* Fault: a code that is still there is kept, and another one is mailed.
IssueCodeOnce(r) ==
    Issue(r, IF account.code[KindOf(req[r].op)] # 0
             THEN account ELSE NextCode(KindOf(req[r].op)))

\* The update that puts a new code in place of the old one.
IssueCode(r) == Issue(r, NextCode(KindOf(req[r].op)))

\* The mail, which the call waits for.
MailCode(r) ==
    /\ req[r].pc = "mail"
    /\ lastMail' = [lastMail EXCEPT ![KindOf(req[r].op)] = req[r].code]
    /\ IF req[r].op = "register" THEN Goto(r, "store") ELSE Answer(r, 200)
    /\ UNCHANGED <<account, made, codeOf, expired, history>>

\* The answer c to the code that is there, unless it has had too many.
Compare(r, op, c, p, limit) ==
    /\ req[r].pc = "idle" /\ op \in {"verify", "reset"}
    /\ LET k == KindOf(op)
           code == account.code[k]
       IN  IF \/ ~Registered
              \/ op = "verify" /\ account.isVerified
              \/ code = 0 \/ k \in expired
              \/ account.attempts[k] >= limit
           THEN Answer(r, 400) /\ UNCHANGED guesses
           ELSE IF c = code
           THEN /\ Start(r, [Call("accept", op, account.id)
                                EXCEPT !.code = code, !.new = p])
                /\ UNCHANGED guesses
           ELSE /\ Start(r, [Call("count", op, account.id)
                                EXCEPT !.code = code])
                /\ guesses' = [guesses EXCEPT ![code] = @ + 1]
    /\ UNCHANGED <<account, made, codeOf, expired, lastMail, accepted,
                   uncounted, astray, issued, outlived>>

\* Fault: one wrong answer more.
CheckCodeLate(r, op, c, p) == Compare(r, op, c, p, MaxAttempts + 1)

\* Fault: the new password is not read from the body.
CheckCodeAlone(r, op, c, p) == Compare(r, op, c, NoPassword, MaxAttempts)

\* POST /auth/verify-email and POST /auth/reset-password with answer c, which
\* is no code at all if 0, and a new password for the reset.
CheckCode(r, op, c, p) == Compare(r, op, c, p, MaxAttempts)

\* The increment after a wrong answer, whichever code is there by now.
CountAttempt(r) ==
    /\ req[r].pc = "count"
    /\ LET k == KindOf(req[r].op)
       IN  IF Found(req[r].id)
           THEN /\ account' = [account EXCEPT !.attempts[k] = @ + 1]
                /\ Answer(r, 400)
           ELSE Answer(r, 500) /\ UNCHANGED account
    /\ UNCHANGED <<made, codeOf, expired, lastMail, history>>

\* The update of verifyEmail after the right answer: the code that is there by
\* now goes.
AcceptVerify(r) ==
    /\ req[r].pc = "accept" /\ req[r].op = "verify"
    /\ IF Found(req[r].id)
       THEN /\ account' = [account EXCEPT !.isVerified = TRUE,
                             !.code["verify"] = 0, !.attempts["verify"] = 0]
            /\ expired' = expired \ {"verify"}
            /\ accepted' = [accepted EXCEPT ![req[r].code] = @ + 1]
            /\ Answer(r, 200)
       ELSE Answer(r, 500) /\ UNCHANGED <<account, expired, accepted>>
    /\ UNCHANGED <<made, codeOf, lastMail, guesses, uncounted, astray,
                   issued, outlived>>

\* The update of resetPassword after the right answer, which ends the session.
Reset(r, row) ==
    /\ req[r].pc = "accept" /\ req[r].op = "reset"
    /\ IF Found(req[r].id)
       THEN /\ account' = row
            /\ expired' = expired \ {"reset"}
            /\ accepted' = [accepted EXCEPT ![req[r].code] = @ + 1]
            /\ EndSessions(r, "reset")
       ELSE /\ Answer(r, 500)
            /\ UNCHANGED <<account, expired, accepted, outlived>>
    /\ UNCHANGED <<made, codeOf, lastMail, guesses, uncounted, astray, issued>>

\* Fault: a reset keeps the code and the session.
AcceptResetAlone(r) == Reset(r, [account EXCEPT !.password = req[r].new])

\* The new password; the code that is there by now goes, and the session.
AcceptReset(r) ==
    Reset(r, [account EXCEPT !.password = req[r].new, !.refreshToken = 0,
                             !.code["reset"] = 0, !.attempts["reset"] = 0])

\* Fault: any current password will do.
CheckNothing(r, id, old, new) ==
    /\ req[r].pc = "idle" /\ id \in issued
    /\ IF ~Found(id) THEN Answer(r, 401)
       ELSE Start(r, [Call("set", "change", id)
                         EXCEPT !.old = old, !.new = new])
    /\ UNCHANGED <<account, made, codeOf, expired, lastMail, history>>

\* PATCH /users/me/password with an access token of account id.
CheckPassword(r, id, old, new) ==
    /\ req[r].pc = "idle" /\ id \in issued
    /\ IF ~Found(id)                  THEN Answer(r, 401)
       ELSE IF account.password # old THEN Answer(r, 401)
       ELSE Start(r, [Call("set", "change", id)
                         EXCEPT !.old = old, !.new = new])
    /\ UNCHANGED <<account, made, codeOf, expired, lastMail, history>>

SetPassword(r) ==
    /\ req[r].pc = "set"
    /\ IF Found(req[r].id)
       THEN /\ account' = [account EXCEPT !.password = req[r].new]
            /\ Answer(r, 200)
       ELSE Answer(r, 500) /\ UNCHANGED account
    /\ UNCHANGED <<made, codeOf, expired, lastMail, history>>

\* DELETE /users/me.
DeleteAccount ==
    /\ Registered
    /\ account' = NoAccount
    /\ expired' = {}
    /\ astray' = {}
    /\ outlived' = {}
    /\ UNCHANGED <<made, codeOf, lastMail, req, guesses, accepted, uncounted,
                   issued>>

\* 15 minutes are over.
Expire(k) ==
    /\ Registered /\ account.code[k] # 0 /\ k \notin expired
    /\ expired' = expired \cup {k}
    /\ UNCHANGED <<account, made, codeOf, lastMail, req, history>>

\* The database or the mail service fails, or the process stops: a wrong answer
\* is not counted, a code not mailed.
Fail(r) ==
    /\ req[r].pc # "idle"
    /\ IF req[r].pc = "count"
       THEN uncounted < MaxUncounted /\ uncounted' = uncounted + 1
       ELSE UNCHANGED uncounted
    /\ LET k == KindOf(req[r].op)
       IN  astray' = IF /\ req[r].pc = "mail" /\ Registered
                        /\ req[r].code = account.code[k]
                     THEN astray \cup {k} ELSE astray
    /\ Answer(r, 0)
    /\ UNCHANGED <<account, made, codeOf, expired, lastMail, guesses, accepted,
                   issued, outlived>>

Arrive(r) ==
    \/ \E p \in Password : FindEmail(r, p) \/ CheckCredentials(r, p)
    \/ \E id \in 1 .. made.accounts : CheckToken(r, id)
    \/ \E op \in Op : FindForCode(r, op)
    \/ \E op \in Op, c \in 0 .. made.codes, p \in Password :
         CheckCode(r, op, c, p)
    \/ \E id \in 1 .. made.accounts : CheckLogout(r, id)
    \/ \E id \in 1 .. made.accounts, old, new \in Password :
         CheckPassword(r, id, old, new)

Serve(r) == \/ CreateUser(r)
            \/ IssueCode(r)
            \/ MailCode(r)
            \/ StoreToken(r)
            \/ ClearToken(r)
            \/ CountAttempt(r)
            \/ AcceptVerify(r)
            \/ AcceptReset(r)
            \/ SetPassword(r)

Next == \/ \E r \in Request : Arrive(r) \/ Serve(r) \/ Fail(r)
        \/ DeleteAccount
        \/ \E k \in Kind : Expire(k)

Spec == Init /\ [][Next]_vars

-----------------------------------------------------------------------------
\* The row, the slots and the history hold values of their types.
TypeOK ==
    /\ account \in AccountRow \cup {NoAccount}
    /\ made \in [accounts : 0 .. MaxAccounts, codes : 0 .. MaxCodes]
    /\ Registered => account.id = made.accounts
    /\ codeOf \in [Code -> 0 .. made.accounts]
    /\ expired \subseteq Kind
    /\ lastMail \in [Kind -> 0 .. made.codes]
    /\ req \in [Request -> Slot]
    /\ \A r \in Request : req[r].id <= made.accounts
    /\ guesses \in [Code -> Nat] /\ accepted \in [Code -> Nat]
    /\ uncounted \in 0 .. MaxUncounted
    /\ astray \subseteq Kind
    /\ issued \subseteq 1 .. made.accounts
    /\ outlived \subseteq {"logout", "reset"}

\* An address that is registered again starts from nothing, whatever calls for
\* the deleted account are still in flight: the stored token was signed for
\* this account, its codes were generated for it, and it is verified by a code
\* of its own.
OwnDataOnly ==
    Registered =>
        /\ account.refreshToken # 0 => account.refreshToken = account.id
        /\ \A k \in Kind :
             account.code[k] # 0 => codeOf[account.code[k]] = account.id
        /\ account.isVerified =>
             \E c \in Code : codeOf[c] = account.id /\ accepted[c] > 0

\* 'Too many failed attempts': the check and the increment are two steps, so
\* that a code survives more wrong answers than the limit, but no more than one
\* for every other call in flight and for every count that was lost.
AttemptsBounded ==
    \A c \in Code :
        guesses[c] + 1 <= MaxAttempts + Cardinality(Request) + uncounted

\* A code is good for one change of the account: the comparison and the update
\* that takes the code away are two steps, so that the calls in flight may all
\* have it accepted, but none that comes later.
CodesRunOut == \A c \in Code : accepted[c] <= Cardinality(Request)

\* The code the account waits for is the one in the last mail that was sent,
\* unless its own mail is still to come: no older mail comes after it, and no
\* code is replaced by one that nobody is sent.  Excepted are the codes whose
\* mail the code does not secure, which were stored and then not sent, or
\* stored while the code they replaced was still to be mailed.
LastMailWorks ==
    Registered =>
        \A k \in Kind :
            \/ account.code[k] \in {0, lastMail[k]}
            \/ k \in astray
            \/ \E r \in Request : /\ req[r].pc = "mail"
                                  /\ req[r].code = account.code[k]

\* A logout "invalida el refresh token", a reset "should invalidate sessions":
\* no token that is stored was authorised before one of them, neither directly
\* nor by a refresh of one that was.
SessionsEnd == (Registered /\ account.refreshToken # 0) => outlived = {}

\* The part of it that a test states: "should reset password and invalidate
\* sessions".
ResetEndsSessions ==
    (Registered /\ account.refreshToken # 0) => "reset" \notin outlived

\* "Cambiar contrasena (requiere contrasena actual)": a password that changes
\* is replaced by a reset, or by a call that was given this very password.
ChangeNeedsCurrent ==
    [][(/\ Registered /\ account' # NoAccount
        /\ account'.password # account.password)
         => \E r \in Request :
              \/ req[r].pc = "accept" /\ req[r].op = "reset"
              \/ req[r].pc = "set" /\ req[r].old = account.password]_vars
=============================================================================
