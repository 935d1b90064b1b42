---------------------------- MODULE AccountProofs ----------------------------
(***************************************************************************)
(* Proofs about Account for every finite set of slots and every limit:     *)
(* what holds however the calls about one address overlap, and what they   *)
(* promise when they do not.                                               *)
(***************************************************************************)
EXTENDS Account, FiniteSetTheorems, TLAPS

\* A call works on an account that was there, and, once it has sent or compared
\* a code, on one that was generated for this account and for its own kind.
SlotOK(r) ==
    LET s == req[r]
    IN  /\ s.pc = "insert" => s.new \in Password
        /\ s.pc \notin {"idle", "insert"} => s.id \in AccountId
        /\ s.id <= made.accounts
        /\ s.pc \in {"mail", "count", "accept"} =>
             /\ s.code \in Code /\ s.code <= made.codes
             /\ codeOf[s.code] = s.id
             /\ Registered =>
                  \A k \in Kind : account.code[k] = s.code => k = KindOf(s.op)
        /\ s.pc = "accept" => s.op \in {"verify", "reset"}
        /\ s.pc = "accept" /\ s.op = "reset" => s.new \in Password
        /\ s.pc = "set" => s.new \in Password

SlotInv == \A r \in Request : SlotOK(r)

\* The codes of the row have been generated, the two of them apart.
CodesInv ==
    Registered =>
        /\ \A k \in Kind : account.code[k] <= made.codes
        /\ \A k, l \in Kind :
             account.code[k] # 0 /\ account.code[k] = account.code[l] => k = l

\* The calls that have still to count a wrong answer to code c.
Counting(c) == {r \in Request : req[r].pc = "count" /\ req[r].code = c}

\* Every wrong answer to the code that is there has been counted, is about to
\* be, or was lost.
CountInv ==
    /\ \A c \in Code : c > made.codes => guesses[c] = 0
    /\ Registered => \A k \in Kind : account.code[k] # 0 =>
         guesses[account.code[k]] <= account.attempts[k]
             + Cardinality(Counting(account.code[k])) + uncounted

IInv == /\ TypeOK /\ SlotInv /\ CodesInv /\ CountInv
        /\ OwnDataOnly /\ AttemptsBounded

-----------------------------------------------------------------------------
LEMMA IdleSlot ==
    /\ Idle \in Slot /\ Idle.pc = "idle" /\ Idle.id = 0 /\ Idle.late = {}
BY DEF Idle, Slot, Op

LEMMA IdleOK ==
    ASSUME TypeOK', NEW r \in Request, req'[r] = Idle PROVE SlotOK(r)'
BY IdleSlot, BoundsNat DEF SlotOK, TypeOK

\* The fields of a call that starts.
LEMMA NewCall ==
    ASSUME NEW step \in {"issue", "store", "clear", "count", "accept", "set",
                         "insert"},
           NEW op \in Op, NEW id \in AccountId \cup {0}
    PROVE  /\ Call(step, op, id) \in Slot
           /\ Call(step, op, id).pc = step /\ Call(step, op, id).op = op
           /\ Call(step, op, id).id = id /\ Call(step, op, id).late = {}
           /\ Call(step, op, id).code = 0
BY DEF Call, Idle, Slot

LEMMA KindOfType == \A op : KindOf(op) \in Kind
BY DEF KindOf, Kind

\* Counting is a finite set of slots, and a slot outside leaves room for it.
LEMMA CountingFinite ==
    ASSUME NEW c
    PROVE  /\ IsFiniteSet(Counting(c)) /\ Cardinality(Counting(c)) \in Nat
           /\ Cardinality(Request) \in Nat
           /\ \A r \in Request \ Counting(c) :
                Cardinality(Counting(c)) + 1 <= Cardinality(Request)
<1>1. Counting(c) \subseteq Request
  BY DEF Counting
<1>2. IsFiniteSet(Counting(c)) /\ Cardinality(Counting(c)) \in Nat
  BY <1>1, RequestFinite, FS_Subset, FS_CardinalityType
<1>3. ASSUME NEW r \in Request \ Counting(c)
      PROVE  Cardinality(Counting(c)) + 1 <= Cardinality(Request)
  <2>1. /\ IsFiniteSet(Request \ {r})
        /\ Cardinality(Request \ {r}) = Cardinality(Request) - 1
    BY RequestFinite, FS_RemoveElement
  <2>2. Counting(c) \subseteq Request \ {r}
    BY <1>1
  <2>3. Cardinality(Counting(c)) <= Cardinality(Request \ {r})
    BY <2>1, <2>2, FS_Subset
  <2>4. Cardinality(Request) \in Nat
    BY RequestFinite, FS_CardinalityType
  <2>5. QED BY <1>2, <2>1, <2>3, <2>4
<1>4. QED BY <1>2, <1>3, RequestFinite, FS_CardinalityType

\* A slot that keeps what it is about, while codes of the row stay, go, or are
\* replaced by new ones.
LEMMA SlotFrame ==
    ASSUME TypeOK, TypeOK', NEW q \in Request, SlotOK(q),
           UNCHANGED <<req[q].pc, req[q].op, req[q].id, req[q].code, req[q].new>>,
           made.codes <= made'.codes, made.accounts <= made'.accounts,
           \A c \in Code : c <= made.codes => codeOf'[c] = codeOf[c],
           Registered' => \A k \in Kind :
               \/ account'.code[k] = 0 \/ account'.code[k] > made.codes
               \/ Registered /\ account'.code[k] = account.code[k]
    PROVE  SlotOK(q)'
<1>1. PICK s \in Slot, t \in Slot : s = req[q] /\ t = req'[q]
  BY DEF TypeOK
<1>2. /\ made.codes \in Nat /\ made.accounts \in Nat
      /\ made'.codes \in Nat /\ made'.accounts \in Nat
      /\ \A c \in Code : c \in Nat /\ c # 0
      /\ \A i \in AccountId : i \in Nat
  BY BoundsNat DEF TypeOK, Code, AccountId
<1>3. /\ t.pc = s.pc /\ t.op = s.op /\ t.id = s.id /\ t.code = s.code
      /\ t.new = s.new
  BY <1>1
<1>4. t.id \in Nat /\ t.id <= made'.accounts
  <2>1. s.id \in Nat
    BY <1>2 DEF Slot
  <2>2. QED BY <1>1, <1>2, <1>3, <2>1 DEF SlotOK
<1>5. ASSUME t.pc \in {"mail", "count", "accept"}
      PROVE  /\ t.code \in Code /\ t.code <= made'.codes
             /\ codeOf'[t.code] = t.id
             /\ Registered' =>
                  \A k \in Kind : account'.code[k] = t.code => k = KindOf(t.op)
  <2>1. /\ s.code \in Code /\ s.code <= made.codes /\ codeOf[s.code] = s.id
        /\ Registered =>
             \A k \in Kind : account.code[k] = s.code => k = KindOf(s.op)
    BY <1>1, <1>3, <1>5 DEF SlotOK
  <2>2. \A k \in Kind : Registered' /\ account'.code[k] = t.code =>
            Registered /\ account.code[k] = s.code
    BY <1>2, <1>3, <2>1
  <2>3. KindOf(t.op) = KindOf(s.op)
    BY <1>3
  <2>4. QED BY <1>2, <1>3, <2>1, <2>2, <2>3
<1>6. QED BY <1>1, <1>3, <1>4, <1>5 DEF SlotOK

\* A step that sends no code, compares none and counts none: what the row, the
\* slots and the counts say of each other goes on to hold.
LEMMA QuietStep ==
    ASSUME IInv, TypeOK', NEW r \in Request, SlotOK(r)',
           req[r].pc # "count", req'[r].pc # "count",
           \A q \in Request : q # r =>
               UNCHANGED <<req[q].pc, req[q].op, req[q].id, req[q].code, req[q].new>>,
           UNCHANGED <<made, codeOf, guesses, uncounted>>,
           Registered' => Registered /\ \A k \in Kind :
               \/ account'.code[k] = 0
               \/ /\ account'.code[k] = account.code[k]
                  /\ account'.attempts[k] = account.attempts[k]
    PROVE  SlotInv' /\ CodesInv' /\ CountInv' /\ AttemptsBounded'
<1>1. /\ made.codes \in Nat /\ made.accounts \in Nat
      /\ req \in [Request -> Slot] /\ req' \in [Request -> Slot]
  BY BoundsNat DEF IInv, TypeOK
<1>2. SlotInv'
  <2>1. ASSUME NEW q \in Request, q # r PROVE SlotOK(q)'
    BY <1>1, <2>1, SlotFrame DEF IInv, SlotInv
  <2>2. QED BY <2>1 DEF SlotInv
<1>3. CodesInv'
  BY <1>1 DEF IInv, CodesInv
<1>4. \A c : Counting(c)' = Counting(c)
  BY DEF Counting
<1>5. CountInv'
  BY <1>4 DEF IInv, CountInv
<1>6. AttemptsBounded'
  BY DEF IInv, AttemptsBounded
<1>7. QED BY <1>2, <1>3, <1>5, <1>6

\* A step of one slot that leaves the row, its codes and the counts alone.
LEMMA SlotStep ==
    ASSUME IInv, NEW r \in Request, NEW s \in Slot, req' = [req EXCEPT ![r] = s],
           req[r].pc # "count", s.pc # "count", s.id <= made.accounts,
           s.pc = "insert" => s.new \in Password,
           s.pc \notin {"idle", "insert"} => s.id \in AccountId,
           s.pc \in {"mail", "accept"} =>
               /\ s.code \in Code /\ s.code <= made.codes
               /\ codeOf[s.code] = s.id
               /\ Registered =>
                    \A k \in Kind : account.code[k] = s.code => k = KindOf(s.op),
           s.pc = "accept" => s.op \in {"verify", "reset"},
           s.pc = "accept" /\ s.op = "reset" => s.new \in Password,
           s.pc = "set" => s.new \in Password,
           UNCHANGED <<account, made, codeOf, expired, guesses, accepted>>,
           UNCHANGED <<uncounted, issued, outlived>>,
           lastMail' \in [Kind -> 0 .. made.codes], astray' \subseteq Kind
    PROVE  IInv'
<1>1. /\ req' \in [Request -> Slot] /\ req'[r] = s
      /\ \A q \in Request : q # r => req'[q] = req[q]
  BY DEF IInv, TypeOK
<1>2. TypeOK'
  BY <1>1 DEF IInv, TypeOK, Registered
<1>3. SlotOK(r)'
  BY <1>1 DEF SlotOK, Registered
<1>4. SlotInv' /\ CodesInv' /\ CountInv' /\ AttemptsBounded'
  BY <1>1, <1>2, <1>3, QuietStep DEF Registered
<1>5. OwnDataOnly'
  BY DEF IInv, OwnDataOnly, Registered
<1>6. QED BY <1>2, <1>4, <1>5 DEF IInv

\* The end of a call that has nothing to count.
LEMMA EndOfCall ==
    ASSUME IInv, NEW r \in Request, req' = [req EXCEPT ![r] = Idle],
           req[r].pc # "count",
           UNCHANGED <<account, made, codeOf, expired, lastMail, history>>
    PROVE  IInv'
<1>1. /\ UNCHANGED <<account, made, codeOf, expired, guesses, accepted>>
      /\ UNCHANGED <<uncounted, issued, outlived, lastMail>>
  BY DEF history
<1>2. /\ lastMail' \in [Kind -> 0 .. made.codes] /\ 0 <= made.accounts
      /\ astray' \subseteq Kind
  BY <1>1, BoundsNat DEF IInv, TypeOK, history
<1>3. QED BY <1>1, <1>2, IdleSlot, SlotStep

LEMMA Initially == Init => IInv
<1> SUFFICES ASSUME Init PROVE IInv
  OBVIOUS
<1>1. /\ \A r \in Request : req[r] = Idle
      /\ \A c \in Code : guesses[c] = 0
      /\ ~Registered /\ made.accounts = 0 /\ made.codes = 0 /\ uncounted = 0
  BY DEF Init, Registered
<1>2. TypeOK
  <2>1. req \in [Request -> Slot]
    BY IdleSlot DEF Init
  <2>2. \A r \in Request : req[r].id <= made.accounts
    BY <1>1, IdleSlot
  <2>3. /\ codeOf \in [Code -> 0 .. made.accounts]
        /\ lastMail \in [Kind -> 0 .. made.codes]
        /\ made \in [accounts : 0 .. MaxAccounts, codes : 0 .. MaxCodes]
        /\ uncounted \in 0 .. MaxUncounted
    BY <1>1, BoundsNat DEF Init
  <2>4. QED BY <1>1, <2>1, <2>2, <2>3 DEF Init, TypeOK
<1>3. SlotInv
  BY <1>1, IdleSlot DEF SlotInv, SlotOK
<1>4. AttemptsBounded
  <2>1. MaxAttempts \in Nat \ {0} /\ Cardinality(Request) \in Nat
    BY BoundsNat, CountingFinite
  <2>2. QED BY <1>1, <2>1 DEF AttemptsBounded
<1>5. QED BY <1>1, <1>2, <1>3, <1>4 DEF IInv, CodesInv, CountInv, OwnDataOnly

-----------------------------------------------------------------------------
\* Calls that arrive, but for the answers to a code.

LEMMA FindEmailStep ==
    ASSUME IInv, NEW r \in Request, NEW p \in Password, FindEmail(r, p)
    PROVE  IInv'
<1>1. PICK s : s = [Call("insert", "register", 0) EXCEPT !.new = p]
  OBVIOUS
<1>2. s \in Slot /\ s.pc = "insert" /\ s.new = p /\ s.id = 0
  BY <1>1 DEF Call, Idle, Slot, Op
<1>3. /\ UNCHANGED <<account, made, codeOf, expired, lastMail, history>>
      /\ req[r].pc = "idle"
      /\ req' = [req EXCEPT ![r] = Idle] \/ req' = [req EXCEPT ![r] = s]
  BY <1>1 DEF FindEmail, Answer, Start
<1>4. /\ UNCHANGED <<account, made, codeOf, expired, guesses, accepted>>
      /\ UNCHANGED <<uncounted, issued, outlived, lastMail>>
  BY <1>3 DEF history
<1>5. /\ lastMail' \in [Kind -> 0 .. made.codes] /\ 0 <= made.accounts
      /\ astray' \subseteq Kind
  BY <1>3, <1>4, BoundsNat DEF IInv, TypeOK, history
<1>6. QED BY <1>2, <1>3, <1>4, <1>5, EndOfCall, SlotStep

\* A call that starts with the id of the row, or of a token, and no code.
LEMMA StartOfCall ==
    ASSUME IInv, NEW r \in Request, NEW s \in Slot, req[r].pc = "idle",
           s.pc \in {"issue", "store", "clear", "set"},
           s.pc = "set" => s.new \in Password,
           s.id \in AccountId, s.id <= made.accounts,
           \/ req' = [req EXCEPT ![r] = Idle]
           \/ req' = [req EXCEPT ![r] = s],
           UNCHANGED <<account, made, codeOf, expired, lastMail, history>>
    PROVE  IInv'
<1>1. /\ UNCHANGED <<account, made, codeOf, expired, guesses, accepted>>
      /\ UNCHANGED <<uncounted, issued, outlived, lastMail>>
  BY DEF history
<1>2. lastMail' \in [Kind -> 0 .. made.codes] /\ astray' \subseteq Kind
  BY <1>1 DEF IInv, TypeOK, history
<1>3. QED BY <1>1, <1>2, EndOfCall, SlotStep

\* The id of the row, and one that was given an access token.
LEMMA IdType ==
    ASSUME TypeOK
    PROVE  /\ Registered => account.id \in AccountId /\ account.id <= made.accounts
           /\ \A id \in issued \cup (1 .. made.accounts) :
                id \in AccountId /\ id <= made.accounts
<1>1. made.accounts \in 0 .. MaxAccounts /\ MaxAccounts \in Nat
  BY BoundsNat DEF TypeOK
<1>2. Registered => account.id \in AccountId /\ account.id <= made.accounts
  BY <1>1 DEF TypeOK, Registered, AccountRow, AccountId
<1>3. \A id \in issued : id \in 1 .. made.accounts
  BY DEF TypeOK
<1>4. QED BY <1>1, <1>2, <1>3 DEF AccountId

LEMMA ArriveStep ==
    ASSUME IInv, NEW r \in Request,
           \/ \E p \in Password : FindEmail(r, p) \/ CheckCredentials(r, p)
           \/ \E id \in 1 .. made.accounts : CheckToken(r, id)
           \/ \E op \in Op : FindForCode(r, op)
           \/ \E id \in 1 .. made.accounts : CheckLogout(r, id)
           \/ \E id \in 1 .. made.accounts, old, new \in Password :
                CheckPassword(r, id, old, new)
    PROVE  IInv'
<1>1. ASSUME NEW p \in Password, CheckCredentials(r, p) PROVE IInv'
  <2>1. CASE req' = [req EXCEPT ![r] = Idle]
    BY <1>1, <2>1, EndOfCall DEF CheckCredentials
  <2>2. CASE Registered /\ req' = [req EXCEPT ![r] =
                                     Call("store", "login", account.id)]
    <3>1. account.id \in AccountId /\ account.id <= made.accounts
      BY <2>2, IdType DEF IInv
    <3>2. PICK s : s = Call("store", "login", account.id)
      OBVIOUS
    <3>3. s \in Slot /\ s.pc = "store" /\ s.id = account.id
      BY <3>1, <3>2, NewCall DEF Op
    <3>4. QED BY <1>1, <2>2, <3>1, <3>2, <3>3, StartOfCall DEF CheckCredentials
  <2>3. QED BY <1>1, <2>1, <2>2 DEF CheckCredentials, Answer, Start
<1>2. ASSUME NEW id \in 1 .. made.accounts, CheckToken(r, id) PROVE IInv'
  <2>1. CASE req' = [req EXCEPT ![r] = Idle]
    BY <1>2, <2>1, EndOfCall DEF CheckToken
  <2>2. CASE req' = [req EXCEPT ![r] = [Call("store", "refresh", id)
                                          EXCEPT !.late = outlived]]
    <3>1. id \in AccountId /\ id <= made.accounts
      BY IdType DEF IInv
    <3>2. PICK s : s = [Call("store", "refresh", id) EXCEPT !.late = outlived]
      OBVIOUS
    <3>3. s \in Slot /\ s.pc = "store" /\ s.id = id
      BY <3>1, <3>2 DEF Call, Idle, Slot, Op, IInv, TypeOK
    <3>4. QED BY <1>2, <2>2, <3>1, <3>2, <3>3, StartOfCall DEF CheckToken
  <2>3. QED BY <1>2, <2>1, <2>2 DEF CheckToken, Answer, Start
<1>3. ASSUME NEW op \in Op, FindForCode(r, op) PROVE IInv'
  <2>1. CASE req' = [req EXCEPT ![r] = Idle]
    BY <1>3, <2>1, EndOfCall DEF FindForCode
  <2>2. CASE Registered /\ req' = [req EXCEPT ![r] =
                                     Call("issue", op, account.id)]
    <3>1. account.id \in AccountId /\ account.id <= made.accounts
      BY <2>2, IdType DEF IInv
    <3>2. PICK s : s = Call("issue", op, account.id)
      OBVIOUS
    <3>3. s \in Slot /\ s.pc = "issue" /\ s.id = account.id
      BY <3>1, <3>2, NewCall
    <3>4. QED BY <1>3, <2>2, <3>1, <3>2, <3>3, StartOfCall DEF FindForCode
  <2>3. QED BY <1>3, <2>1, <2>2 DEF FindForCode, Answer, Start
<1>4. ASSUME NEW id \in 1 .. made.accounts, CheckLogout(r, id) PROVE IInv'
  <2>1. id \in AccountId /\ id <= made.accounts
    BY IdType DEF IInv
  <2>2. CASE req' = [req EXCEPT ![r] = Idle]
    BY <1>4, <2>2, EndOfCall DEF CheckLogout
  <2>3. CASE req' = [req EXCEPT ![r] = Call("clear", "logout", id)]
    <3>1. PICK s : s = Call("clear", "logout", id)
      OBVIOUS
    <3>2. s \in Slot /\ s.pc = "clear" /\ s.id = id
      BY <2>1, <3>1, NewCall DEF Op
    <3>3. QED BY <1>4, <2>1, <2>3, <3>1, <3>2, StartOfCall DEF CheckLogout
  <2>4. QED BY <1>4, <2>2, <2>3 DEF CheckLogout, Answer, Start
<1>5. ASSUME NEW id \in 1 .. made.accounts, NEW old \in Password,
             NEW new \in Password, CheckPassword(r, id, old, new)
      PROVE  IInv'
  <2>1. CASE req' = [req EXCEPT ![r] = Idle]
    BY <1>5, <2>1, EndOfCall DEF CheckPassword
  <2>2. CASE req' = [req EXCEPT ![r] = [Call("set", "change", id)
                                          EXCEPT !.old = old, !.new = new]]
    <3>1. id \in AccountId /\ id <= made.accounts
      BY IdType DEF IInv
    <3>2. PICK s : s = [Call("set", "change", id)
                          EXCEPT !.old = old, !.new = new]
      OBVIOUS
    <3>3. s \in Slot /\ s.pc = "set" /\ s.id = id /\ s.new = new
      BY <3>1, <3>2 DEF Call, Idle, Slot, Op
    <3>4. QED BY <1>5, <2>2, <3>1, <3>2, <3>3, StartOfCall DEF CheckPassword
  <2>3. QED BY <1>5, <2>1, <2>2 DEF CheckPassword, Answer, Start
<1>6. QED BY <1>1, <1>2, <1>3, <1>4, <1>5, FindEmailStep

-----------------------------------------------------------------------------
\* What the updates of a row do to it.

LEMMA RowToken ==
    ASSUME NEW a \in AccountRow, NEW id \in AccountId \cup {0}, NEW b,
           b = [a EXCEPT !.refreshToken = id]
    PROVE  /\ b \in AccountRow /\ b.id = a.id /\ b.password = a.password
           /\ b.refreshToken = id /\ (b.isVerified => a.isVerified)
           /\ b.code = a.code /\ b.attempts = a.attempts
BY DEF AccountRow

LEMMA RowPassword ==
    ASSUME NEW a \in AccountRow, NEW p \in Password, NEW b,
           b = [a EXCEPT !.password = p]
    PROVE  /\ b \in AccountRow /\ b.id = a.id /\ b.password = p
           /\ b.refreshToken = a.refreshToken /\ (b.isVerified => a.isVerified)
           /\ b.code = a.code /\ b.attempts = a.attempts
BY DEF AccountRow

\* The end of sessions leaves a mark on other slots, and no more.
LEMMA EndSessionsEffect ==
    ASSUME TypeOK, NEW r \in Request, NEW how \in {"logout", "reset"},
           EndSessions(r, how)
    PROVE  /\ req' \in [Request -> Slot] /\ req'[r] = Idle
           /\ \A q \in Request : q # r =>
                /\ UNCHANGED <<req[q].pc, req[q].op, req[q].id, req[q].code>>
                /\ UNCHANGED <<req[q].old, req[q].new>>
           /\ outlived' \subseteq {"logout", "reset"}
<1>1. req'[r] = Idle
  BY DEF EndSessions
<1>2. ASSUME NEW q \in Request, q # r
      PROVE  /\ req'[q] \in Slot
             /\ UNCHANGED <<req[q].pc, req[q].op, req[q].id, req[q].code>>
             /\ UNCHANGED <<req[q].old, req[q].new>>
  <2>1. req[q] \in Slot
    BY DEF TypeOK
  <2>2. CASE req'[q] = req[q]
    BY <2>1, <2>2
  <2>3. CASE req'[q] = [req[q] EXCEPT !.late = @ \cup {how}]
    BY <2>1, <2>3 DEF Slot
  <2>4. QED BY <1>2, <2>2, <2>3 DEF EndSessions
<1>3. req' = [q \in Request |-> req'[q]]
  BY DEF EndSessions
<1>4. req' \in [Request -> Slot]
  BY <1>1, <1>2, <1>3, IdleSlot
<1>5. outlived' \subseteq {"logout", "reset"}
  BY DEF EndSessions, TypeOK
<1>6. QED BY <1>1, <1>2, <1>4, <1>5

-----------------------------------------------------------------------------
\* The steps that write to the row.

\* The row keeps its id, keeps or loses its codes and its token, or gets a token
\* of its own; whether it is verified is known by a code that was accepted.
LEMMA RowUpdate ==
    ASSUME IInv, NEW r \in Request, Registered, NEW b \in AccountRow,
           account' = b, b.id = account.id,
           b.refreshToken \in {0, account.id, account.refreshToken},
           \A k \in Kind :
               \/ b.code[k] = 0
               \/ /\ b.code[k] = account.code[k]
                  /\ b.attempts[k] = account.attempts[k],
           accepted' \in [Code -> Nat],
           \A c \in Code : accepted[c] <= accepted'[c],
           \/ b.isVerified => account.isVerified
           \/ \E c \in Code : codeOf[c] = account.id /\ accepted'[c] > 0,
           req' \in [Request -> Slot], req'[r] = Idle, req[r].pc # "count",
           \A q \in Request : q # r =>
               UNCHANGED <<req[q].pc, req[q].op, req[q].id, req[q].code, req[q].new>>,
           UNCHANGED <<made, codeOf, lastMail, guesses, uncounted, astray>>,
           expired' \subseteq Kind, issued' \subseteq 1 .. made.accounts,
           outlived' \subseteq {"logout", "reset"}
    PROVE  IInv'
<1>1. TypeOK'
  <2>1. \A q \in Request : req'[q].id <= made.accounts
    <3>1. 0 <= made.accounts
      BY BoundsNat DEF IInv, TypeOK
    <3>2. QED BY <3>1, IdleSlot DEF IInv, TypeOK
  <2>2. QED BY <2>1 DEF IInv, TypeOK, Registered
<1>2. SlotOK(r)'
  BY <1>1, IdleOK
<1>3. SlotInv' /\ CodesInv' /\ CountInv' /\ AttemptsBounded'
  BY <1>1, <1>2, QuietStep, IdleSlot
<1>4. OwnDataOnly'
  <2>1. b.refreshToken # 0 => b.refreshToken = b.id
    BY DEF IInv, OwnDataOnly
  <2>2. \A k \in Kind : b.code[k] # 0 => codeOf[b.code[k]] = b.id
    BY DEF IInv, OwnDataOnly
  <2>3. b.isVerified => \E c \in Code : codeOf[c] = b.id /\ accepted'[c] > 0
    <3>1. accepted \in [Code -> Nat]
      BY DEF IInv, TypeOK
    <3>2. QED BY <3>1 DEF IInv, OwnDataOnly
  <2>4. QED BY <2>1, <2>2, <2>3 DEF OwnDataOnly
<1>5. QED BY <1>1, <1>3, <1>4 DEF IInv

\* An update that leaves the codes alone.
LEMMA RowStep ==
    ASSUME IInv, NEW r \in Request, Registered, NEW b \in AccountRow,
           account' = b, b.id = account.id,
           b.refreshToken \in {0, account.id, account.refreshToken},
           b.isVerified => account.isVerified,
           b.code = account.code, b.attempts = account.attempts,
           req' \in [Request -> Slot], req'[r] = Idle, req[r].pc # "count",
           \A q \in Request : q # r =>
               UNCHANGED <<req[q].pc, req[q].op, req[q].id, req[q].code, req[q].new>>,
           UNCHANGED <<made, codeOf, expired, lastMail, guesses, accepted>>,
           UNCHANGED <<uncounted, astray>>,
           issued' \subseteq 1 .. made.accounts,
           outlived' \subseteq {"logout", "reset"}
    PROVE  IInv'
<1>1. /\ accepted' \in [Code -> Nat] /\ expired' \subseteq Kind
      /\ \A c \in Code : accepted[c] <= accepted'[c]
  BY DEF IInv, TypeOK
<1>2. QED BY <1>1, RowUpdate

LEMMA StoreTokenStep ==
    ASSUME IInv, NEW r \in Request, StoreToken(r)
    PROVE  IInv'
<1>1. /\ req[r].pc = "store" /\ req[r] \in Slot /\ req[r].id \in AccountId
      /\ req' = [req EXCEPT ![r] = Idle]
      /\ UNCHANGED <<made, codeOf, expired, lastMail, guesses, accepted>>
      /\ UNCHANGED <<uncounted, astray>>
  BY DEF StoreToken, Store, Answer, IInv, TypeOK, SlotInv, SlotOK
<1>2. CASE UNCHANGED <<account, issued, outlived>>
  BY <1>1, <1>2, EndOfCall DEF history
<1>3. CASE /\ Found(req[r].id)
           /\ account' = [account EXCEPT !.refreshToken = req[r].id]
           /\ issued' = issued \cup {req[r].id} /\ outlived' = req[r].late
  <2>1. Registered /\ account \in AccountRow /\ req[r].id = account.id
    BY <1>3 DEF Found, Registered, IInv, TypeOK
  <2>2. PICK b : b = [account EXCEPT !.refreshToken = req[r].id]
    OBVIOUS
  <2>3. /\ b \in AccountRow /\ b.id = account.id /\ b.refreshToken = account.id
        /\ (b.isVerified => account.isVerified)
        /\ b.code = account.code /\ b.attempts = account.attempts
    BY <1>1, <2>1, <2>2, RowToken
  <2>4. issued' \subseteq 1 .. made.accounts
    <3>1. account.id = made.accounts /\ made.accounts \in Nat /\ 1 <= account.id
      BY <1>1, <2>1, BoundsNat DEF IInv, TypeOK, AccountId
    <3>2. QED BY <1>3, <2>1, <3>1 DEF IInv, TypeOK
  <2>5. outlived' \subseteq {"logout", "reset"}
    BY <1>1, <1>3 DEF Slot
  <2>6. /\ req' \in [Request -> Slot] /\ req'[r] = Idle
        /\ \A q \in Request : q # r => req'[q] = req[q]
    BY <1>1, IdleSlot DEF IInv, TypeOK
  <2>7. QED BY <1>1, <1>3, <2>1, <2>2, <2>3, <2>4, <2>5, <2>6, RowStep
<1>4. QED BY <1>2, <1>3 DEF StoreToken, Store

LEMMA ClearTokenStep ==
    ASSUME IInv, NEW r \in Request, ClearToken(r)
    PROVE  IInv'
<1>1. /\ req[r].pc = "clear"
      /\ UNCHANGED <<made, codeOf, expired, lastMail, guesses, accepted>>
      /\ UNCHANGED <<uncounted, astray, issued>>
  BY DEF ClearToken
<1>2. CASE req' = [req EXCEPT ![r] = Idle] /\ UNCHANGED <<account, outlived>>
  BY <1>1, <1>2, EndOfCall DEF history
<1>3. CASE /\ Found(req[r].id) /\ EndSessions(r, "logout")
           /\ account' = [account EXCEPT !.refreshToken = 0]
  <2>1. Registered /\ account \in AccountRow
    BY <1>3 DEF Found, Registered, IInv, TypeOK
  <2>2. PICK b : b = [account EXCEPT !.refreshToken = 0]
    OBVIOUS
  <2>3. /\ b \in AccountRow /\ b.id = account.id /\ b.refreshToken = 0
        /\ (b.isVerified => account.isVerified)
        /\ b.code = account.code /\ b.attempts = account.attempts
    BY <2>1, <2>2, RowToken
  <2>4. issued' \subseteq 1 .. made.accounts
    BY <1>1 DEF IInv, TypeOK
  <2>5. /\ req' \in [Request -> Slot] /\ req'[r] = Idle
        /\ \A q \in Request : q # r =>
             UNCHANGED <<req[q].pc, req[q].op, req[q].id, req[q].code, req[q].new>>
        /\ outlived' \subseteq {"logout", "reset"}
    BY <1>3, EndSessionsEffect DEF IInv
  <2>6. QED BY <1>1, <1>3, <2>1, <2>2, <2>3, <2>4, <2>5, RowStep
<1>4. QED BY <1>2, <1>3 DEF ClearToken, Answer

LEMMA SetPasswordStep ==
    ASSUME IInv, NEW r \in Request, SetPassword(r)
    PROVE  IInv'
<1>1. /\ req[r].pc = "set" /\ req[r].new \in Password
      /\ UNCHANGED <<made, codeOf, expired, lastMail, history>>
      /\ req' = [req EXCEPT ![r] = Idle]
  BY DEF SetPassword, Answer, IInv, SlotInv, SlotOK
<1>2. CASE UNCHANGED account
  BY <1>1, <1>2, EndOfCall
<1>3. CASE /\ Found(req[r].id)
           /\ account' = [account EXCEPT !.password = req[r].new]
  <2>1. Registered /\ account \in AccountRow
    BY <1>3 DEF Found, Registered, IInv, TypeOK
  <2>2. PICK b : b = [account EXCEPT !.password = req[r].new]
    OBVIOUS
  <2>3. /\ b \in AccountRow /\ b.id = account.id
        /\ b.refreshToken = account.refreshToken
        /\ (b.isVerified => account.isVerified)
        /\ b.code = account.code /\ b.attempts = account.attempts
    BY <1>1, <2>1, <2>2, RowPassword
  <2>4. /\ UNCHANGED <<guesses, accepted, uncounted, astray>>
        /\ issued' \subseteq 1 .. made.accounts
        /\ outlived' \subseteq {"logout", "reset"}
    BY <1>1 DEF history, IInv, TypeOK
  <2>5. /\ req' \in [Request -> Slot] /\ req'[r] = Idle
        /\ \A q \in Request : q # r => req'[q] = req[q]
    BY <1>1, IdleSlot DEF IInv, TypeOK
  <2>6. QED BY <1>1, <1>3, <2>1, <2>2, <2>3, <2>4, <2>5, RowStep
<1>4. QED BY <1>2, <1>3 DEF SetPassword, Answer

LEMMA CreateUserStep ==
    ASSUME IInv, NEW r \in Request, CreateUser(r)
    PROVE  IInv'
<1>1. /\ req[r].pc = "insert" /\ req[r].new \in Password
      /\ UNCHANGED <<codeOf, expired, lastMail, history>> /\ TypeOK
  BY DEF CreateUser, IInv, SlotInv, SlotOK
<1>2. CASE req' = [req EXCEPT ![r] = Idle] /\ UNCHANGED <<account, made>>
  BY <1>1, <1>2, EndOfCall
<1>3. CASE ~Registered /\ ~(req' = [req EXCEPT ![r] = Idle]
                            /\ UNCHANGED <<account, made>>)
  <2>1. PICK id, b, s : /\ id = made.accounts + 1
                        /\ b = [id |-> id, password |-> req[r].new,
                                isVerified |-> FALSE, refreshToken |-> 0,
                                code |-> [k \in Kind |-> 0],
                                attempts |-> [k \in Kind |-> 0]]
                        /\ s = Call("issue", "register", id)
    OBVIOUS
  <2>2. /\ id \in AccountId /\ account' = b
        /\ made' = [made EXCEPT !.accounts = id]
        /\ req' = [req EXCEPT ![r] = s]
    BY <1>3, <2>1 DEF CreateUser, Start, Registered
  <2>3. /\ b \in AccountRow /\ b.id = id /\ b.refreshToken = 0
        /\ b.isVerified = FALSE /\ \A k \in Kind : b.code[k] = 0
    BY <1>1, <2>1, <2>2 DEF AccountRow
  <2>4. s \in Slot /\ s.pc = "issue" /\ s.id = id
    BY <2>1, <2>2, NewCall DEF Op
  <2>5. /\ made.accounts \in Nat /\ made.codes \in Nat /\ id \in Nat
        /\ made'.accounts = id /\ made'.codes = made.codes
        /\ made' \in [accounts : 0 .. MaxAccounts, codes : 0 .. MaxCodes]
        /\ made.accounts <= id /\ MaxAccounts \in Nat
    BY <1>1, <2>1, <2>2, BoundsNat DEF TypeOK, AccountId
  <2>6. /\ req' \in [Request -> Slot] /\ req'[r] = s
        /\ \A q \in Request : q # r => req'[q] = req[q]
    BY <1>1, <2>2, <2>4 DEF TypeOK
  <2>7. TypeOK'
    <3>1. \A q \in Request : req'[q].id <= made'.accounts
      <4>1. \A q \in Request : req[q].id \in Nat /\ req[q].id <= made.accounts
        BY <1>1 DEF TypeOK, Slot, AccountId
      <4>2. QED BY <2>4, <2>5, <2>6, <4>1
    <3>2. codeOf \in [Code -> 0 .. made'.accounts]
      BY <1>1, <2>5 DEF TypeOK
    <3>3. issued \subseteq 1 .. made'.accounts
      BY <1>1, <2>5 DEF TypeOK
    <3>4. QED BY <1>1, <2>2, <2>3, <2>5, <2>6, <3>1, <3>2, <3>3
              DEF TypeOK, history, Registered
  <2>8. SlotInv'
    <3>1. SlotOK(r)'
      BY <2>2, <2>4, <2>5, <2>6 DEF SlotOK
    <3>2. ASSUME NEW q \in Request, q # r PROVE SlotOK(q)'
      BY <1>1, <2>2, <2>3, <2>5, <2>6, <2>7, <3>2, SlotFrame DEF IInv, SlotInv
    <3>3. QED BY <3>1, <3>2 DEF SlotInv
  <2>9. CodesInv' /\ OwnDataOnly'
    BY <2>2, <2>3, <2>5 DEF CodesInv, OwnDataOnly
  <2>10. CountInv' /\ AttemptsBounded'
    BY <1>1, <2>2, <2>3, <2>5 DEF IInv, CountInv, AttemptsBounded, history
  <2>11. QED BY <2>7, <2>8, <2>9, <2>10 DEF IInv
<1>4. QED BY <1>2, <1>3 DEF CreateUser, Answer

\* What the update does that puts a new code c in place of the old one.
LEMMA IssueCodeEffect ==
    ASSUME IInv, NEW r \in Request, IssueCode(r), Found(req[r].id),
           NEW c, c = made.codes + 1, NEW k, k = KindOf(req[r].op)
    PROVE  /\ c \in Code /\ k \in Kind
           /\ account' \in AccountRow /\ account'.id = account.id
           /\ account'.password = account.password
           /\ account'.refreshToken = account.refreshToken
           /\ account'.isVerified = account.isVerified
           /\ account'.code[k] = c /\ account'.attempts[k] = 0
           /\ \A l \in Kind : l # k =>
                /\ account'.code[l] = account.code[l]
                /\ account'.attempts[l] = account.attempts[l]
           /\ made' = [made EXCEPT !.codes = c]
           /\ codeOf' = [codeOf EXCEPT ![c] = req[r].id]
           /\ expired' = expired \ {k}
           /\ astray' = IF Mailing(k) THEN astray \cup {k} ELSE astray \ {k}
           /\ req' \in [Request -> Slot]
           /\ req'[r].pc = "mail" /\ req'[r].code = c
           /\ req'[r].id = req[r].id /\ req'[r].op = req[r].op
           /\ req'[r].late = req[r].late
           /\ \A q \in Request : q # r => req'[q] = req[q]
<1>1. /\ req[r] \in Slot /\ account \in AccountRow /\ TypeOK
  BY DEF Found, Registered, IInv, TypeOK
<1>2. PICK b : b = [account EXCEPT !.code[k] = c, !.attempts[k] = 0]
  OBVIOUS
<1>3. /\ c \in Code /\ account' = b /\ k \in Kind
      /\ made' = [made EXCEPT !.codes = c]
      /\ codeOf' = [codeOf EXCEPT ![c] = req[r].id]
      /\ req' = [req EXCEPT ![r].pc = "mail", ![r].code = c]
      /\ expired' = expired \ {k}
      /\ astray' = IF Mailing(k) THEN astray \cup {k} ELSE astray \ {k}
  BY <1>2, KindOfType DEF IssueCode, Issue, NextCode
<1>4. /\ b \in AccountRow /\ b.id = account.id /\ b.password = account.password
      /\ b.refreshToken = account.refreshToken
      /\ b.isVerified = account.isVerified
      /\ b.code[k] = c /\ b.attempts[k] = 0
      /\ \A l \in Kind : l # k =>
           b.code[l] = account.code[l] /\ b.attempts[l] = account.attempts[l]
  BY <1>1, <1>2, <1>3 DEF AccountRow
<1>5. /\ req' \in [Request -> Slot] /\ req'[r].pc = "mail" /\ req'[r].code = c
      /\ req'[r].id = req[r].id /\ req'[r].op = req[r].op
      /\ req'[r].late = req[r].late
      /\ \A q \in Request : q # r => req'[q] = req[q]
  <2>1. PICK coded, s : /\ coded = [req[r] EXCEPT !.pc = "mail"]
                        /\ s = [coded EXCEPT !.code = c]
    OBVIOUS
  <2>2. /\ coded \in Slot /\ coded.pc = "mail" /\ coded.id = req[r].id
        /\ coded.op = req[r].op /\ coded.late = req[r].late
    BY <1>1, <2>1 DEF Slot
  <2>3. /\ s \in Slot /\ s.pc = "mail" /\ s.code = c /\ s.id = req[r].id
        /\ s.op = req[r].op /\ s.late = req[r].late
    BY <1>3, <2>1, <2>2 DEF Slot
  <2>4. \A q \in Request : req'[q] = IF q = r THEN s ELSE req[q]
    BY <1>1, <1>3, <2>1 DEF TypeOK
  <2>5. req' = [q \in Request |-> req'[q]]
    BY <1>1, <1>3 DEF TypeOK
  <2>6. req' \in [Request -> Slot]
    BY <1>1, <2>3, <2>4, <2>5 DEF TypeOK
  <2>7. QED BY <2>3, <2>4, <2>6
<1>6. account' = b
  BY <1>3
<1>7. /\ c \in Code /\ k \in Kind /\ made' = [made EXCEPT !.codes = c]
      /\ codeOf' = [codeOf EXCEPT ![c] = req[r].id]
      /\ expired' = expired \ {k}
      /\ astray' = IF Mailing(k) THEN astray \cup {k} ELSE astray \ {k}
  BY <1>3
<1>8. QED BY <1>4, <1>5, <1>6, <1>7

\* A new code has not been guessed yet.
LEMMA IssueCodeStep ==
    ASSUME IInv, NEW r \in Request, IssueCode(r)
    PROVE  IInv'
<1>1. /\ req[r].pc = "issue" /\ req[r] \in Slot /\ SlotOK(r)
      /\ UNCHANGED <<lastMail, guesses, accepted, uncounted>> /\ TypeOK
      /\ UNCHANGED <<issued, outlived>>
  BY DEF IssueCode, Issue, IInv, SlotInv, TypeOK
<1>2. CASE ~Found(req[r].id)
  BY <1>1, <1>2, EndOfCall DEF IssueCode, Issue, Answer, history
<1>3. CASE Found(req[r].id)
  <2>1. PICK c, k, b : /\ c = made.codes + 1 /\ k = KindOf(req[r].op)
                       /\ b = account'
    OBVIOUS
  <2>2. /\ c \in Code /\ account' = b /\ k \in Kind
        /\ made' = [made EXCEPT !.codes = c]
        /\ codeOf' = [codeOf EXCEPT ![c] = req[r].id]
    BY <1>3, <2>1, IssueCodeEffect
  <2>3. Registered /\ account \in AccountRow /\ req[r].id = account.id
    BY <1>1, <1>3 DEF Found, Registered, TypeOK
  <2>4. /\ b \in AccountRow /\ b.id = account.id
        /\ b.refreshToken = account.refreshToken
        /\ (b.isVerified => account.isVerified)
        /\ b.code[k] = c /\ b.attempts[k] = 0
        /\ \A l \in Kind : l # k =>
             b.code[l] = account.code[l] /\ b.attempts[l] = account.attempts[l]
    BY <1>3, <2>1, IssueCodeEffect
  <2>5. /\ made.accounts \in Nat /\ made.codes \in Nat /\ c \in Nat
        /\ made'.accounts = made.accounts /\ made'.codes = c
        /\ made' \in [accounts : 0 .. MaxAccounts, codes : 0 .. MaxCodes]
        /\ made.codes <= c /\ c > made.codes /\ c # 0 /\ MaxCodes \in Nat
    <3>1. /\ made \in [accounts : 0 .. MaxAccounts, codes : 0 .. MaxCodes]
          /\ MaxAccounts \in Nat /\ MaxCodes \in Nat
      BY <1>1, BoundsNat DEF TypeOK
    <3>2. made.accounts \in Nat /\ made.codes \in Nat /\ c \in 1 .. MaxCodes
      BY <2>2, <3>1 DEF Code
    <3>3. made' \in [accounts : 0 .. MaxAccounts, codes : 0 .. MaxCodes]
      BY <2>2, <3>1, <3>2
    <3>4. made'.accounts = made.accounts /\ made'.codes = c
      BY <2>2, <3>1
    <3>5. QED BY <2>1, <3>1, <3>2, <3>3, <3>4
  <2>6. /\ codeOf'[c] = req[r].id
        /\ \A d \in Code : d # c => codeOf'[d] = codeOf[d]
        /\ codeOf' \in [Code -> 0 .. made.accounts]
    <3>1. req[r].id \in 0 .. made.accounts
      BY <1>1, <2>5 DEF TypeOK, Slot, AccountId
    <3>2. QED BY <1>1, <2>2, <3>1 DEF TypeOK
  <2>7. /\ req' \in [Request -> Slot] /\ req'[r].pc = "mail" /\ req'[r].code = c
        /\ req'[r].id = req[r].id /\ req'[r].op = req[r].op
        /\ \A q \in Request : q # r => req'[q] = req[q]
    BY <1>3, <2>1, IssueCodeEffect
  <2>8. TypeOK'
    <3>1. \A q \in Request : req'[q].id <= made'.accounts
      BY <1>1, <2>5, <2>7 DEF TypeOK
    <3>2. lastMail \in [Kind -> 0 .. c]
      BY <1>1, <2>5 DEF TypeOK
    <3>3. expired' \subseteq Kind /\ astray' \subseteq Kind
      <4>1. /\ expired' = expired \ {k}
            /\ astray' = IF Mailing(k) THEN astray \cup {k} ELSE astray \ {k}
        BY <1>3, <2>1, IssueCodeEffect
      <4>2. QED BY <1>1, <2>2, <4>1 DEF TypeOK
    <3>4. QED BY <1>1, <2>2, <2>3, <2>4, <2>5, <2>6, <2>7, <3>1, <3>2, <3>3
              DEF TypeOK, Registered
  <2>9. \A l \in Kind :
          account.code[l] \in Code \cup {0} /\ account.code[l] <= made.codes
    BY <2>3 DEF AccountRow, IInv, CodesInv
  <2>10. \A l \in Kind : account.code[l] # c /\ (b.code[l] = c => l = k)
    BY <2>4, <2>5, <2>9
  <2>11. SlotInv'
    <3>1. SlotOK(r)'
      <4>1. req'[r].id \in AccountId /\ req'[r].id <= made'.accounts
        BY <1>1, <2>5, <2>7 DEF SlotOK
      <4>2. \A l \in Kind : account'.code[l] = c => l = KindOf(req'[r].op)
        BY <2>1, <2>2, <2>7, <2>10
      <4>3. QED BY <2>2, <2>5, <2>6, <2>7, <4>1, <4>2 DEF SlotOK
    <3>2. ASSUME NEW q \in Request, q # r PROVE SlotOK(q)'
      <4>1. \A l \in Kind : account'.code[l] > made.codes
                            \/ account'.code[l] = account.code[l]
        BY <2>2, <2>4, <2>5
      <4>2. \A d \in Code : d <= made.codes => codeOf'[d] = codeOf[d]
        BY <2>5, <2>6
      <4>3. QED BY <1>1, <2>3, <2>5, <2>7, <2>8, <3>2, <4>1, <4>2, SlotFrame
                DEF IInv, SlotInv
    <3>3. QED BY <3>1, <3>2 DEF SlotInv
  <2>12. CodesInv'
    <3>1. \A l \in Kind : b.code[l] <= c
      BY <2>4, <2>5, <2>9 DEF Code
    <3>2. \A l, j \in Kind : b.code[l] # 0 /\ b.code[l] = b.code[j] => l = j
      BY <2>3, <2>4, <2>10 DEF IInv, CodesInv
    <3>3. QED BY <2>2, <2>5, <3>1, <3>2 DEF CodesInv
  <2>13. CountInv'
    <3>1. guesses[c] = 0 /\ guesses' = guesses /\ uncounted' = uncounted
      BY <1>1, <2>2, <2>5 DEF IInv, CountInv
    <3>2. \A d : Counting(d)' = Counting(d)
      BY <1>1, <2>7 DEF Counting
    <3>3. \A d \in Code : d > c => guesses[d] = 0
      BY <2>5 DEF IInv, CountInv, Code
    <3>4. ASSUME NEW l \in Kind, b.code[l] # 0
          PROVE  guesses[b.code[l]] <= b.attempts[l]
                     + Cardinality(Counting(b.code[l])) + uncounted
      <4>1. CASE l = k
        <5>1. Cardinality(Counting(c)) \in Nat /\ uncounted \in Nat
          BY <1>1, CountingFinite DEF TypeOK
        <5>2. QED BY <2>4, <3>1, <4>1, <5>1
      <4>2. CASE l # k
        BY <2>3, <2>4, <3>4, <4>2 DEF IInv, CountInv
      <4>3. QED BY <4>1, <4>2
    <3>5. \A l \in Kind : b.code[l] # 0 =>
            guesses[b.code[l]] <= b.attempts[l]
                + Cardinality(Counting(b.code[l])') + uncounted
      BY <3>2, <3>4
    <3>6. QED BY <2>2, <2>5, <3>1, <3>3, <3>5 DEF CountInv, Counting
  <2>14. OwnDataOnly'
    <3>1. /\ account.refreshToken # 0 => account.refreshToken = account.id
          /\ \A l \in Kind :
               account.code[l] # 0 => codeOf[account.code[l]] = account.id
          /\ account.isVerified =>
               \E d \in Code : codeOf[d] = account.id /\ accepted[d] > 0
      BY <2>3 DEF IInv, OwnDataOnly
    <3>2. \A l \in Kind : b.code[l] # 0 => codeOf'[b.code[l]] = b.id
      BY <2>3, <2>4, <2>6, <2>9, <2>10, <3>1
    <3>3. b.isVerified => \E d \in Code : codeOf'[d] = b.id /\ accepted[d] > 0
      BY <2>3, <2>4, <2>6, <3>1
    <3>4. QED BY <1>1, <2>2, <2>4, <3>1, <3>2, <3>3 DEF OwnDataOnly
  <2>15. AttemptsBounded'
    BY <1>1 DEF IInv, AttemptsBounded
  <2>16. QED BY <2>8, <2>11, <2>12, <2>13, <2>14, <2>15 DEF IInv
<1>4. QED BY <1>2, <1>3

LEMMA MailCodeStep ==
    ASSUME IInv, NEW r \in Request, MailCode(r)
    PROVE  IInv'
<1>1. /\ req[r].pc = "mail" /\ req[r] \in Slot /\ SlotOK(r) /\ TypeOK
      /\ UNCHANGED <<account, made, codeOf, expired, guesses, accepted>>
      /\ UNCHANGED <<uncounted, issued, outlived>>
      /\ lastMail' = [lastMail EXCEPT ![KindOf(req[r].op)] = req[r].code]
  BY DEF MailCode, IInv, SlotInv, TypeOK, history
<1>2. lastMail' \in [Kind -> 0 .. made.codes] /\ astray' \subseteq Kind
  <2>1. req[r].code \in 0 .. made.codes
    BY <1>1, BoundsNat DEF SlotOK, Code, TypeOK
  <2>2. UNCHANGED astray
    BY DEF MailCode, history
  <2>3. QED BY <1>1, <2>1, <2>2, KindOfType DEF TypeOK
<1>3. PICK s : s = [req[r] EXCEPT !.pc = "store"]
  OBVIOUS
<1>4. s \in Slot /\ s.pc = "store" /\ s.id = req[r].id
  BY <1>1, <1>3 DEF Slot
<1>5. s.id \in AccountId /\ s.id <= made.accounts /\ 0 <= made.accounts
  BY <1>1, <1>4, BoundsNat DEF SlotOK, TypeOK
<1>6. req' = [req EXCEPT ![r] = s] \/ req' = [req EXCEPT ![r] = Idle]
  BY <1>1, <1>3 DEF MailCode, Goto, Answer, TypeOK
<1>7. CASE req' = [req EXCEPT ![r] = s]
  BY <1>1, <1>2, <1>4, <1>5, <1>7, SlotStep
<1>8. CASE req' = [req EXCEPT ![r] = Idle]
  BY <1>1, <1>2, <1>5, <1>8, IdleSlot, SlotStep
<1>9. QED BY <1>6, <1>7, <1>8

-----------------------------------------------------------------------------
\* Answers to a code.

\* The code the row waits for was generated for this row, and for one kind.
LEMMA CurrentCode ==
    ASSUME IInv, Registered, NEW k \in Kind, NEW c, c = account.code[k], c # 0
    PROVE  /\ c \in Code /\ c <= made.codes /\ codeOf[c] = account.id
           /\ \A l \in Kind : account.code[l] = c => l = k
           /\ account.attempts[k] \in Nat
           /\ account.id \in AccountId /\ account.id <= made.accounts
<1>1. /\ account \in AccountRow
      /\ account.id \in AccountId /\ account.id <= made.accounts
  BY IdType DEF IInv, TypeOK, Registered
<1>2. c \in Code /\ account.attempts[k] \in Nat
  BY <1>1 DEF AccountRow
<1>3. c <= made.codes /\ codeOf[c] = account.id
  BY DEF IInv, CodesInv, OwnDataOnly
<1>4. \A l \in Kind : account.code[l] = c => l = k
  BY DEF IInv, CodesInv
<1>5. QED BY <1>1, <1>2, <1>3, <1>4

\* A wrong answer: the call has it still to count.
LEMMA GuessStep ==
    ASSUME IInv, NEW r \in Request, req[r].pc = "idle", Registered,
           NEW op \in Op, NEW k \in Kind, k = KindOf(op),
           NEW c, c = account.code[k], c # 0,
           account.attempts[k] < MaxAttempts,
           NEW s \in Slot, s.pc = "count", s.code = c, s.id = account.id,
           s.op = op,
           req' = [req EXCEPT ![r] = s],
           guesses' \in [Code -> Nat], guesses'[c] = guesses[c] + 1,
           \A d \in Code : d # c => guesses'[d] = guesses[d],
           UNCHANGED <<account, made, codeOf, expired, lastMail, accepted>>,
           UNCHANGED <<uncounted, astray, issued, outlived>>
    PROVE  IInv'
<1>1. /\ c \in Code /\ c <= made.codes /\ codeOf[c] = account.id
      /\ \A l \in Kind : account.code[l] = c => l = k
      /\ account.attempts[k] \in Nat
      /\ account.id \in AccountId /\ account.id <= made.accounts
  BY CurrentCode
<1>2. made.codes \in Nat /\ made.accounts \in Nat
  BY BoundsNat DEF IInv, TypeOK
<1>3. /\ req' \in [Request -> Slot] /\ req'[r] = s
      /\ \A q \in Request : q # r => req'[q] = req[q]
  BY DEF IInv, TypeOK
<1>4. /\ guesses \in [Code -> Nat] /\ guesses' \in [Code -> Nat]
      /\ guesses'[c] = guesses[c] + 1 /\ guesses[c] \in Nat
      /\ \A d \in Code : d # c => guesses'[d] = guesses[d]
      /\ made.codes \in Nat /\ uncounted \in Nat /\ MaxAttempts \in Nat
  BY <1>1, BoundsNat DEF IInv, TypeOK
<1>5. TypeOK'
  <2>1. \A q \in Request : req'[q].id <= made.accounts
    BY <1>1, <1>3 DEF IInv, TypeOK
  <2>2. QED BY <1>3, <1>4, <2>1 DEF IInv, TypeOK, Registered
<1>6. SlotInv'
  <2>1. SlotOK(r)'
    BY <1>1, <1>3 DEF SlotOK
  <2>2. ASSUME NEW q \in Request, q # r PROVE SlotOK(q)'
    BY <1>2, <1>3, <1>5, <2>2, SlotFrame DEF IInv, SlotInv, Registered
  <2>3. QED BY <2>1, <2>2 DEF SlotInv
<1>7. /\ Counting(c)' = Counting(c) \cup {r} /\ r \notin Counting(c)
      /\ \A d : d # c => Counting(d)' = Counting(d)
  BY <1>3 DEF Counting
<1>8. /\ Cardinality(Counting(c)') = Cardinality(Counting(c)) + 1
      /\ Cardinality(Counting(c)) \in Nat /\ Cardinality(Request) \in Nat
      /\ Cardinality(Counting(c)) + 1 <= Cardinality(Request)
  <2>1. /\ IsFiniteSet(Counting(c)) /\ Cardinality(Counting(c)) \in Nat
        /\ Cardinality(Request) \in Nat
        /\ Cardinality(Counting(c)) + 1 <= Cardinality(Request)
    BY <1>7, CountingFinite
  <2>2. Cardinality(Counting(c) \cup {r}) = Cardinality(Counting(c)) + 1
    BY <1>7, <2>1, FS_AddElement
  <2>3. QED BY <1>7, <2>1, <2>2
<1>9. guesses[c] <= account.attempts[k] + Cardinality(Counting(c)) + uncounted
  BY DEF IInv, CountInv
<1>10. CountInv'
  <2>1. \A d \in Code : d > made.codes => guesses'[d] = 0
    BY <1>1, <1>4 DEF IInv, CountInv, Code
  <2>2. ASSUME NEW l \in Kind, account.code[l] # 0
        PROVE  guesses'[account.code[l]] <= account.attempts[l]
                   + Cardinality(Counting(account.code[l])') + uncounted
    <3>1. CASE l = k
      BY <1>1, <1>4, <1>8, <1>9, <3>1
    <3>2. CASE l # k
      <4>1. account.code[l] \in Code /\ account.code[l] # c
        BY <1>1, <2>2, <3>2, CurrentCode
      <4>2. QED BY <1>4, <1>7, <2>2, <4>1 DEF IInv, CountInv
    <3>3. QED BY <3>1, <3>2
  <2>3. QED BY <2>1, <2>2 DEF CountInv, Counting, Registered
<1>11. AttemptsBounded'
  <2>1. guesses[c] + 2 <= MaxAttempts + Cardinality(Request) + uncounted
    BY <1>1, <1>4, <1>8, <1>9
  <2>2. ASSUME NEW d \in Code
        PROVE  guesses'[d] + 1 <= MaxAttempts + Cardinality(Request) + uncounted
    BY <1>4, <1>8, <2>1 DEF IInv, AttemptsBounded
  <2>3. QED BY <2>2 DEF AttemptsBounded
<1>12. CodesInv' /\ OwnDataOnly'
  BY DEF IInv, CodesInv, OwnDataOnly, Registered
<1>13. QED BY <1>5, <1>6, <1>10, <1>11, <1>12 DEF IInv

LEMMA CheckCodeStep ==
    ASSUME IInv, NEW r \in Request, NEW op \in Op, NEW c, NEW p \in Password,
           CheckCode(r, op, c, p)
    PROVE  IInv'
<1>1. PICK k, code, s, t :
        /\ k = KindOf(op) /\ code = account.code[k]
        /\ s = [Call("accept", op, account.id) EXCEPT !.code = code, !.new = p]
        /\ t = [Call("count", op, account.id) EXCEPT !.code = code]
  OBVIOUS
<1>2. /\ req[r].pc = "idle" /\ op \in {"verify", "reset"} /\ k \in Kind
      /\ UNCHANGED <<account, made, codeOf, expired, lastMail, accepted>>
      /\ UNCHANGED <<uncounted, astray, issued, outlived>>
  BY <1>1, KindOfType DEF CheckCode, Compare
<1>3. \/ req' = [req EXCEPT ![r] = Idle] /\ UNCHANGED guesses
      \/ /\ Registered /\ code # 0 /\ ~(account.attempts[k] >= MaxAttempts)
         /\ \/ req' = [req EXCEPT ![r] = s] /\ UNCHANGED guesses
            \/ /\ req' = [req EXCEPT ![r] = t]
               /\ guesses' = [guesses EXCEPT ![code] = @ + 1]
  BY <1>1 DEF CheckCode, Compare, Answer, Start
<1>4. CASE req' = [req EXCEPT ![r] = Idle] /\ UNCHANGED guesses
  BY <1>2, <1>4, EndOfCall DEF history
<1>5. CASE /\ Registered /\ code # 0
           /\ req' = [req EXCEPT ![r] = s] /\ UNCHANGED guesses
  <2>1. /\ code \in Code /\ code <= made.codes /\ codeOf[code] = account.id
        /\ \A l \in Kind : account.code[l] = code => l = k
        /\ account.id \in AccountId /\ account.id <= made.accounts
    BY <1>1, <1>2, <1>5, CurrentCode
  <2>2. /\ s \in Slot /\ s.pc = "accept" /\ s.code = code
        /\ s.id = account.id /\ s.op = op /\ s.new = p
    BY <1>1, <2>1 DEF Call, Idle, Slot
  <2>3. lastMail' \in [Kind -> 0 .. made.codes] /\ astray' \subseteq Kind
    BY <1>2 DEF IInv, TypeOK
  <2>4. /\ req[r].pc # "count" /\ k = KindOf(op)
        /\ \A l \in Kind : account.code[l] = s.code => l = KindOf(s.op)
    BY <1>1, <1>2, <2>1, <2>2
  <2>5. QED BY <1>2, <1>5, <2>1, <2>2, <2>3, <2>4, SlotStep
<1>6. CASE /\ Registered /\ code # 0 /\ ~(account.attempts[k] >= MaxAttempts)
           /\ req' = [req EXCEPT ![r] = t]
           /\ guesses' = [guesses EXCEPT ![code] = @ + 1]
  <2>1. /\ account.attempts[k] \in Nat /\ MaxAttempts \in Nat
        /\ code \in Code /\ account.id \in AccountId
    BY <1>1, <1>2, <1>6, BoundsNat, CurrentCode
  <2>2. account.attempts[k] < MaxAttempts
    BY <1>6, <2>1
  <2>3. /\ req[r].pc = "idle" /\ k \in Kind /\ k = KindOf(op)
        /\ code = account.code[k]
    BY <1>1, <1>2
  <2>4. /\ t \in Slot /\ t.pc = "count" /\ t.code = code
        /\ t.id = account.id /\ t.op = op
    BY <1>1, <2>1 DEF Call, Idle, Slot
  <2>5. /\ guesses' \in [Code -> Nat] /\ guesses'[code] = guesses[code] + 1
        /\ \A d \in Code : d # code => guesses'[d] = guesses[d]
    BY <1>6, <2>1 DEF IInv, TypeOK
  <2>6. req' = [req EXCEPT ![r] = t] /\ Registered /\ code # 0
    BY <1>6
  <2>7. QED BY <1>2, <2>2, <2>3, <2>4, <2>5, <2>6, GuessStep
<1>7. QED BY <1>3, <1>4, <1>5, <1>6


\* One call has counted its wrong answer, or its count was lost.
LEMMA CountedStep ==
    ASSUME IInv, NEW r \in Request, req[r].pc = "count",
           req' = [req EXCEPT ![r] = Idle], NEW b, account' = b,
           \/ b = account
           \/ /\ Registered /\ b \in AccountRow /\ b.id = account.id
              /\ b.refreshToken = account.refreshToken
              /\ b.isVerified => account.isVerified
              /\ b.code = account.code
              /\ \A l \in Kind : account.attempts[l] <= b.attempts[l],
           uncounted' \in 0 .. MaxUncounted, uncounted <= uncounted',
           Registered => \A l \in Kind : account.code[l] = req[r].code =>
               account.attempts[l] + uncounted + 1 <= b.attempts[l] + uncounted',
           UNCHANGED <<made, codeOf, expired, lastMail, guesses, accepted>>,
           UNCHANGED <<astray, issued, outlived>>
    PROVE  IInv'
<1>1. /\ req' \in [Request -> Slot] /\ req'[r] = Idle
      /\ \A q \in Request : q # r => req'[q] = req[q]
  BY IdleSlot DEF IInv, TypeOK
<1>2. /\ made.codes \in Nat /\ made.accounts \in Nat
      /\ uncounted \in Nat /\ uncounted' \in Nat /\ MaxAttempts \in Nat
      /\ guesses \in [Code -> Nat]
  BY BoundsNat DEF IInv, TypeOK
<1>3. /\ Registered' => Registered /\ b.code = account.code
      /\ Registered' => account \in AccountRow /\ b \in AccountRow
      /\ Registered' => b.id = account.id
      /\ Registered' => b.refreshToken = account.refreshToken
      /\ Registered' => (b.isVerified => account.isVerified)
  BY DEF IInv, TypeOK, Registered
<1>4. TypeOK'
  <2>1. \A q \in Request : req'[q].id <= made.accounts
    BY <1>1, <1>2, IdleSlot DEF IInv, TypeOK
  <2>2. b \in AccountRow \cup {NoAccount}
    BY DEF IInv, TypeOK
  <2>3. QED BY <1>1, <1>3, <2>1, <2>2 DEF IInv, TypeOK
<1>5. SlotInv'
  <2>1. SlotOK(r)'
    BY <1>1, <1>4, IdleOK
  <2>2. ASSUME NEW q \in Request, q # r PROVE SlotOK(q)'
    BY <1>1, <1>2, <1>3, <1>4, <2>2, SlotFrame DEF IInv, SlotInv
  <2>3. QED BY <2>1, <2>2 DEF SlotInv
<1>6. PICK c : c = req[r].code
  OBVIOUS
<1>7. /\ Counting(c)' = Counting(c) \ {r} /\ r \in Counting(c)
      /\ \A d : d # c => Counting(d)' = Counting(d)
  BY <1>1, <1>6, IdleSlot DEF Counting
<1>8. /\ Cardinality(Counting(c)') = Cardinality(Counting(c)) - 1
      /\ \A d : Cardinality(Counting(d)) \in Nat
      /\ Cardinality(Request) \in Nat
  <2>1. /\ IsFiniteSet(Counting(c)) /\ Cardinality(Request) \in Nat
        /\ \A d : Cardinality(Counting(d)) \in Nat
    BY CountingFinite
  <2>2. Cardinality(Counting(c) \ {r}) = Cardinality(Counting(c)) - 1
    BY <1>7, <2>1, FS_RemoveElement
  <2>3. QED BY <1>7, <2>1, <2>2
<1>9. CountInv'
  <2>1. \A d \in Code : d > made.codes => guesses[d] = 0
    BY DEF IInv, CountInv
  <2>2. ASSUME Registered', NEW l \in Kind, NEW d, d = account.code[l], d # 0
        PROVE  guesses[d] <= b.attempts[l] + Cardinality(Counting(d)')
                                 + uncounted'
    <3>1. /\ d \in Code /\ guesses[d] \in Nat
          /\ account.attempts[l] \in Nat /\ b.attempts[l] \in Nat
      BY <1>2, <1>3, <2>2 DEF AccountRow
    <3>2. guesses[d] <= account.attempts[l] + Cardinality(Counting(d)) + uncounted
      BY <1>3, <2>2 DEF IInv, CountInv
    <3>3. account.attempts[l] <= b.attempts[l]
      BY <1>3, <2>2, <3>1
    <3>4. CASE d = c
      <4>1. account.attempts[l] + uncounted + 1 <= b.attempts[l] + uncounted'
        BY <1>3, <1>6, <2>2, <3>4
      <4>2. Cardinality(Counting(d)') = Cardinality(Counting(d)) - 1
        BY <1>8, <3>4
      <4>3. QED BY <1>2, <1>8, <3>1, <3>2, <4>1, <4>2
    <3>5. CASE d # c
      BY <1>2, <1>7, <1>8, <3>1, <3>2, <3>3, <3>5
    <3>6. QED BY <3>4, <3>5
  <2>3. ASSUME Registered', NEW l \in Kind, account'.code[l] # 0
        PROVE  guesses'[account'.code[l]] <= account'.attempts[l]
                   + Cardinality(Counting(account.code[l])') + uncounted'
    <3>1. PICK d : d = account.code[l]
      OBVIOUS
    <3>2. d = account'.code[l] /\ Counting(account.code[l])' = Counting(d)'
      BY <1>3, <2>3, <3>1 DEF Counting
    <3>3. QED BY <2>2, <2>3, <3>1, <3>2
  <2>4. QED BY <2>1, <2>3 DEF CountInv
<1>10. AttemptsBounded'
  BY <1>2, <1>8 DEF IInv, AttemptsBounded
<1>11. CodesInv' /\ OwnDataOnly'
  BY <1>3 DEF IInv, CodesInv, OwnDataOnly
<1>12. QED BY <1>4, <1>5, <1>9, <1>10, <1>11 DEF IInv

\* The code an answer was compared with is the one of its kind, if it is there.
LEMMA ComparedCode ==
    ASSUME IInv, Registered, NEW r \in Request, req[r].pc \in {"count", "accept"},
           NEW l \in Kind, account.code[l] = req[r].code
    PROVE  Found(req[r].id) /\ l = KindOf(req[r].op)
<1>1. /\ req[r].code \in Code /\ codeOf[req[r].code] = req[r].id
      /\ l = KindOf(req[r].op)
  BY DEF IInv, SlotInv, SlotOK
<1>2. req[r].code # 0
  BY <1>1, BoundsNat DEF Code
<1>3. QED BY <1>1, <1>2 DEF IInv, OwnDataOnly, Found

LEMMA CountAttemptStep ==
    ASSUME IInv, NEW r \in Request, CountAttempt(r)
    PROVE  IInv'
<1>1. /\ req[r].pc = "count" /\ req' = [req EXCEPT ![r] = Idle]
      /\ UNCHANGED <<made, codeOf, expired, lastMail, guesses, accepted>>
      /\ UNCHANGED <<issued, outlived, uncounted, astray>>
  BY DEF CountAttempt, Answer, history
<1>2. uncounted \in 0 .. MaxUncounted /\ uncounted <= uncounted /\ uncounted \in Nat
  BY BoundsNat DEF IInv, TypeOK
<1>3. CASE ~Found(req[r].id)
  <2>1. Registered => \A l \in Kind : account.code[l] # req[r].code
    BY <1>1, <1>3, ComparedCode
  <2>2. UNCHANGED account
    BY <1>3 DEF CountAttempt
  <2>3. QED BY <1>1, <1>2, <2>1, <2>2, CountedStep
<1>4. CASE Found(req[r].id)
  <2>1. PICK k, b : k = KindOf(req[r].op)
                    /\ b = [account EXCEPT !.attempts[k] = @ + 1]
    OBVIOUS
  <2>2. /\ Registered /\ account \in AccountRow /\ k \in Kind /\ account' = b
    BY <1>4, <2>1, KindOfType DEF CountAttempt, Found, Registered, IInv, TypeOK
  <2>3. /\ b \in AccountRow /\ b.id = account.id
        /\ b.refreshToken = account.refreshToken
        /\ (b.isVerified => account.isVerified)
        /\ b.code = account.code /\ b.attempts[k] = account.attempts[k] + 1
        /\ \A l \in Kind : l # k => b.attempts[l] = account.attempts[l]
    BY <2>1, <2>2 DEF AccountRow
  <2>4. \A l \in Kind : account.attempts[l] \in Nat
    BY <2>2 DEF AccountRow
  <2>5. \A l \in Kind : account.attempts[l] <= b.attempts[l]
    BY <2>3, <2>4
  <2>6. ASSUME NEW l \in Kind, account.code[l] = req[r].code
        PROVE  account.attempts[l] + uncounted + 1 <= b.attempts[l] + uncounted'
    <3>1. l = k
      BY <1>1, <2>1, <2>2, <2>6, ComparedCode
    <3>2. QED BY <1>1, <1>2, <2>3, <2>4, <3>1
  <2>7. uncounted' \in 0 .. MaxUncounted /\ uncounted <= uncounted'
    BY <1>1, <1>2
  <2>8. QED BY <1>1, <2>2, <2>3, <2>5, <2>6, <2>7, CountedStep
<1>5. QED BY <1>3, <1>4

LEMMA FailStep ==
    ASSUME IInv, NEW r \in Request, Fail(r)
    PROVE  IInv'
<1>1. /\ req[r].pc # "idle" /\ req' = [req EXCEPT ![r] = Idle]
      /\ UNCHANGED <<account, made, codeOf, expired, guesses, accepted>>
      /\ UNCHANGED <<issued, outlived, lastMail>>
  BY DEF Fail, Answer
<1>2. /\ uncounted \in 0 .. MaxUncounted /\ uncounted \in Nat
      /\ MaxUncounted \in Nat /\ 0 <= made.accounts
  BY BoundsNat DEF IInv, TypeOK
<1>3. CASE req[r].pc = "count"
  <2>1. /\ UNCHANGED astray /\ uncounted' = uncounted + 1
        /\ uncounted < MaxUncounted
    BY <1>3 DEF Fail
  <2>2. uncounted' \in 0 .. MaxUncounted /\ uncounted <= uncounted'
    BY <1>2, <2>1
  <2>3. ASSUME Registered, NEW l \in Kind
        PROVE  account.attempts[l] + uncounted + 1
                 <= account.attempts[l] + uncounted'
    <3>1. account.attempts[l] \in Nat
      BY <2>3 DEF IInv, TypeOK, Registered, AccountRow
    <3>2. QED BY <1>2, <2>1, <3>1
  <2>4. QED BY <1>1, <1>3, <2>1, <2>2, <2>3, CountedStep
<1>4. CASE req[r].pc # "count"
  <2>1. lastMail' \in [Kind -> 0 .. made.codes] /\ astray' \subseteq Kind
    BY <1>1, KindOfType DEF Fail, IInv, TypeOK
  <2>2. UNCHANGED uncounted
    BY <1>4 DEF Fail
  <2>3. QED BY <1>1, <1>2, <1>4, <2>1, <2>2, IdleSlot, SlotStep
<1>5. QED BY <1>3, <1>4


\* The update after the right answer, in either of its two forms.
Accept(r) == AcceptVerify(r) \/ AcceptReset(r)

LEMMA AcceptEffect ==
    ASSUME IInv, NEW r \in Request, Accept(r), Found(req[r].id)
    PROVE  /\ account' \in AccountRow /\ account'.id = account.id
           /\ account'.refreshToken # 0 =>
                UNCHANGED <<account.refreshToken, outlived>>
           /\ account'.password # account.password => req[r].op = "reset"
           /\ \A k \in Kind : \/ account'.code[k] = 0
                              \/ /\ account'.code[k] = account.code[k]
                                 /\ account'.attempts[k] = account.attempts[k]
           /\ account'.code[KindOf(req[r].op)] = 0
           /\ req' \in [Request -> Slot] /\ req'[r] = Idle
           /\ \A q \in Request : q # r =>
               UNCHANGED <<req[q].pc, req[q].op, req[q].id, req[q].code, req[q].new>>
           /\ outlived' \subseteq {"logout", "reset"}
<1>1. /\ account \in AccountRow /\ TypeOK /\ req[r].op \in {"verify", "reset"}
      /\ (req[r].op = "reset" => req[r].new \in Password)
  BY DEF Accept, AcceptVerify, AcceptReset, Reset, Found, Registered, IInv,
         TypeOK, SlotInv, SlotOK
<1>2. CASE req[r].op = "verify"
  <2>1. PICK b : b = [account EXCEPT !.isVerified = TRUE,
                        !.code["verify"] = 0, !.attempts["verify"] = 0]
    OBVIOUS
  <2>2. /\ account' = b /\ req' = [req EXCEPT ![r] = Idle]
        /\ UNCHANGED outlived
    BY <1>2, <2>1 DEF Accept, AcceptVerify, AcceptReset, Reset, Answer
  <2>3. /\ b \in AccountRow /\ b.id = account.id
        /\ b.refreshToken = account.refreshToken
        /\ b.password = account.password
        /\ b.code["verify"] = 0 /\ b.code["reset"] = account.code["reset"]
        /\ b.attempts["reset"] = account.attempts["reset"]
    BY <1>1, <2>1 DEF AccountRow, Kind
  <2>4. /\ req' \in [Request -> Slot] /\ req'[r] = Idle
        /\ \A q \in Request : q # r => req'[q] = req[q]
        /\ outlived' \subseteq {"logout", "reset"}
    BY <1>1, <2>2, IdleSlot DEF TypeOK
  <2>5. account' = b /\ UNCHANGED outlived
    BY <2>2
  <2>6. QED BY <1>2, <2>3, <2>4, <2>5 DEF Kind, KindOf
<1>3. CASE req[r].op = "reset"
  <2>1. PICK b : b = [account EXCEPT !.password = req[r].new,
                        !.refreshToken = 0,
                        !.code["reset"] = 0, !.attempts["reset"] = 0]
    OBVIOUS
  <2>2. account' = b /\ EndSessions(r, "reset")
    BY <1>3, <2>1 DEF Accept, AcceptVerify, AcceptReset, Reset
  <2>3. /\ b \in AccountRow /\ b.id = account.id /\ b.refreshToken = 0
        /\ b.code["reset"] = 0 /\ b.code["verify"] = account.code["verify"]
        /\ b.attempts["verify"] = account.attempts["verify"]
    BY <1>1, <1>3, <2>1 DEF AccountRow, Kind
  <2>4. /\ req' \in [Request -> Slot] /\ req'[r] = Idle
        /\ \A q \in Request : q # r =>
             UNCHANGED <<req[q].pc, req[q].op, req[q].id, req[q].code, req[q].new>>
        /\ outlived' \subseteq {"logout", "reset"}
    BY <1>1, <2>2, EndSessionsEffect
  <2>5. account' = b
    BY <2>2
  <2>6. QED BY <1>3, <2>3, <2>4, <2>5 DEF Kind, KindOf
<1>4. QED BY <1>1, <1>2, <1>3

LEMMA AcceptStep ==
    ASSUME IInv, NEW r \in Request, Accept(r)
    PROVE  IInv'
<1>1. /\ req[r].pc = "accept" /\ TypeOK
      /\ req[r].code \in Code /\ codeOf[req[r].code] = req[r].id
      /\ UNCHANGED <<made, codeOf, lastMail, guesses, uncounted, astray>>
      /\ UNCHANGED issued /\ expired' \subseteq Kind
  BY DEF Accept, AcceptVerify, AcceptReset, Reset, IInv, TypeOK, SlotInv, SlotOK
<1>2. CASE ~Found(req[r].id)
  BY <1>1, <1>2, EndOfCall
  DEF Accept, AcceptVerify, AcceptReset, Reset, Answer, history
<1>3. CASE Found(req[r].id)
  <2>1. Registered /\ account.id = req[r].id
    BY <1>3 DEF Found
  <2>2. /\ accepted' \in [Code -> Nat]
        /\ \A c \in Code : accepted[c] <= accepted'[c]
        /\ accepted'[req[r].code] > 0
    <3>1. /\ accepted \in [Code -> Nat]
          /\ accepted' = [accepted EXCEPT ![req[r].code] = @ + 1]
      BY <1>1, <1>3 DEF Accept, AcceptVerify, AcceptReset, Reset, TypeOK
    <3>2. QED BY <1>1, <3>1
  <2>3. issued' \subseteq 1 .. made.accounts
    BY <1>1 DEF TypeOK
  <2>4. PICK b : b = account'
    OBVIOUS
  <2>5. /\ b \in AccountRow /\ b.id = account.id
        /\ b.refreshToken \in {0, account.refreshToken}
        /\ \A k \in Kind : \/ b.code[k] = 0
                           \/ /\ b.code[k] = account.code[k]
                              /\ b.attempts[k] = account.attempts[k]
        /\ req' \in [Request -> Slot] /\ req'[r] = Idle
        /\ \A q \in Request : q # r =>
             UNCHANGED <<req[q].pc, req[q].op, req[q].id, req[q].code, req[q].new>>
        /\ outlived' \subseteq {"logout", "reset"}
    BY <1>3, <2>4, AcceptEffect
  <2>6. \E c \in Code : codeOf[c] = account.id /\ accepted'[c] > 0
    BY <1>1, <2>1, <2>2
  <2>7. QED BY <1>1, <2>1, <2>2, <2>3, <2>4, <2>5, <2>6, RowUpdate
<1>4. QED BY <1>2, <1>3

LEMMA DeleteAccountStep ==
    ASSUME IInv, DeleteAccount
    PROVE  IInv'
<1>1. /\ ~Registered' /\ account' = NoAccount /\ outlived' = {}
      /\ UNCHANGED <<made, codeOf, lastMail, req, guesses>>
      /\ UNCHANGED <<accepted, uncounted, issued>>
      /\ expired' = {} /\ astray' = {}
  BY DEF DeleteAccount, Registered
<1>2. TypeOK'
  BY <1>1 DEF IInv, TypeOK
<1>3. SlotInv'
  BY <1>1 DEF IInv, SlotInv, SlotOK
<1>4. CountInv' /\ AttemptsBounded'
  BY <1>1 DEF IInv, CountInv, AttemptsBounded
<1>5. QED BY <1>1, <1>2, <1>3, <1>4 DEF IInv, CodesInv, OwnDataOnly

\* A step that may let a code expire, and changes nothing else.
LEMMA ExpireStep ==
    ASSUME IInv, UNCHANGED <<account, made, codeOf, lastMail, req, history>>,
           expired' \subseteq Kind
    PROVE  IInv'
<1>1. UNCHANGED <<guesses, accepted, uncounted, astray, issued, outlived>>
  BY DEF history
<1>2. TypeOK'
  BY <1>1 DEF IInv, TypeOK, Registered
<1>3. SlotInv' /\ CodesInv' /\ OwnDataOnly'
  BY <1>1 DEF IInv, SlotInv, SlotOK, CodesInv, OwnDataOnly, Registered
<1>4. \A c : Counting(c)' = Counting(c)
  BY DEF Counting
<1>5. CountInv' /\ AttemptsBounded'
  BY <1>1, <1>4 DEF IInv, CountInv, AttemptsBounded, Registered
<1>6. QED BY <1>2, <1>3, <1>5 DEF IInv

-----------------------------------------------------------------------------
LEMMA Inductive == IInv /\ [Next]_vars => IInv'
<1> SUFFICES ASSUME IInv, [Next]_vars PROVE IInv'
  OBVIOUS
<1>1. ASSUME NEW r \in Request, Arrive(r) PROVE IInv'
  BY <1>1, ArriveStep, CheckCodeStep DEF Arrive
<1>2. ASSUME NEW r \in Request, Serve(r) PROVE IInv'
  BY <1>2, CreateUserStep, IssueCodeStep, MailCodeStep, StoreTokenStep,
     ClearTokenStep, CountAttemptStep, AcceptStep, SetPasswordStep
  DEF Serve, Accept
<1>3. ASSUME NEW r \in Request, Fail(r) PROVE IInv'
  BY <1>3, FailStep
<1>4. CASE DeleteAccount
  BY <1>4, DeleteAccountStep
<1>5. ASSUME NEW k \in Kind, Expire(k) PROVE IInv'
  <2>1. expired' \subseteq Kind
    BY <1>5 DEF Expire, IInv, TypeOK
  <2>2. QED BY <1>5, <2>1, ExpireStep DEF Expire
<1>6. CASE UNCHANGED vars
  <2>1. expired' \subseteq Kind
    BY <1>6 DEF IInv, TypeOK, vars
  <2>2. QED BY <1>6, <2>1, ExpireStep DEF vars
<1>7. QED BY <1>1, <1>2, <1>3, <1>4, <1>5, <1>6 DEF Next

LEMMA Invariant == Spec => []IInv
BY Initially, Inductive, PTL DEF Spec

\* The row, the slots and the history hold values of their types in every
\* reachable state, for every number of slots and every limit.
THEOREM TypeCorrect == Spec => []TypeOK
<1>1. IInv => TypeOK
  BY DEF IInv
<1>2. QED BY <1>1, Invariant, PTL

\* An address that is registered again starts from nothing: however many calls
\* for a deleted account are still in flight, its token, its codes and its
\* verification are its own.
THEOREM StartsFromNothing == Spec => []OwnDataOnly
<1>1. IInv => OwnDataOnly
  BY DEF IInv
<1>2. QED BY <1>1, Invariant, PTL

\* The check of the attempts and the increment are two steps: a code survives
\* no more wrong answers than the limit and one for every other call in flight
\* and for every count that was lost.
THEOREM LimitHolds == Spec => []AttemptsBounded
<1>1. IInv => AttemptsBounded
  BY DEF IInv
<1>2. QED BY <1>1, Invariant, PTL


-----------------------------------------------------------------------------
(***************************************************************************)
(* How often a code is accepted if calls overlap: two that compare it      *)
(* before one of them writes both change the account.                      *)
(***************************************************************************)

\* The calls that are about to act on an answer c that was right.
Accepting(c) == {r \in Request : req[r].pc = "accept" /\ req[r].code = c}

\* No code that is still to come, or that the row waits for, was accepted.
FreshInv ==
    /\ \A c \in Code : c > made.codes => accepted[c] = 0
    /\ Registered => \A k \in Kind : account.code[k] # 0 =>
         accepted[account.code[k]] = 0

UseInv ==
    /\ FreshInv
    /\ \A c \in Code :
         accepted[c] + Cardinality(Accepting(c)) <= Cardinality(Request)

LEMMA AcceptingFinite ==
    ASSUME NEW c
    PROVE  /\ IsFiniteSet(Accepting(c)) /\ Cardinality(Accepting(c)) \in Nat
           /\ Cardinality(Accepting(c)) <= Cardinality(Request)
           /\ Cardinality(Request) \in Nat
<1>1. Accepting(c) \subseteq Request
  BY DEF Accepting
<1>2. QED BY <1>1, RequestFinite, FS_Subset, FS_CardinalityType

LEMMA UseInitially == Init => UseInv
<1> SUFFICES ASSUME Init PROVE UseInv
  OBVIOUS
<1>1. FreshInv
  BY DEF Init, FreshInv, Registered
<1>2. ASSUME NEW c \in Code
      PROVE  accepted[c] + Cardinality(Accepting(c)) <= Cardinality(Request)
  BY AcceptingFinite DEF Init
<1>3. QED BY <1>1, <1>2 DEF UseInv

\* A step that accepts no code and finds none right.
LEMMA UseQuiet ==
    ASSUME IInv, IInv', UseInv, UNCHANGED accepted, made.codes <= made'.codes,
           \A q \in Request : req'[q].pc = "accept" =>
               req[q].pc = "accept" /\ req'[q].code = req[q].code,
           Registered' => \A k \in Kind :
               \/ account'.code[k] = 0 \/ account'.code[k] > made.codes
               \/ Registered /\ account'.code[k] = account.code[k]
    PROVE  UseInv'
<1>1. /\ made.codes \in Nat /\ made'.codes \in Nat
      /\ accepted \in [Code -> Nat] /\ \A c \in Code : c \in Nat
      /\ Registered' => \A k \in Kind : account'.code[k] \in Code \cup {0}
  BY BoundsNat DEF IInv, TypeOK, Code, Registered, AccountRow
<1>2. FreshInv'
  <2>1. \A c \in Code : c > made'.codes => accepted[c] = 0
    BY <1>1 DEF UseInv, FreshInv
  <2>2. ASSUME Registered', NEW k \in Kind, account'.code[k] # 0
        PROVE  accepted[account'.code[k]] = 0
    BY <1>1, <2>2 DEF UseInv, FreshInv
  <2>3. QED BY <2>1, <2>2 DEF FreshInv
<1>3. ASSUME NEW c \in Code
      PROVE  accepted[c] + Cardinality(Accepting(c)') <= Cardinality(Request)
  <2>1. Accepting(c)' \subseteq Accepting(c)
    BY DEF Accepting
  <2>2. /\ Cardinality(Accepting(c)') <= Cardinality(Accepting(c))
        /\ Cardinality(Accepting(c)') \in Nat
    BY <2>1, AcceptingFinite, FS_Subset, FS_CardinalityType
  <2>3. accepted[c] + Cardinality(Accepting(c)) <= Cardinality(Request)
    BY DEF UseInv
  <2>4. Cardinality(Accepting(c)) \in Nat /\ Cardinality(Request) \in Nat
    BY AcceptingFinite
  <2>5. QED BY <1>1, <2>2, <2>3, <2>4
<1>4. QED BY <1>2, <1>3 DEF UseInv, Accepting

\* A right answer: the code was not accepted before.
LEMMA UseCheckCode ==
    ASSUME IInv, IInv', UseInv, NEW r \in Request, NEW op \in Op, NEW c,
           NEW p \in Password, CheckCode(r, op, c, p)
    PROVE  UseInv'
<1>1. PICK k, code, s, t :
        /\ k = KindOf(op) /\ code = account.code[k]
        /\ s = [Call("accept", op, account.id) EXCEPT !.code = code, !.new = p]
        /\ t = [Call("count", op, account.id) EXCEPT !.code = code]
  OBVIOUS
<1>2. /\ UNCHANGED <<account, made, accepted>> /\ req \in [Request -> Slot]
      /\ made.codes \in Nat
  BY BoundsNat DEF CheckCode, Compare, IInv, TypeOK
<1>3. \/ req' = [req EXCEPT ![r] = Idle]
      \/ req' = [req EXCEPT ![r] = t]
      \/ Registered /\ code # 0 /\ req' = [req EXCEPT ![r] = s]
  BY <1>1 DEF CheckCode, Compare, Answer, Start
<1>4. s.code = code /\ t.pc = "count"
  BY <1>1 DEF Call, Idle
<1>5. CASE req' = [req EXCEPT ![r] = Idle] \/ req' = [req EXCEPT ![r] = t]
  <2>1. \A q \in Request : req'[q].pc = "accept" => req'[q] = req[q]
    BY <1>2, <1>4, <1>5, IdleSlot
  <2>2. QED BY <1>2, <2>1, UseQuiet DEF Registered
<1>6. CASE Registered /\ code # 0 /\ req' = [req EXCEPT ![r] = s]
  <2>1. accepted[code] = 0 /\ code \in Code
    <3>1. k \in Kind
      BY <1>1, KindOfType
    <3>2. code \in Code
      BY <1>1, <1>6, <3>1 DEF IInv, TypeOK, Registered, AccountRow
    <3>3. QED BY <1>1, <1>6, <3>1, <3>2 DEF UseInv, FreshInv
  <2>2. ASSUME NEW d \in Code
        PROVE  accepted[d] + Cardinality(Accepting(d)') <= Cardinality(Request)
    <3>1. CASE d = code
      <4>1. Accepting(d)' \subseteq Request
        BY DEF Accepting
      <4>2. /\ Cardinality(Accepting(d)') <= Cardinality(Request)
            /\ Cardinality(Accepting(d)') \in Nat
        BY <4>1, RequestFinite, FS_Subset, FS_CardinalityType
      <4>3. QED BY <2>1, <3>1, <4>2
    <3>2. CASE d # code
      <4>1. Accepting(d)' \subseteq Accepting(d)
        BY <1>2, <1>4, <1>6, <3>2 DEF Accepting
      <4>2. /\ Cardinality(Accepting(d)') <= Cardinality(Accepting(d))
            /\ Cardinality(Accepting(d)') \in Nat
        BY <4>1, AcceptingFinite, FS_Subset, FS_CardinalityType
      <4>3. /\ accepted[d] \in Nat
            /\ accepted[d] + Cardinality(Accepting(d)) <= Cardinality(Request)
        BY DEF UseInv, IInv, TypeOK
      <4>4. Cardinality(Accepting(d)) \in Nat /\ Cardinality(Request) \in Nat
        BY AcceptingFinite
      <4>5. QED BY <4>2, <4>3, <4>4
    <3>3. QED BY <3>1, <3>2
  <2>3. FreshInv'
    BY <1>2 DEF UseInv, FreshInv, Registered
  <2>4. QED BY <1>2, <2>2, <2>3 DEF UseInv, Accepting
<1>7. QED BY <1>3, <1>5, <1>6

\* The update takes the code from the row: one acceptance more, and one call
\* less that has it still to make.
LEMMA UseAccept ==
    ASSUME IInv, IInv', UseInv, NEW r \in Request, Accept(r)
    PROVE  UseInv'
<1>1. /\ req[r].pc = "accept" /\ UNCHANGED made /\ req \in [Request -> Slot]
      /\ req[r].code \in Code /\ req[r].code <= made.codes
      /\ made.codes \in Nat /\ accepted \in [Code -> Nat]
  BY BoundsNat DEF Accept, AcceptVerify, AcceptReset, Reset, IInv, TypeOK,
                   SlotInv, SlotOK
<1>2. CASE ~Found(req[r].id)
  <2>1. /\ UNCHANGED <<account, accepted>>
        /\ \A q \in Request : req'[q].pc = "accept" => req'[q] = req[q]
    BY <1>1, <1>2, IdleSlot DEF Accept, AcceptVerify, AcceptReset, Reset, Answer
  <2>2. QED BY <1>1, <2>1, UseQuiet DEF Registered
<1>3. CASE Found(req[r].id)
  <2>1. PICK c, k : c = req[r].code /\ k = KindOf(req[r].op)
    OBVIOUS
  <2>2. /\ Registered /\ c \in Code /\ c <= made.codes /\ c \in Nat
        /\ \A l \in Kind : account.code[l] = c => l = k
    BY <1>1, <1>3, <2>1, ComparedCode DEF Found, Code
  <2>3. /\ accepted' \in [Code -> Nat] /\ accepted'[c] = accepted[c] + 1
        /\ \A d \in Code : d # c => accepted'[d] = accepted[d]
    <3>1. accepted' = [accepted EXCEPT ![c] = @ + 1]
      BY <1>3, <2>1 DEF Accept, AcceptVerify, AcceptReset, Reset
    <3>2. QED BY <1>1, <2>2, <3>1
  <2>4. /\ account'.code[k] = 0 /\ req'[r] = Idle
        /\ \A l \in Kind : account'.code[l] \in {0, account.code[l]}
        /\ \A q \in Request : q # r =>
             UNCHANGED <<req[q].pc, req[q].op, req[q].id, req[q].code, req[q].new>>
    BY <1>3, <2>1, AcceptEffect
  <2>5. FreshInv'
    <3>1. \A d \in Code : d > made.codes => accepted'[d] = 0
      BY <1>1, <2>2, <2>3 DEF UseInv, FreshInv, Code
    <3>2. ASSUME NEW l \in Kind, account'.code[l] # 0
          PROVE  accepted'[account'.code[l]] = 0
      <4>1. /\ account'.code[l] = account.code[l] /\ account.code[l] # c
            /\ account.code[l] \in Code
        BY <2>2, <2>4, <3>2 DEF IInv, TypeOK, Registered, AccountRow
      <4>2. QED BY <2>2, <2>3, <3>2, <4>1 DEF UseInv, FreshInv
    <3>3. QED BY <1>1, <3>1, <3>2 DEF FreshInv
  <2>6. /\ Accepting(c)' = Accepting(c) \ {r} /\ r \in Accepting(c)
        /\ \A d : d # c => Accepting(d)' = Accepting(d)
    BY <1>1, <2>1, <2>4, IdleSlot DEF Accepting
  <2>7. ASSUME NEW d \in Code
        PROVE  accepted'[d] + Cardinality(Accepting(d)') <= Cardinality(Request)
    <3>1. /\ accepted[d] \in Nat
          /\ accepted[d] + Cardinality(Accepting(d)) <= Cardinality(Request)
      BY <1>1 DEF UseInv
    <3>2. CASE d = c
      <4>1. IsFiniteSet(Accepting(c)) /\ Cardinality(Accepting(c)) \in Nat
        BY AcceptingFinite
      <4>2. Cardinality(Accepting(c) \ {r}) = Cardinality(Accepting(c)) - 1
        BY <2>6, <4>1, FS_RemoveElement
      <4>3. Cardinality(Accepting(d)') = Cardinality(Accepting(d)) - 1
        BY <2>6, <3>2, <4>2
      <4>4. Cardinality(Accepting(d)) \in Nat /\ Cardinality(Request) \in Nat
        BY AcceptingFinite
      <4>5. QED BY <2>3, <3>1, <3>2, <4>3, <4>4
    <3>3. CASE d # c
      BY <2>3, <2>6, <3>1, <3>3
    <3>4. QED BY <3>2, <3>3
  <2>8. QED BY <2>5, <2>7 DEF UseInv, Accepting
<1>4. QED BY <1>2, <1>3

\* A call that arrives, but for the answers to a code, has a slot of its own and
\* neither a code to act on nor one to mail.
LEMMA Arriving ==
    ASSUME TypeOK, NEW r \in Request,
           \/ \E p \in Password : FindEmail(r, p) \/ CheckCredentials(r, p)
           \/ \E id \in 1 .. made.accounts : CheckToken(r, id)
           \/ \E op \in Op : FindForCode(r, op)
           \/ \E id \in 1 .. made.accounts : CheckLogout(r, id)
           \/ \E id \in 1 .. made.accounts, old, new \in Password :
                CheckPassword(r, id, old, new)
    PROVE  /\ UNCHANGED <<account, made, accepted, lastMail, astray>>
           /\ \A q \in Request : q # r => req'[q] = req[q]
           /\ req[r].pc = "idle" /\ req'[r].pc \notin {"accept", "mail"}
<1>1. req \in [Request -> Slot]
  BY DEF TypeOK
<1>2. UNCHANGED <<account, made, accepted, lastMail, astray>> /\ req[r].pc = "idle"
  BY DEF FindEmail, CheckCredentials, CheckToken, FindForCode,
              CheckLogout, CheckPassword, history
<1>3. \A q \in Request : q # r => req'[q] = req[q]
  BY <1>1 DEF FindEmail, CheckCredentials, CheckToken, FindForCode,
                    CheckLogout, CheckPassword, Answer, Start
<1>4. req'[r].pc \notin {"accept", "mail"}
  <2>1. ASSUME NEW p \in Password, FindEmail(r, p)
        PROVE  req'[r].pc \notin {"accept", "mail"}
    <3>1. PICK s : s = [Call("insert", "register", 0) EXCEPT !.new = p]
      OBVIOUS
    <3>2. s.pc \notin {"accept", "mail"}
      BY <3>1 DEF Call, Idle
    <3>3. req'[r] = Idle \/ req'[r] = s
      BY <1>1, <2>1, <3>1 DEF FindEmail, Answer, Start
    <3>4. QED BY <3>2, <3>3, IdleSlot
  <2>2. ASSUME NEW p \in Password, CheckCredentials(r, p)
        PROVE  req'[r].pc \notin {"accept", "mail"}
    <3>1. PICK s : s = Call("store", "login", account.id)
      OBVIOUS
    <3>2. s.pc \notin {"accept", "mail"}
      BY <3>1 DEF Call, Idle
    <3>3. req'[r] = Idle \/ req'[r] = s
      BY <1>1, <2>2, <3>1 DEF CheckCredentials, Answer, Start
    <3>4. QED BY <3>2, <3>3, IdleSlot
  <2>3. ASSUME NEW id \in 1 .. made.accounts, CheckToken(r, id)
        PROVE  req'[r].pc \notin {"accept", "mail"}
    <3>1. PICK s : s = [Call("store", "refresh", id) EXCEPT !.late = outlived]
      OBVIOUS
    <3>2. s.pc \notin {"accept", "mail"}
      BY <3>1 DEF Call, Idle
    <3>3. req'[r] = Idle \/ req'[r] = s
      BY <1>1, <2>3, <3>1 DEF CheckToken, Answer, Start
    <3>4. QED BY <3>2, <3>3, IdleSlot
  <2>4. ASSUME NEW op \in Op, FindForCode(r, op)
        PROVE  req'[r].pc \notin {"accept", "mail"}
    <3>1. PICK s : s = Call("issue", op, account.id)
      OBVIOUS
    <3>2. s.pc \notin {"accept", "mail"}
      BY <3>1 DEF Call, Idle
    <3>3. req'[r] = Idle \/ req'[r] = s
      BY <1>1, <2>4, <3>1 DEF FindForCode, Answer, Start
    <3>4. QED BY <3>2, <3>3, IdleSlot
  <2>5. ASSUME NEW id \in 1 .. made.accounts, CheckLogout(r, id)
        PROVE  req'[r].pc \notin {"accept", "mail"}
    <3>1. PICK s : s = Call("clear", "logout", id)
      OBVIOUS
    <3>2. s.pc \notin {"accept", "mail"}
      BY <3>1 DEF Call, Idle
    <3>3. req'[r] = Idle \/ req'[r] = s
      BY <1>1, <2>5, <3>1 DEF CheckLogout, Answer, Start
    <3>4. QED BY <3>2, <3>3, IdleSlot
  <2>6. ASSUME NEW id \in 1 .. made.accounts, NEW old \in Password,
               NEW new \in Password, CheckPassword(r, id, old, new)
        PROVE  req'[r].pc \notin {"accept", "mail"}
    <3>1. PICK s : s = [Call("set", "change", id)
                     EXCEPT !.old = old, !.new = new]
      OBVIOUS
    <3>2. s.pc \notin {"accept", "mail"}
      BY <3>1 DEF Call, Idle
    <3>3. req'[r] = Idle \/ req'[r] = s
      BY <1>1, <2>6, <3>1 DEF CheckPassword, Answer, Start
    <3>4. QED BY <3>2, <3>3, IdleSlot
  <2>7. QED BY <2>1, <2>2, <2>3, <2>4, <2>5, <2>6
<1>5. QED BY <1>2, <1>3, <1>4

LEMMA UseInductive == Spec => []UseInv
<1>1. IInv /\ IInv' /\ UseInv /\ [Next]_vars => UseInv'
  <2> SUFFICES ASSUME IInv, IInv', UseInv, [Next]_vars PROVE UseInv'
    OBVIOUS
  <2>1. /\ req \in [Request -> Slot] /\ made.codes \in Nat
        /\ made.codes <= made.codes /\ made \in [accounts : Nat, codes : Nat]
    BY BoundsNat DEF IInv, TypeOK
  <2>2. ASSUME NEW r \in Request, Arrive(r) PROVE UseInv'
    <3>1. CASE \E op \in Op, c \in 0 .. made.codes, p \in Password :
                 CheckCode(r, op, c, p)
      BY <3>1, UseCheckCode
    <3>2. CASE ~\E op \in Op, c \in 0 .. made.codes, p \in Password :
                 CheckCode(r, op, c, p)
      <4>1. /\ UNCHANGED <<account, made, accepted>>
            /\ \A q \in Request : q # r => req'[q] = req[q]
            /\ req'[r].pc # "accept"
        BY <2>2, <3>2, Arriving DEF Arrive, IInv
      <4>2. QED BY <2>1, <4>1, UseQuiet DEF Registered
    <3>3. QED BY <3>1, <3>2
  <2>3. ASSUME NEW r \in Request, CreateUser(r) PROVE UseInv'
    <3>1. /\ UNCHANGED accepted /\ made'.codes = made.codes
          /\ Registered' => \A k \in Kind :
               \/ account'.code[k] = 0
               \/ Registered /\ account'.code[k] = account.code[k]
      BY <2>1, <2>3 DEF CreateUser, history, Registered
    <3>2. \A q \in Request : q # r => req'[q] = req[q]
      BY <2>1, <2>3 DEF CreateUser, Answer, Start
    <3>3. req'[r].pc # "accept"
      <4>1. Call("issue", "register", made.accounts + 1).pc # "accept"
        BY DEF Call, Idle
      <4>2. \/ req'[r] = Idle
            \/ req'[r] = Call("issue", "register", made.accounts + 1)
        BY <2>1, <2>3 DEF CreateUser, Answer, Start
      <4>3. QED BY <4>1, <4>2, IdleSlot
    <3>4. QED BY <2>1, <3>1, <3>2, <3>3, UseQuiet
  <2>4. ASSUME NEW r \in Request, IssueCode(r) PROVE UseInv'
    <3>1. CASE ~Found(req[r].id)
      <4>1. /\ UNCHANGED <<account, made, accepted>>
            /\ \A q \in Request : req'[q].pc = "accept" => req'[q] = req[q]
        BY <2>1, <2>4, <3>1, IdleSlot DEF IssueCode, Issue, Answer
      <4>2. QED BY <2>1, <4>1, UseQuiet DEF Registered
    <3>2. CASE Found(req[r].id)
      <4>1. PICK c, k : c = made.codes + 1 /\ k = KindOf(req[r].op)
        OBVIOUS
      <4>2. /\ account'.code[k] = c
            /\ \A l \in Kind : l # k => account'.code[l] = account.code[l]
            /\ made' = [made EXCEPT !.codes = c]
            /\ req'[r].pc = "mail" /\ \A q \in Request : q # r => req'[q] = req[q]
        BY <2>4, <3>2, <4>1, IssueCodeEffect
      <4>3. Registered /\ UNCHANGED accepted
        BY <2>4, <3>2 DEF IssueCode, Issue, Found
      <4>4. c > made.codes /\ made'.codes = c /\ made.codes <= made'.codes
        BY <2>1, <4>1, <4>2
      <4>5. QED BY <4>2, <4>3, <4>4, UseQuiet
    <3>3. QED BY <3>1, <3>2
  <2>5. ASSUME NEW r \in Request,
               \/ MailCode(r) \/ StoreToken(r) \/ CountAttempt(r)
               \/ SetPassword(r) \/ Fail(r)
        PROVE  UseInv'
    <3>1. UNCHANGED <<made, accepted>>
      BY <2>5 DEF MailCode, StoreToken, Store, CountAttempt, SetPassword, Fail,
                  history
    <3>2. /\ \A q \in Request : q # r => req'[q] = req[q]
          /\ req'[r].pc # "accept"
      <4>1. req' = [req EXCEPT ![r].pc = "store"]
            \/ req' = [req EXCEPT ![r] = Idle]
        BY <2>5 DEF MailCode, StoreToken, Store, CountAttempt, SetPassword, Fail,
                    Answer, Goto
      <4>2. req[r] \in Slot
        BY <2>1
      <4>3. CASE req' = [req EXCEPT ![r].pc = "store"]
        BY <2>1, <4>2, <4>3 DEF Slot
      <4>4. CASE req' = [req EXCEPT ![r] = Idle]
        BY <2>1, <4>4, IdleSlot
      <4>5. QED BY <4>1, <4>3, <4>4
    <3>3. UNCHANGED account \/ (Registered /\ account'.code = account.code)
      BY <2>5 DEF MailCode, StoreToken, Store, CountAttempt, SetPassword, Fail,
                  Found, Registered, IInv, TypeOK, AccountRow
    <3>4. QED BY <2>1, <3>1, <3>2, <3>3, UseQuiet DEF Registered
  <2>6. ASSUME NEW r \in Request, ClearToken(r) PROVE UseInv'
    <3>1. UNCHANGED <<made, accepted>>
      BY <2>6 DEF ClearToken
    <3>2. \A q \in Request : req'[q].pc = "accept" =>
            req[q].pc = "accept" /\ req'[q].code = req[q].code
      <4>1. CASE req' = [req EXCEPT ![r] = Idle]
        BY <2>1, <4>1, IdleSlot
      <4>2. CASE EndSessions(r, "logout")
        <5>1. req'[r] = Idle /\ \A q \in Request : q # r =>
                UNCHANGED <<req[q].pc, req[q].op, req[q].id, req[q].code>>
          BY <4>2, EndSessionsEffect DEF IInv
        <5>2. QED BY <5>1, IdleSlot
      <4>3. QED BY <2>6, <4>1, <4>2 DEF ClearToken, Answer
    <3>3. UNCHANGED account \/ (Registered /\ account'.code = account.code)
      BY <2>6 DEF ClearToken, Found, Registered, IInv, TypeOK, AccountRow
    <3>4. QED BY <2>1, <3>1, <3>2, <3>3, UseQuiet DEF Registered
  <2>7. CASE DeleteAccount \/ UNCHANGED vars \/ \E k \in Kind : Expire(k)
    <3>1. /\ UNCHANGED <<made, req, accepted>>
          /\ Registered' => UNCHANGED account
      BY <2>7 DEF DeleteAccount, Expire, vars, history, Registered
    <3>2. QED BY <2>1, <3>1, UseQuiet DEF Registered
  <2>8. ASSUME NEW r \in Request, Serve(r) PROVE UseInv'
    BY <2>3, <2>4, <2>5, <2>6, <2>8, UseAccept DEF Serve, Accept
  <2>9. QED BY <2>2, <2>5, <2>7, <2>8 DEF Next
<1>2. QED BY <1>1, UseInitially, Invariant, PTL DEF Spec

\* The check of a code and the update that takes it away are two steps: a code
\* changes the account no more often than there are calls in flight, and only
\* while the account waits for it.
THEOREM UsesBounded == Spec => []CodesRunOut
<1>1. IInv /\ UseInv => CodesRunOut
  <2> SUFFICES ASSUME IInv, UseInv, NEW c \in Code
               PROVE  accepted[c] <= Cardinality(Request)
    BY DEF CodesRunOut
  <2>1. /\ accepted[c] \in Nat
        /\ accepted[c] + Cardinality(Accepting(c)) <= Cardinality(Request)
    BY DEF IInv, TypeOK, UseInv
  <2>2. Cardinality(Accepting(c)) \in Nat /\ Cardinality(Request) \in Nat
    BY AcceptingFinite
  <2>3. QED BY <2>1, <2>2
<1>2. QED BY <1>1, UseInductive, Invariant, PTL

-----------------------------------------------------------------------------
(***************************************************************************)
(* The mails if calls overlap: a code is written, and later mailed.        *)
(***************************************************************************)

\* Of a code that is not astray, any mail to come is its own, and if there is
\* none, its mail was the last.
MailInv ==
    Registered =>
        \A k \in Kind : account.code[k] # 0 /\ k \notin astray =>
            /\ \A q \in Request : req[q].pc = "mail" /\ KindOf(req[q].op) = k =>
                                      req[q].code = account.code[k]
            /\ account.code[k] = lastMail[k] \/ Mailing(k)

LEMMA MailInitially == Init => MailInv
BY DEF Init, MailInv, Registered

\* A step that writes no code and mails none.
LEMMA MailQuiet ==
    ASSUME MailInv, UNCHANGED lastMail,
           \A q \in Request :
               /\ req'[q].pc = "mail" <=> req[q].pc = "mail"
               /\ req[q].pc = "mail" => UNCHANGED <<req[q].op, req[q].code>>,
           Registered' => UNCHANGED astray,
           Registered' => \A k \in Kind :
               \/ account'.code[k] = 0
               \/ Registered /\ account'.code[k] = account.code[k]
    PROVE  MailInv'
<1> SUFFICES ASSUME Registered', NEW k \in Kind, account'.code[k] # 0,
                    k \notin astray'
             PROVE  /\ \A q \in Request :
                         req'[q].pc = "mail" /\ KindOf(req'[q].op) = k =>
                             req'[q].code = account'.code[k]
                    /\ account'.code[k] = lastMail'[k] \/ Mailing(k)'
  BY DEF MailInv
<1>1. /\ Registered /\ account'.code[k] = account.code[k]
      /\ \A q \in Request : req[q].pc = "mail" /\ KindOf(req[q].op) = k =>
                                req[q].code = account.code[k]
      /\ account.code[k] = lastMail[k] \/ Mailing(k)
  BY DEF MailInv
<1>2. Mailing(k) => Mailing(k)'
  BY DEF Mailing
<1>3. QED BY <1>1, <1>2

\* A new code is not astray if no other mail of its kind is under way.
LEMMA MailIssue ==
    ASSUME IInv, MailInv, NEW r \in Request, IssueCode(r), Found(req[r].id)
    PROVE  MailInv'
<1>1. PICK c, j : c = made.codes + 1 /\ j = KindOf(req[r].op)
  OBVIOUS
<1>2. /\ \A l \in Kind : l # j => account'.code[l] = account.code[l]
      /\ account'.code[j] = c /\ j \in Kind
      /\ astray' = IF Mailing(j) THEN astray \cup {j} ELSE astray \ {j}
      /\ req'[r].pc = "mail" /\ req'[r].code = c
      /\ req'[r].op = req[r].op
      /\ \A q \in Request : q # r => req'[q] = req[q]
  BY <1>1, IssueCodeEffect
<1>3. Registered /\ UNCHANGED lastMail /\ req[r].pc = "issue"
  BY DEF IssueCode, Issue, Found
<1>4. KindOf(req'[r].op) = j
  BY <1>1, <1>2
<1> SUFFICES ASSUME NEW k \in Kind, account'.code[k] # 0, k \notin astray'
             PROVE  /\ \A q \in Request :
                         req'[q].pc = "mail" /\ KindOf(req'[q].op) = k =>
                             req'[q].code = account'.code[k]
                    /\ account'.code[k] = lastMail'[k] \/ Mailing(k)'
  BY DEF MailInv
<1>5. CASE k = j
  <2>1. ~Mailing(j)
    BY <1>2, <1>5
  <2>2. \A q \in Request : q # r => ~(req'[q].pc = "mail"
                                      /\ KindOf(req'[q].op) = j)
    BY <1>2, <2>1 DEF Mailing
  <2>3. Mailing(j)'
    BY <1>2, <1>4 DEF Mailing
  <2>4. QED BY <1>2, <1>5, <2>2, <2>3
<1>6. CASE k # j
  <2>1. account'.code[k] = account.code[k] /\ k \notin astray
    BY <1>2, <1>6
  <2>2. /\ \A q \in Request : req[q].pc = "mail" /\ KindOf(req[q].op) = k =>
                                  req[q].code = account.code[k]
        /\ account.code[k] = lastMail[k] \/ Mailing(k)
    BY <1>3, <2>1 DEF MailInv
  <2>3. Mailing(k) => Mailing(k)'
    BY <1>2, <1>3 DEF Mailing
  <2>4. QED BY <1>2, <1>3, <1>4, <1>6, <2>1, <2>2, <2>3
<1>7. QED BY <1>5, <1>6

\* Slot r has no mail to send any more: it was sent, or its code is astray.
LEMMA MailDone ==
    ASSUME IInv, MailInv, NEW r \in Request, req[r].pc = "mail",
           UNCHANGED account, req'[r].pc # "mail",
           \A q \in Request : q # r => req'[q] = req[q],
           NEW j, j = KindOf(req[r].op),
           \A k \in Kind : k # j => lastMail'[k] = lastMail[k],
           astray \subseteq astray',
           Registered /\ req[r].code = account.code[j] =>
               lastMail'[j] = req[r].code \/ j \in astray'
    PROVE  MailInv'
<1> SUFFICES ASSUME Registered, NEW k \in Kind, account.code[k] # 0,
                    k \notin astray'
             PROVE  /\ \A q \in Request :
                         req'[q].pc = "mail" /\ KindOf(req'[q].op) = k =>
                             req'[q].code = account.code[k]
                    /\ account.code[k] = lastMail'[k] \/ Mailing(k)'
  BY DEF MailInv, Registered
<1>1. /\ \A q \in Request : req[q].pc = "mail" /\ KindOf(req[q].op) = k =>
                                req[q].code = account.code[k]
      /\ account.code[k] = lastMail[k] \/ Mailing(k)
  BY DEF MailInv
<1>2. CASE k = j
  BY <1>1, <1>2
<1>3. CASE k # j
  <2>1. Mailing(k) => Mailing(k)'
    BY <1>3 DEF Mailing
  <2>2. QED BY <1>1, <1>3, <2>1
<1>4. QED BY <1>2, <1>3

LEMMA MailInductive == Spec => []MailInv
<1>1. IInv /\ MailInv /\ [Next]_vars => MailInv'
  <2> SUFFICES ASSUME IInv, MailInv, [Next]_vars PROVE MailInv'
    OBVIOUS
  <2>1. req \in [Request -> Slot] /\ TypeOK
    BY DEF IInv, TypeOK
  <2>2. ASSUME NEW r \in Request, Arrive(r) PROVE MailInv'
    <3>1. /\ UNCHANGED <<account, lastMail, astray>>
          /\ \A q \in Request : q # r => req'[q] = req[q]
          /\ req[r].pc = "idle" /\ req'[r].pc # "mail"
      <4>1. ASSUME NEW op \in Op, NEW c, NEW p \in Password,
                   CheckCode(r, op, c, p)
            PROVE  /\ UNCHANGED <<account, lastMail, astray>>
                   /\ \A q \in Request : q # r => req'[q] = req[q]
                   /\ req[r].pc = "idle" /\ req'[r].pc # "mail"
        <5>1. PICK s, u :
                /\ s = [Call("accept", op, account.id)
                          EXCEPT !.code = account.code[KindOf(op)], !.new = p]
                /\ u = [Call("count", op, account.id)
                          EXCEPT !.code = account.code[KindOf(op)]]
          OBVIOUS
        <5>2. s.pc = "accept" /\ u.pc = "count"
          BY <5>1 DEF Call, Idle
        <5>3. \/ req' = [req EXCEPT ![r] = Idle]
              \/ req' = [req EXCEPT ![r] = s] \/ req' = [req EXCEPT ![r] = u]
          BY <4>1, <5>1 DEF CheckCode, Compare, Answer, Start
        <5>4. req'[r].pc # "mail" /\ \A q \in Request : q # r => req'[q] = req[q]
          BY <2>1, <5>2, <5>3, IdleSlot
        <5>5. QED BY <4>1, <5>4 DEF CheckCode, Compare
      <4>2. QED BY <2>1, <2>2, <4>1, Arriving DEF Arrive
    <3>2. QED BY <3>1, MailQuiet DEF Registered
  <2>3. ASSUME NEW r \in Request, CreateUser(r) PROVE MailInv'
    <3>1. CASE Registered
      <4>1. /\ UNCHANGED <<account, lastMail, astray>> /\ req[r].pc = "insert"
            /\ req' = [req EXCEPT ![r] = Idle]
        BY <2>3, <3>1 DEF CreateUser, Answer, history
      <4>2. req'[r] = Idle /\ \A q \in Request : q # r => req'[q] = req[q]
        BY <2>1, <4>1
      <4>3. QED BY <4>1, <4>2, IdleSlot, MailQuiet DEF Registered
    <3>2. CASE ~Registered
      <4>1. \A k \in Kind : account'.code[k] = 0
        BY <2>3, <3>2 DEF CreateUser
      <4>2. QED BY <4>1 DEF MailInv
    <3>3. QED BY <3>1, <3>2
  <2>4. ASSUME NEW r \in Request, IssueCode(r) PROVE MailInv'
    <3>1. CASE ~Found(req[r].id)
      <4>1. /\ UNCHANGED <<account, lastMail, astray>> /\ req[r].pc = "issue"
            /\ req' = [req EXCEPT ![r] = Idle]
        BY <2>4, <3>1 DEF IssueCode, Issue, Answer
      <4>2. req'[r] = Idle /\ \A q \in Request : q # r => req'[q] = req[q]
        BY <2>1, <4>1
      <4>3. QED BY <4>1, <4>2, IdleSlot, MailQuiet DEF Registered
    <3>2. QED BY <2>4, <3>1, MailIssue
  <2>5. ASSUME NEW r \in Request, MailCode(r) PROVE MailInv'
    <3>1. PICK j : j = KindOf(req[r].op)
      OBVIOUS
    <3>2. /\ req[r].pc = "mail" /\ UNCHANGED <<account, astray>>
          /\ lastMail' = [lastMail EXCEPT ![j] = req[r].code]
      BY <2>5, <3>1 DEF MailCode, history
    <3>3. /\ \A q \in Request : q # r => req'[q] = req[q]
          /\ req'[r].pc # "mail"
      BY <2>1, <2>5, IdleSlot DEF MailCode, Goto, Answer, Slot
    <3>4. lastMail'[j] = req[r].code
          /\ \A k \in Kind : k # j => lastMail'[k] = lastMail[k]
      BY <2>1, <3>1, <3>2, KindOfType DEF TypeOK
    <3>5. QED BY <3>1, <3>2, <3>3, <3>4, MailDone
  <2>6. ASSUME NEW r \in Request, Fail(r) PROVE MailInv'
    <3>1. /\ UNCHANGED <<account, lastMail>> /\ req'[r] = Idle
          /\ \A q \in Request : q # r => req'[q] = req[q]
      BY <2>1, <2>6 DEF Fail, Answer
    <3>2. CASE req[r].pc = "mail"
      <4>1. PICK j : j = KindOf(req[r].op)
        OBVIOUS
      <4>2. /\ astray \subseteq astray'
            /\ Registered /\ req[r].code = account.code[j] => j \in astray'
        BY <2>6, <3>2, <4>1 DEF Fail
      <4>3. QED BY <3>1, <3>2, <4>1, <4>2, IdleSlot, MailDone
    <3>3. CASE req[r].pc # "mail"
      <4>1. UNCHANGED astray
        BY <2>6, <3>3 DEF Fail
      <4>2. QED BY <3>1, <3>3, <4>1, IdleSlot, MailQuiet DEF Registered
    <3>4. QED BY <3>2, <3>3
  <2>7. ASSUME NEW r \in Request,
               StoreToken(r) \/ CountAttempt(r) \/ SetPassword(r)
        PROVE  MailInv'
    <3>1. /\ UNCHANGED <<lastMail, astray>> /\ req[r].pc # "mail"
          /\ req'[r] = Idle /\ \A q \in Request : q # r => req'[q] = req[q]
      BY <2>1, <2>7 DEF StoreToken, Store, CountAttempt, SetPassword, Answer,
                        history
    <3>2. UNCHANGED account \/ (Registered /\ account'.code = account.code)
      BY <2>1, <2>7 DEF StoreToken, Store, CountAttempt, SetPassword,
                        Found, Registered, TypeOK, AccountRow
    <3>3. QED BY <3>1, <3>2, IdleSlot, MailQuiet DEF Registered
  <2>8. ASSUME NEW r \in Request, ClearToken(r) \/ Accept(r) PROVE MailInv'
    <3>1. UNCHANGED <<lastMail, astray>> /\ req[r].pc # "mail"
      BY <2>8 DEF ClearToken, Accept, AcceptVerify, AcceptReset, Reset
    <3>2. CASE ~Found(req[r].id)
      <4>1. UNCHANGED account /\ req' = [req EXCEPT ![r] = Idle]
        BY <2>8, <3>2 DEF ClearToken, Accept, AcceptVerify, AcceptReset, Reset,
                          Answer
      <4>2. req'[r] = Idle /\ \A q \in Request : q # r => req'[q] = req[q]
        BY <2>1, <4>1
      <4>3. QED BY <3>1, <4>1, <4>2, IdleSlot, MailQuiet DEF Registered
    <3>3. CASE Found(req[r].id) /\ ClearToken(r)
      <4>1. /\ EndSessions(r, "logout") /\ Registered /\ account \in AccountRow
            /\ account' = [account EXCEPT !.refreshToken = 0]
        BY <2>1, <3>3 DEF ClearToken, Found, Registered, TypeOK
      <4>2. /\ req'[r] = Idle
            /\ \A q \in Request : q # r =>
                 UNCHANGED <<req[q].pc, req[q].op, req[q].id, req[q].code>>
        BY <2>1, <4>1, EndSessionsEffect
      <4>3. account'.code = account.code
        BY <4>1 DEF AccountRow
      <4>4. QED BY <3>1, <4>1, <4>2, <4>3, IdleSlot, MailQuiet
    <3>4. CASE Found(req[r].id) /\ Accept(r)
      <4>1. /\ req'[r] = Idle
            /\ \A k \in Kind : account'.code[k] \in {0, account.code[k]}
            /\ \A q \in Request : q # r =>
                 UNCHANGED <<req[q].pc, req[q].op, req[q].id, req[q].code>>
        BY <3>4, AcceptEffect
      <4>2. Registered
        BY <3>4 DEF Found
      <4>3. QED BY <3>1, <4>1, <4>2, IdleSlot, MailQuiet
    <3>5. QED BY <2>8, <3>2, <3>3, <3>4
  <2>9. CASE DeleteAccount \/ UNCHANGED vars \/ \E k \in Kind : Expire(k)
    <3>1. /\ UNCHANGED <<lastMail, req>>
          /\ Registered' => UNCHANGED <<account, astray>>
      BY <2>9 DEF DeleteAccount, Expire, vars, history, Registered
    <3>2. QED BY <3>1, MailQuiet DEF Registered
  <2>10. ASSUME NEW r \in Request, Serve(r) PROVE MailInv'
    BY <2>3, <2>4, <2>5, <2>7, <2>8, <2>10 DEF Serve, Accept
  <2>11. QED BY <2>2, <2>6, <2>9, <2>10 DEF Next
<1>2. QED BY <1>1, MailInitially, Invariant, PTL DEF Spec

\* However calls overlap, the code an account waits for is the one in the last
\* mail sent, or is still to be mailed, but for the codes that were stored and
\* not mailed, or stored while an older one was still to be mailed.
THEOREM MailedCodesWork == Spec => []LastMailWorks
<1>1. MailInv => LastMailWorks
  BY DEF MailInv, LastMailWorks, Mailing
<1>2. QED BY <1>1, MailInductive, PTL

-----------------------------------------------------------------------------
(***************************************************************************)
(* Calls that do not overlap: one slot, whatever the number of calls that  *)
(* pass through it one after the other.                                    *)
(***************************************************************************)
OneAtATime == \A r, q \in Request : r = q

\* The call in flight still acts on what it read; the account may only have
\* been deleted.
SeqSlot(r) ==
    LET s == req[r]
    IN  /\ s.late = {}
        /\ s.pc = "insert" => ~Registered
        /\ s.pc \notin {"idle", "insert"} /\ Registered =>
             /\ account.id = s.id
             /\ s.pc = "set" => account.password = s.old

SeqInv == (\A r \in Request : SeqSlot(r)) /\ SessionsEnd

LEMMA SeqInitially == Init => SeqInv
<1> SUFFICES ASSUME Init PROVE SeqInv
  OBVIOUS
<1>1. \A r \in Request : SeqSlot(r)
  BY IdleSlot DEF Init, SeqSlot
<1>2. QED BY <1>1 DEF Init, SeqInv, SessionsEnd, Registered

LEMMA SeqStep ==
    ASSUME OneAtATime, SeqInv, NEW r \in Request, SeqSlot(r)',
           Registered' /\ account'.refreshToken # 0 => outlived' = {}
    PROVE  SeqInv'
<1>1. \A q \in Request : SeqSlot(q)'
  BY DEF OneAtATime
<1>2. SessionsEnd'
  BY DEF SessionsEnd
<1>3. QED BY <1>1, <1>2 DEF SeqInv

LEMMA SeqIdle ==
    ASSUME NEW r \in Request, req'[r] = Idle PROVE SeqSlot(r)'
BY IdleSlot DEF SeqSlot

LEMMA SeqStart ==
    ASSUME OneAtATime, IInv, SeqInv, NEW r \in Request, NEW s \in Slot,
           s.late = {},
           s.pc = "insert" => ~Registered,
           s.pc \notin {"idle", "insert"} => Registered /\ account.id = s.id,
           s.pc = "set" => account.password = s.old,
           \/ req' = [req EXCEPT ![r] = Idle]
           \/ req' = [req EXCEPT ![r] = s],
           UNCHANGED <<account, outlived>>
    PROVE  SeqInv'
<1>1. req'[r] = Idle \/ req'[r] = s
  BY DEF IInv, TypeOK
<1>2. SeqSlot(r)'
  BY <1>1, SeqIdle DEF SeqSlot, Registered
<1>3. Registered' /\ account'.refreshToken # 0 => outlived' = {}
  BY DEF SeqInv, SessionsEnd, Registered
<1>4. QED BY <1>2, <1>3, SeqStep

\* The end of a call that wrote nothing but counts.
LEMMA SeqEnd ==
    ASSUME OneAtATime, IInv, SeqInv, NEW r \in Request,
           req' = [req EXCEPT ![r] = Idle], UNCHANGED outlived,
           Registered' => /\ Registered
                          /\ account'.refreshToken = account.refreshToken
    PROVE  SeqInv'
<1>1. SeqSlot(r)'
  BY SeqIdle DEF IInv, TypeOK
<1>2. Registered' /\ account'.refreshToken # 0 => outlived' = {}
  BY DEF SeqInv, SessionsEnd
<1>3. QED BY <1>1, <1>2, SeqStep

LEMMA SeqArrive ==
    ASSUME OneAtATime, IInv, SeqInv, NEW r \in Request, Arrive(r)
    PROVE  SeqInv'
<1>1. UNCHANGED <<account, outlived>>
  BY DEF Arrive, FindEmail, CheckCredentials, CheckToken, FindForCode,
         CheckCode, Compare, CheckLogout, CheckPassword, history
<1>2. CASE req' = [req EXCEPT ![r] = Idle]
  BY <1>1, <1>2, SeqEnd DEF Registered
<1>3. Registered => /\ account.id \in AccountId
                    /\ \A k \in Kind : account.code[k] \in Code \cup {0}
  BY IdType DEF IInv, TypeOK, Registered, AccountRow
<1>4. ASSUME NEW p \in Password, FindEmail(r, p) PROVE SeqInv'
  <2>1. PICK s : s = [Call("insert", "register", 0) EXCEPT !.new = p]
    OBVIOUS
  <2>2. s \in Slot /\ s.pc = "insert" /\ s.late = {}
    BY <2>1 DEF Call, Idle, Slot, Op
  <2>3. CASE ~Registered
    <3>1. req' = [req EXCEPT ![r] = s]
      BY <1>4, <2>1, <2>3 DEF FindEmail, Start
    <3>2. QED BY <1>1, <2>2, <2>3, <3>1, SeqStart
  <2>4. QED BY <1>2, <1>4, <2>3 DEF FindEmail, Answer
<1>5. ASSUME NEW p \in Password, CheckCredentials(r, p) PROVE SeqInv'
  <2>1. CASE Registered /\ req' = [req EXCEPT ![r] =
                                     Call("store", "login", account.id)]
    <3>1. PICK s : s = Call("store", "login", account.id)
      OBVIOUS
    <3>2. s \in Slot /\ s.pc = "store" /\ s.id = account.id /\ s.late = {}
      BY <1>3, <2>1, <3>1, NewCall DEF Op
    <3>3. QED BY <1>1, <2>1, <3>1, <3>2, SeqStart
  <2>2. QED BY <1>2, <1>5, <2>1 DEF CheckCredentials, Answer, Start
<1>6. ASSUME NEW id \in 1 .. made.accounts, CheckToken(r, id) PROVE SeqInv'
  <2>1. CASE /\ Found(id) /\ account.refreshToken = id
             /\ req' = [req EXCEPT ![r] = [Call("store", "refresh", id)
                                             EXCEPT !.late = outlived]]
    <3>1. id \in AccountId /\ id # 0
      BY IdType DEF IInv, AccountId
    <3>2. Registered /\ account.id = id /\ outlived = {}
      BY <2>1, <3>1 DEF SeqInv, SessionsEnd, Found
    <3>3. PICK s : s = [Call("store", "refresh", id) EXCEPT !.late = outlived]
      OBVIOUS
    <3>4. s \in Slot /\ s.pc = "store" /\ s.id = id /\ s.late = {}
      BY <3>1, <3>2, <3>3 DEF Call, Idle, Slot, Op
    <3>5. req' = [req EXCEPT ![r] = s]
      BY <2>1, <3>3
    <3>6. QED BY <1>1, <3>2, <3>4, <3>5, SeqStart
  <2>2. QED BY <1>2, <1>6, <2>1 DEF CheckToken, Answer, Start
<1>7. ASSUME NEW op \in Op, FindForCode(r, op) PROVE SeqInv'
  <2>1. CASE Registered /\ req' = [req EXCEPT ![r] =
                                     Call("issue", op, account.id)]
    <3>1. PICK s : s = Call("issue", op, account.id)
      OBVIOUS
    <3>2. s \in Slot /\ s.pc = "issue" /\ s.id = account.id /\ s.late = {}
      BY <1>3, <2>1, <3>1, NewCall
    <3>3. QED BY <1>1, <2>1, <3>1, <3>2, SeqStart
  <2>2. QED BY <1>2, <1>7, <2>1 DEF FindForCode, Answer, Start
<1>8. ASSUME NEW op \in Op, NEW c, NEW p \in Password, CheckCode(r, op, c, p)
      PROVE  SeqInv'
  <2>1. PICK k, code, s, t :
          /\ k = KindOf(op) /\ code = account.code[k]
          /\ s = [Call("accept", op, account.id) EXCEPT !.code = code, !.new = p]
          /\ t = [Call("count", op, account.id) EXCEPT !.code = code]
    OBVIOUS
  <2>2. \/ req' = [req EXCEPT ![r] = Idle]
        \/ /\ Registered
           /\ \/ req' = [req EXCEPT ![r] = s]
              \/ req' = [req EXCEPT ![r] = t]
    BY <1>8, <2>1 DEF CheckCode, Compare, Answer, Start
  <2>3. ASSUME Registered
        PROVE  /\ s \in Slot /\ s.pc = "accept" /\ s.id = account.id
               /\ s.op = op /\ s.code = code /\ s.late = {}
               /\ t \in Slot /\ t.pc = "count" /\ t.id = account.id /\ t.late = {}
    <3>1. account.id \in AccountId /\ code \in Code \cup {0}
      BY <1>3, <2>1, <2>3, KindOfType
    <3>2. /\ s \in Slot /\ s.pc = "accept" /\ s.id = account.id
          /\ s.op = op /\ s.code = code /\ s.late = {}
      BY <2>1, <3>1 DEF Call, Idle, Slot
    <3>3. t \in Slot /\ t.pc = "count" /\ t.id = account.id /\ t.late = {}
      BY <2>1, <3>1 DEF Call, Idle, Slot
    <3>4. QED BY <3>2, <3>3
  <2>4. CASE Registered /\ req' = [req EXCEPT ![r] = s]
    BY <1>1, <2>3, <2>4, SeqStart
  <2>5. CASE Registered /\ req' = [req EXCEPT ![r] = t]
    BY <1>1, <2>3, <2>5, SeqStart
  <2>6. QED BY <1>2, <2>2, <2>4, <2>5
<1>9. ASSUME NEW id \in 1 .. made.accounts, CheckLogout(r, id) PROVE SeqInv'
  <2>1. CASE Found(id) /\ req' = [req EXCEPT ![r] = Call("clear", "logout", id)]
    <3>1. PICK s : s = Call("clear", "logout", id)
      OBVIOUS
    <3>2. s \in Slot /\ s.pc = "clear" /\ s.id = id /\ s.late = {}
      BY <3>1, IdType, NewCall DEF IInv, Op
    <3>3. QED BY <1>1, <2>1, <3>1, <3>2, SeqStart DEF Found
  <2>2. QED BY <1>2, <1>9, <2>1 DEF CheckLogout, Answer, Start
<1>10. ASSUME NEW id \in 1 .. made.accounts, NEW old \in Password,
              NEW new \in Password, CheckPassword(r, id, old, new)
       PROVE  SeqInv'
  <2>1. CASE /\ Found(id) /\ account.password = old
             /\ req' = [req EXCEPT ![r] = [Call("set", "change", id)
                                             EXCEPT !.old = old, !.new = new]]
    <3>1. PICK s : s = [Call("set", "change", id) EXCEPT !.old = old, !.new = new]
      OBVIOUS
    <3>2. id \in AccountId
      BY IdType DEF IInv
    <3>3. s \in Slot /\ s.pc = "set" /\ s.id = id /\ s.old = old /\ s.late = {}
      BY <3>1, <3>2 DEF Call, Idle, Slot, Op
    <3>4. req' = [req EXCEPT ![r] = s] /\ Registered /\ account.id = id
      BY <2>1, <3>1 DEF Found
    <3>5. account.password = s.old
      BY <2>1, <3>3
    <3>6. QED BY <1>1, <3>3, <3>4, <3>5, SeqStart
  <2>2. QED BY <1>2, <1>10, <2>1 DEF CheckPassword, Answer, Start
<1>11. QED BY <1>4, <1>5, <1>6, <1>7, <1>8, <1>9, <1>10 DEF Arrive


LEMMA SeqCreateUser ==
    ASSUME OneAtATime, IInv, SeqInv, NEW r \in Request, CreateUser(r)
    PROVE  SeqInv'
<1>1. req[r].pc = "insert" /\ ~Registered
  BY DEF CreateUser, SeqInv, SeqSlot
<1>2. PICK id, s : id = made.accounts + 1 /\ s = Call("issue", "register", id)
  OBVIOUS
<1>3. /\ id \in AccountId /\ req' = [req EXCEPT ![r] = s]
      /\ account'.id = id /\ account'.refreshToken = 0
  BY <1>1, <1>2 DEF CreateUser, Start
<1>4. s.pc = "issue" /\ s.id = id /\ s.late = {} /\ req'[r] = s
  BY <1>2, <1>3, NewCall DEF Op, IInv, TypeOK
<1>5. SeqSlot(r)'
  BY <1>3, <1>4 DEF SeqSlot
<1>6. QED BY <1>3, <1>5, SeqStep

LEMMA SeqIssueCode ==
    ASSUME OneAtATime, IInv, SeqInv, NEW r \in Request, IssueCode(r)
    PROVE  SeqInv'
<1>1. req[r].pc = "issue" /\ UNCHANGED outlived
  BY DEF IssueCode, Issue
<1>2. CASE ~Found(req[r].id)
  BY <1>1, <1>2, SeqEnd DEF IssueCode, Issue, Answer, Registered
<1>3. CASE Found(req[r].id)
  <2>1. /\ account'.id = account.id
        /\ account'.refreshToken = account.refreshToken
        /\ req'[r].pc = "mail" /\ req'[r].id = req[r].id
        /\ req'[r].late = req[r].late
    BY <1>3, IssueCodeEffect
  <2>2. SeqSlot(r)'
    BY <1>3, <2>1 DEF SeqInv, SeqSlot, Found
  <2>3. Registered' /\ account'.refreshToken # 0 => outlived' = {}
    BY <1>1, <1>3, <2>1 DEF SeqInv, SessionsEnd, Found
  <2>4. QED BY <2>2, <2>3, SeqStep
<1>4. QED BY <1>2, <1>3

LEMMA SeqMailCode ==
    ASSUME OneAtATime, IInv, SeqInv, NEW r \in Request, MailCode(r)
    PROVE  SeqInv'
<1>1. req[r].pc = "mail" /\ UNCHANGED <<account, outlived>>
  BY DEF MailCode, history
<1>2. \/ req'[r] = Idle
      \/ /\ req'[r].pc = "store" /\ req'[r].id = req[r].id
         /\ req'[r].late = req[r].late
  BY DEF MailCode, Goto, Answer, IInv, TypeOK, Slot
<1>3. SeqSlot(r)'
  BY <1>1, <1>2, SeqIdle DEF SeqInv, SeqSlot, Registered
<1>4. Registered' /\ account'.refreshToken # 0 => outlived' = {}
  BY <1>1 DEF SeqInv, SessionsEnd, Registered
<1>5. QED BY <1>3, <1>4, SeqStep

LEMMA SeqStoreToken ==
    ASSUME OneAtATime, IInv, SeqInv, NEW r \in Request, StoreToken(r)
    PROVE  SeqInv'
<1>1. /\ req[r].pc = "store" /\ req' = [req EXCEPT ![r] = Idle]
      /\ req[r].late = {}
  BY DEF StoreToken, Store, Answer, SeqInv, SeqSlot
<1>2. CASE ~Found(req[r].id)
  BY <1>1, <1>2, SeqEnd DEF StoreToken, Store, Registered
<1>3. CASE Found(req[r].id)
  <2>1. /\ outlived' = {} /\ Registered /\ account \in AccountRow
        /\ account' = [account EXCEPT !.refreshToken = req[r].id]
    BY <1>1, <1>3 DEF StoreToken, Store, Found, Registered, IInv, TypeOK
  <2>2. SeqSlot(r)'
    BY <1>1, SeqIdle DEF IInv, TypeOK
  <2>3. QED BY <2>1, <2>2, SeqStep
<1>4. QED BY <1>2, <1>3

LEMMA SeqClearToken ==
    ASSUME OneAtATime, IInv, SeqInv, NEW r \in Request, ClearToken(r)
    PROVE  SeqInv'
<1>1. CASE ~Found(req[r].id)
  BY <1>1, SeqEnd DEF ClearToken, Answer, Registered
<1>2. CASE Found(req[r].id)
  <2>1. /\ req'[r] = Idle /\ account \in AccountRow
        /\ account' = [account EXCEPT !.refreshToken = 0]
    BY <1>2 DEF ClearToken, EndSessions, Found, Registered, IInv, TypeOK
  <2>2. account'.refreshToken = 0
    BY <2>1 DEF AccountRow
  <2>3. SeqSlot(r)'
    BY <2>1, SeqIdle
  <2>4. QED BY <2>2, <2>3, SeqStep
<1>3. QED BY <1>1, <1>2

LEMMA SeqAccept ==
    ASSUME OneAtATime, IInv, SeqInv, NEW r \in Request, Accept(r)
    PROVE  SeqInv'
<1>1. CASE ~Found(req[r].id)
  BY <1>1, SeqEnd
  DEF Accept, AcceptVerify, AcceptReset, Reset, Answer, Registered
<1>2. CASE Found(req[r].id)
  <2>1. /\ req'[r] = Idle /\ Registered
        /\ account'.refreshToken # 0 =>
             UNCHANGED <<account.refreshToken, outlived>>
    BY <1>2, AcceptEffect DEF Found
  <2>2. account'.refreshToken # 0 => outlived' = {}
    BY <2>1 DEF SeqInv, SessionsEnd
  <2>3. SeqSlot(r)'
    BY <2>1, SeqIdle
  <2>4. QED BY <2>2, <2>3, SeqStep
<1>3. QED BY <1>1, <1>2

LEMMA SeqFinish ==
    ASSUME OneAtATime, IInv, SeqInv, NEW r \in Request,
           CountAttempt(r) \/ SetPassword(r) \/ Fail(r)
    PROVE  SeqInv'
<1>1. req' = [req EXCEPT ![r] = Idle] /\ UNCHANGED outlived
  BY DEF CountAttempt, SetPassword, Fail, Answer, history
<1>2. CASE UNCHANGED account
  BY <1>1, <1>2, SeqEnd DEF Registered
<1>3. CASE Found(req[r].id) /\ ~Fail(r)
  <2>1. Registered /\ account \in AccountRow
    BY <1>3 DEF Found, Registered, IInv, TypeOK
  <2>2. account'.refreshToken = account.refreshToken
    BY <1>3, <2>1 DEF CountAttempt, SetPassword, AccountRow
  <2>3. QED BY <1>1, <2>1, <2>2, SeqEnd
<1>4. QED BY <1>2, <1>3 DEF CountAttempt, SetPassword, Fail

LEMMA SeqInductive == ASSUME OneAtATime PROVE Spec => []SeqInv
<1>1. IInv /\ SeqInv /\ [Next]_vars => SeqInv'
  <2> SUFFICES ASSUME IInv, SeqInv, [Next]_vars PROVE SeqInv'
    OBVIOUS
  <2>1. ASSUME NEW r \in Request, Serve(r) PROVE SeqInv'
    BY <2>1, SeqCreateUser, SeqIssueCode, SeqMailCode, SeqStoreToken,
       SeqClearToken, SeqFinish, SeqAccept
    DEF Serve, Accept
  <2>2. CASE DeleteAccount
    BY <2>2 DEF DeleteAccount, SeqInv, SeqSlot, SessionsEnd, Registered
  <2>3. CASE UNCHANGED <<account, lastMail, req, history>>
    BY <2>3 DEF history, SeqInv, SeqSlot, SessionsEnd, Registered
  <2>4. QED
    BY <2>1, <2>2, <2>3, SeqArrive, SeqFinish DEF Next, Expire, vars
<1>2. QED BY <1>1, SeqInitially, Invariant, Inductive, PTL DEF Spec

\* While calls do not overlap, a logout and a reset end every session: no token
\* that was authorised before is stored after.
THEOREM SequentialSessions ==
    ASSUME OneAtATime PROVE Spec => []SessionsEnd
<1>1. SeqInv => SessionsEnd
  BY DEF SeqInv
<1>2. QED BY <1>1, SeqInductive, PTL

\* While calls do not overlap, only a reset, or a call that was given the very
\* password it replaces, changes the password of an account.
THEOREM SequentialPassword ==
    ASSUME OneAtATime PROVE Spec => ChangeNeedsCurrent
<1> DEFINE A == (/\ Registered /\ account' # NoAccount
                 /\ account'.password # account.password)
                  => \E r \in Request :
                       \/ req[r].pc = "accept" /\ req[r].op = "reset"
                       \/ req[r].pc = "set" /\ req[r].old = account.password
<1>1. SeqInv /\ IInv /\ [Next]_vars => [A]_vars
  <2> SUFFICES ASSUME SeqInv, IInv, [Next]_vars, Registered,
                      account' # NoAccount,
                      account'.password # account.password
               PROVE  \E r \in Request :
                        \/ req[r].pc = "accept" /\ req[r].op = "reset"
                        \/ req[r].pc = "set" /\ req[r].old = account.password
    OBVIOUS
  <2>1. account \in AccountRow
    BY DEF IInv, TypeOK, Registered
  <2>2. ASSUME NEW r \in Request, Accept(r)
        PROVE  req[r].pc = "accept" /\ req[r].op = "reset"
    BY <2>2, AcceptEffect DEF Accept, AcceptVerify, AcceptReset, Reset
  <2>3. ASSUME NEW r \in Request, SetPassword(r)
        PROVE  req[r].pc = "set" /\ req[r].old = account.password
    BY <2>3 DEF SetPassword, SeqInv, SeqSlot
  <2>4. ASSUME NEW r \in Request, IssueCode(r) PROVE FALSE
    BY <2>4, IssueCodeEffect DEF IssueCode, Issue
  <2>5. ASSUME NEW r \in Request,
               StoreToken(r) \/ ClearToken(r) \/ CountAttempt(r)
        PROVE  FALSE
    BY <2>1, <2>5 DEF StoreToken, Store, ClearToken, CountAttempt, AccountRow
  <2>6. ASSUME NEW r \in Request, CreateUser(r) \/ MailCode(r) \/ Fail(r)
        PROVE  FALSE
    BY <2>6 DEF CreateUser, MailCode, Fail
  <2>7. ASSUME NEW r \in Request, Arrive(r) PROVE FALSE
    BY <2>7 DEF Arrive, FindEmail, CheckCredentials, CheckToken, FindForCode,
                CheckCode, Compare, CheckLogout, CheckPassword
  <2>8. CASE DeleteAccount \/ UNCHANGED vars \/ \E k \in Kind : Expire(k)
    BY <2>8 DEF Expire, vars, DeleteAccount
  <2>9. QED
    BY <2>2, <2>3, <2>4, <2>5, <2>6, <2>7, <2>8 DEF Next, Serve, Accept
<1>2. QED
  BY <1>1, SeqInductive, Invariant, PTL DEF Spec, ChangeNeedsCurrent

=============================================================================
