---------------------------- MODULE PeopleProofs ----------------------------
(***************************************************************************)
(* A theorem about the people of Site: how many codes can be tried on one  *)
(* pending login, whatever requests of all kinds are served meanwhile.     *)
(***************************************************************************)
EXTENDS SiteProofs

-----------------------------------------------------------------------------
(* Codes: what is tried on a pending login *)

\* A code was tried, as the record r of a request says; or will be.
TriesOn(r, p) ==
    \/ r.op = "count" /\ r.p = p
    \/ r.op = "use code" /\ r.next = "consume" /\ r.p = p
    \/ r.op = "consume" /\ r.p = p

AimsAt(r, p) == r.op = "verify" /\ r.p = p

GuessOps == {"verify", "count", "use code", "consume"}

\* The requests with a code tried and not recorded yet, and those about to try one.
Trying(p) == {c \in Calls : TriesOn(req[c], p)}
Aiming(p) == {c \in Calls : AimsAt(req[c], p)}

\* What the row of a pending login says when t codes are tried and not recorded,
\* and a are about to be.  While the login lives, every code is counted, lost or
\* not recorded yet.  When it is over, the requests that still hold it are all that
\* can try one.
Fits(row, t, a) ==
    /\ DOMAIN row = {"user", "attempts", "live", "tried", "lost"}
    /\ row.attempts \in Nat /\ row.tried \in Nat /\ row.lost \in Nat /\ row.live \in BOOLEAN
    /\ row.live => row.attempts < MaxAttempts /\ row.tried = row.attempts + t + row.lost
    /\ ~row.live => row.tried + a <= MaxAttempts + Cardinality(Calls) - 1 + row.lost
    /\ ~row.live /\ row.tried = 0 => t = 0 /\ a = 0

GuessInv ==
    /\ AllSound
    /\ DOMAIN pending = Pendings
    /\ \A p \in Pendings : Fits(pending[p], Cardinality(Trying(p)), Cardinality(Aiming(p)))

LEMMA Few ==
    ASSUME NEW p
    PROVE  /\ IsFiniteSet(Calls) /\ Cardinality(Calls) \in Nat
           /\ IsFiniteSet(Trying(p)) /\ Cardinality(Trying(p)) \in Nat
           /\ IsFiniteSet(Aiming(p)) /\ Cardinality(Aiming(p)) \in Nat
           /\ Cardinality(Trying(p)) + Cardinality(Aiming(p)) <= Cardinality(Calls)
<1>1. IsFiniteSet(Calls) /\ Cardinality(Calls) \in Nat
  BY AccountsAssumption, FS_CardinalityType
<1>2. /\ Trying(p) \in SUBSET Calls /\ Aiming(p) \in SUBSET Calls
      /\ Trying(p) \cup Aiming(p) \in SUBSET Calls
  BY DEF Trying, Aiming
<1>3. /\ IsFiniteSet(Trying(p)) /\ Cardinality(Trying(p)) \in Nat
      /\ IsFiniteSet(Aiming(p)) /\ Cardinality(Aiming(p)) \in Nat
  BY <1>1, <1>2, FS_Subset, FS_CardinalityType
<1>4. Trying(p) \cap Aiming(p) = {}
  BY DEF Trying, Aiming, TriesOn, AimsAt
<1>5. Cardinality(Trying(p) \cup Aiming(p)) = Cardinality(Trying(p)) + Cardinality(Aiming(p))
  <2>1. Cardinality(Trying(p) \cup Aiming(p)) =
          Cardinality(Trying(p)) + Cardinality(Aiming(p)) - Cardinality(Trying(p) \cap Aiming(p))
    BY <1>3, FS_Union
  <2>2. Cardinality(Trying(p) \cap Aiming(p)) = 0
    BY <1>4, FS_EmptySet
  <2>3. QED
    BY <1>3, <2>1, <2>2
<1>6. Cardinality(Trying(p) \cup Aiming(p)) <= Cardinality(Calls)
  BY <1>1, <1>2, FS_Subset
<1>7. QED
  BY <1>1, <1>3, <1>5, <1>6

\* What becomes of the two sets when one request moves.
LEMMA OneMoves ==
    ASSUME NEW c \in Calls, \A d \in Calls : d # c => req'[d] = req[d], NEW p
    PROVE  /\ Trying(p)' = (Trying(p) \ {c}) \cup (IF TriesOn(req'[c], p) THEN {c} ELSE {})
           /\ Aiming(p)' = (Aiming(p) \ {c}) \cup (IF AimsAt(req'[c], p) THEN {c} ELSE {})
BY DEF Trying, Aiming, TriesOn, AimsAt

LEMMA NoneMove ==
    ASSUME \A c \in Calls : \/ req'[c] = req[c]
                            \/ req[c].op \notin GuessOps /\ req'[c].op \notin GuessOps,
           NEW p
    PROVE  Trying(p)' = Trying(p) /\ Aiming(p)' = Aiming(p)
BY DEF Trying, Aiming, TriesOn, AimsAt, GuessOps

\* Steps that are about something else.
Quiet ==
    /\ UNCHANGED pending
    /\ \A c \in Calls : \/ req'[c] = req[c]
                        \/ req[c].op \notin GuessOps /\ req'[c].op \notin GuessOps

LEMMA QuietKeepsGuesses ==
    ASSUME GuessInv, AllSound', Quiet
    PROVE  GuessInv'
<1>1. \A p \in Pendings : Trying(p)' = Trying(p) /\ Aiming(p)' = Aiming(p)
  BY NoneMove DEF Quiet
<1>2. \A p \in Pendings : Fits(pending'[p], Cardinality(Trying(p)'), Cardinality(Aiming(p)'))
  BY <1>1 DEF GuessInv, Quiet
<1>3. (\A p \in Pendings : Fits(pending[p], Cardinality(Trying(p)), Cardinality(Aiming(p))))'
  BY <1>2 DEF Fits, NoPending
<1>4. QED
  BY <1>3 DEF GuessInv, Quiet

LEMMA OtherOpsAreQuiet ==
    ASSUME GuessInv, NEW ops, ops \cap GuessOps = {}, Hop(ops), UNCHANGED pending
    PROVE  Quiet
<1>1. (ops \cup {"idle"}) \cap GuessOps = {}
  BY DEF GuessOps
<1>2. QED
  BY <1>1, HopSpares DEF Quiet, GuessInv

LEMMA ArrivalIsQuiet ==
    ASSUME GuessInv, NEW c \in Calls, NEW k, NEW r, r.op \notin GuessOps, Arrive(k, c, r),
           UNCHANGED pending
    PROVE  Quiet
<1>1. req'[c] = r /\ req[c].op \notin GuessOps /\ \A d \in Calls : d # c => req'[d] = req[d]
  BY IdleIsSound DEF Arrive, GuessInv, AllSound, GuessOps
<1>2. QED
  BY <1>1 DEF Quiet

LEMMA MoveIsQuiet ==
    ASSUME GuessInv, NEW c \in Calls, NEW r, req[c].op \notin GuessOps, r.op \notin GuessOps,
           Become(c, r), UNCHANGED pending
    PROVE  Quiet
<1>1. req'[c] = r /\ \A d \in Calls : d # c => req'[d] = req[d]
  BY DEF Become, GuessInv, AllSound
<1>2. QED
  BY <1>1 DEF Quiet

LEMMA EndIsQuiet ==
    ASSUME GuessInv, NEW c \in Calls, req[c].op \notin GuessOps, End(c), UNCHANGED pending
    PROVE  Quiet
BY IdleIsSound, MoveIsQuiet DEF End, GuessOps

LEMMA GoIsQuiet ==
    ASSUME GuessInv, NEW c \in Calls, req[c].op \notin GuessOps, NEW op, op \notin GuessOps,
           Go(c, op), UNCHANGED pending
    PROVE  Quiet
<1> DEFINE r == [req[c] EXCEPT !.op = op]
<1>1. "op" \in DOMAIN req[c]
  BY DEF GuessInv, AllSound, Sound
<1>2. r.op = op /\ Become(c, r)
  BY <1>1 DEF Go
<1> HIDE DEF r
<1>3. QED
  BY <1>2, MoveIsQuiet

LEMMA RestIsQuiet ==
    ASSUME UNCHANGED req, UNCHANGED pending
    PROVE  Quiet
BY DEF Quiet

\* Everything else that is asked of accounts.
LEMMA AccountsAreQuiet ==
    ASSUME GuessInv, NEW c \in Calls,
           \/ Register(c) \/ CreateUser(c) \/ CreateSession(c) \/ Login(c)
           \/ GitHubCallback(c) \/ FindLink(c) \/ FindMail(c) \/ Link(c) \/ CreateLinked(c)
           \/ BeginSetup(c) \/ StoreSetup(c) \/ Enable(c) \/ StoreEnabled(c)
           \/ ClearTOTP(c) \/ RequireAdmin(c) \/ UpdateUser(c) \/ DeleteRefused(c)
    PROVE  Quiet
<1>a. /\ "create user" \notin GuessOps /\ "session" \notin GuessOps /\ "factor" \notin GuessOps
      /\ "find link" \notin GuessOps /\ "find mail" \notin GuessOps /\ "link" \notin GuessOps
      /\ "create linked" \notin GuessOps /\ "setup" \notin GuessOps /\ "enable" \notin GuessOps
      /\ "clear" \notin GuessOps /\ "set admin" \notin GuessOps /\ "delete user" \notin GuessOps
  BY DEF GuessOps
<1> USE <1>a, ArrivalIsQuiet, MoveIsQuiet, EndIsQuiet, GoIsQuiet
<1>1. CASE Register(c) \/ CreateUser(c) \/ CreateSession(c) \/ Login(c)
  BY <1>1 DEF Register, CreateUser, CreateSession, Login, Serving, accountVars
<1>2. CASE GitHubCallback(c) \/ FindLink(c) \/ FindMail(c)
  BY <1>2 DEF GitHubCallback, FindLink, FindMail, Serving, accountVars
<1>3. CASE Link(c) \/ CreateLinked(c)
  BY <1>3 DEF Link, CreateLinked, Serving, accountVars
<1>4. CASE BeginSetup(c) \/ StoreSetup(c) \/ Enable(c) \/ StoreEnabled(c) \/ ClearTOTP(c)
  BY <1>4 DEF BeginSetup, StoreSetup, Enable, StoreEnabled, ClearTOTP, Serving, accountVars
<1>5. CASE UpdateUser(c) \/ DeleteRefused(c)
  BY <1>5 DEF UpdateUser, DeleteRefused, Serving, accountVars
<1>6. CASE RequireAdmin(c)
  BY <1>6 DEF RequireAdmin
<1>7. QED
  BY <1>1, <1>2, <1>3, <1>4, <1>5, <1>6

LEMMA NobodysAreQuiet ==
    ASSUME GuessInv,
           \/ GitHubLogin \/ GitHubDenies
           \/ \E u \in Users : Logout(u) \/ CreateToken(u) \/ DeleteToken(u) \/ RefuseAdmin(u)
                               \/ CacheExpires(u)
    PROVE  Quiet
BY RestIsQuiet DEF GitHubLogin, GitHubDenies, Logout, CreateToken, DeleteToken, RefuseAdmin,
                   CacheExpires, AtOnce
-----------------------------------------------------------------------------
(* The second factor *)

\* A step that moves one request and the row of one pending login.
LEMMA RowKeepsGuesses ==
    ASSUME GuessInv, AllSound', DOMAIN pending' = Pendings, NEW p,
           \A q \in Pendings : q # p => /\ pending'[q] = pending[q]
                                        /\ Trying(q)' = Trying(q) /\ Aiming(q)' = Aiming(q),
           p \in Pendings =>
             Fits(pending'[p], Cardinality(Trying(p)'), Cardinality(Aiming(p)'))
    PROVE  GuessInv'
<1>1. \A q \in Pendings : Fits(pending'[q], Cardinality(Trying(q)'), Cardinality(Aiming(q)'))
  BY DEF GuessInv
<1>2. (\A q \in Pendings : Fits(pending[q], Cardinality(Trying(q)), Cardinality(Aiming(q))))'
  BY <1>1 DEF Fits, NoPending
<1>3. QED
  BY <1>2 DEF GuessInv

\* A new pending login; nobody has it yet.
LEMMA AskKeepsGuesses ==
    ASSUME GuessInv, AllSound', NEW c \in Calls, AskFactor(c)
    PROVE  GuessInv'
<1>1. req[c].op = "factor" /\ "factor" \notin GuessOps /\ "session" \notin GuessOps
  BY DEF AskFactor, Serving, GuessOps
<1>2. CASE UNCHANGED pending
  BY <1>1, <1>2, EndIsQuiet, GoIsQuiet, QuietKeepsGuesses DEF AskFactor
<1>3. CASE ~UNCHANGED pending
  <2>1. PICK p \in Pendings :
           /\ pending[p] = NoPending
           /\ pending' = [pending EXCEPT ![p].user = req[c].u, ![p].live = TRUE]
    BY <1>3 DEF AskFactor
  <2>2. End(c)
    BY <1>3 DEF AskFactor
  <2>3. req'[c].op \notin GuessOps /\ \A d \in Calls : d # c => req'[d] = req[d]
    BY <2>2, IdleIsSound DEF End, Become, GuessInv, AllSound, GuessOps
  <2>4. \A q : Trying(q)' = Trying(q) /\ Aiming(q)' = Aiming(q)
    BY <1>1, <2>3, NoneMove
  <2>5. /\ DOMAIN pending' = Pendings /\ \A q \in Pendings : q # p => pending'[q] = pending[q]
        /\ pending'[p] = [NoPending EXCEPT !.user = req[c].u, !.live = TRUE]
    BY <2>1 DEF GuessInv
  <2>6. Cardinality(Trying(p)) = 0 /\ Cardinality(Aiming(p)) = 0
    BY <2>1 DEF GuessInv, Fits, NoPending
  <2>7. Fits(pending'[p], 0, 0)
    BY <2>5, AccountsAssumption DEF NoPending, Fits
  <2>8. Fits(pending'[p], Cardinality(Trying(p)'), Cardinality(Aiming(p)'))
    BY <2>4, <2>6, <2>7
  <2>9. QED
    BY <2>4, <2>5, <2>8, RowKeepsGuesses
<1>4. QED
  BY <1>2, <1>3

\* Whoever looks up a login that lives aims at it.
LEMMA LookKeepsGuesses ==
    ASSUME GuessInv, AllSound', NEW c \in Calls, Verify2FA(c)
    PROVE  GuessInv'
<1>1. UNCHANGED pending
  BY DEF Verify2FA, accountVars
<1>2. PICK p \in Pendings :
         /\ pending[p].live
         /\ Arrive("factors", c, [op |-> "verify", p |-> p, seen |-> pending[p].attempts])
  BY DEF Verify2FA
<1> DEFINE r == [op |-> "verify", p |-> p, seen |-> pending[p].attempts]
<1>3. r.op = "verify" /\ r.p = p
  OBVIOUS
<1> HIDE DEF r
<1>4. req[c].op = "idle" /\ req'[c] = r /\ \A d \in Calls : d # c => req'[d] = req[d]
  BY <1>2, IdleIsSound DEF r, Arrive, GuessInv, AllSound
<1>5. \A q : ~TriesOn(req[c], q) /\ ~TriesOn(req'[c], q) /\ ~AimsAt(req[c], q)
  BY <1>3, <1>4 DEF TriesOn, AimsAt
<1>6. \A q : q # p => ~AimsAt(req'[c], q)
  BY <1>3, <1>4 DEF AimsAt
<1>7. \A q : Trying(q)' = Trying(q) /\ (q # p => Aiming(q)' = Aiming(q))
  BY <1>4, <1>5, <1>6, OneMoves DEF Trying, Aiming
<1>8. Fits(pending'[p], Cardinality(Trying(p)'), Cardinality(Aiming(p)'))
  <2>1. Fits(pending[p], Cardinality(Trying(p)), Cardinality(Aiming(p)))
    BY DEF GuessInv
  <2>2. QED
    BY <1>1, <1>2, <1>7, <2>1 DEF Fits
<1>9. QED
  BY <1>1, <1>7, <1>8, RowKeepsGuesses DEF GuessInv

\* What the steps do to one row.
LEMMA TryFits ==
    ASSUME NEW row, NEW t \in Nat, NEW a \in Nat \ {0}, Fits(row, t, a),
           Cardinality(Calls) \in Nat
    PROVE  Fits([row EXCEPT !.tried = @ + 1], t + 1, a - 1)
<1> DEFINE new == [row EXCEPT !.tried = @ + 1]
<1>1. /\ DOMAIN new = DOMAIN row /\ new.attempts = row.attempts /\ new.lost = row.lost
      /\ new.live = row.live /\ new.tried = row.tried + 1
  BY DEF Fits
<1> HIDE DEF new
<1>2. Fits(new, t + 1, a - 1)
  BY <1>1 DEF Fits
<1>3. QED
  BY <1>2 DEF new

LEMMA FewerFit ==
    ASSUME NEW row, NEW t \in Nat, NEW a \in Nat, NEW b \in Nat, b <= a, Fits(row, t, a),
           Cardinality(Calls) \in Nat
    PROVE  Fits(row, t, b)
BY AccountsAssumption DEF Fits

LEMMA LiveAfter ==
    ASSUME NEW row, DOMAIN row = {"user", "attempts", "live", "tried", "lost"},
           row.attempts \in Nat, MaxAttempts \in Nat, NEW b \in BOOLEAN,
           b <=> row.attempts + 1 < MaxAttempts
    PROVE  [row EXCEPT !.attempts = @ + 1, !.live = row.attempts + 1 < MaxAttempts].live = b
OBVIOUS

\* A failure is counted in place.
Counted(row) == [row EXCEPT !.attempts = @ + 1, !.live = row.attempts + 1 < MaxAttempts]

CountedAt(p) ==
    pending' = [pending EXCEPT ![p].attempts = @ + 1,
                               ![p].live = pending[p].attempts + 1 < MaxAttempts]

LEMMA RowAfter ==
    ASSUME NEW p \in DOMAIN pending, pending[p].attempts \in Nat, MaxAttempts \in Nat,
           CountedAt(p)
    PROVE  pending'[p] = Counted(pending[p])
BY DEF Counted, CountedAt

LEMMA CountFits ==
    ASSUME NEW row, NEW t \in Nat \ {0}, NEW a \in Nat, Fits(row, t, a), row.live,
           Cardinality(Calls) \in Nat, t + a <= Cardinality(Calls)
    PROVE  Fits(Counted(row), t - 1, a)
<1> DEFINE new == [row EXCEPT !.attempts = @ + 1, !.live = row.attempts + 1 < MaxAttempts]
<1>1. /\ DOMAIN new = DOMAIN row /\ new.attempts = row.attempts + 1 /\ new.lost = row.lost
      /\ new.tried = row.tried
  BY DEF Fits
<1>2. new.live \in BOOLEAN /\ (new.live <=> row.attempts + 1 < MaxAttempts)
  <2>1. /\ DOMAIN row = {"user", "attempts", "live", "tried", "lost"}
        /\ row.attempts \in Nat /\ MaxAttempts \in Nat
    BY AccountsAssumption DEF Fits
  <2>2. PICK b \in BOOLEAN : b <=> row.attempts + 1 < MaxAttempts
    OBVIOUS
  <2>3. new.live = b
    BY <2>1, <2>2, LiveAfter
  <2>4. QED
    BY <2>2, <2>3
<1> HIDE DEF new
<1>3. row.attempts < MaxAttempts /\ row.tried = row.attempts + t + row.lost
      /\ row.attempts \in Nat /\ row.lost \in Nat /\ row.tried \in Nat
  BY DEF Fits
<1>4. new.live => new.attempts < MaxAttempts /\ new.tried = new.attempts + (t - 1) + new.lost
  BY <1>1, <1>2, <1>3, AccountsAssumption
<1>5. ~new.live => new.tried + a <= MaxAttempts + Cardinality(Calls) - 1 + new.lost
  BY <1>1, <1>2, <1>3, AccountsAssumption
<1>6. new.attempts \in Nat /\ new.tried \in Nat /\ new.lost \in Nat /\ new.tried # 0
  BY <1>1, <1>3
<1>7. DOMAIN new = {"user", "attempts", "live", "tried", "lost"}
  BY <1>1 DEF Fits
<1>8. Fits(new, t - 1, a)
  BY <1>2, <1>4, <1>5, <1>6, <1>7 DEF Fits
<1>9. new = Counted(row)
  BY DEF new, Counted
<1>10. QED
  BY <1>8, <1>9

LEMMA ConsumeFits ==
    ASSUME NEW row, NEW t \in Nat \ {0}, NEW a \in Nat, Fits(row, t, a),
           Cardinality(Calls) \in Nat, t + a <= Cardinality(Calls)
    PROVE  Fits([row EXCEPT !.live = FALSE], t - 1, a)
<1> DEFINE new == [row EXCEPT !.live = FALSE]
<1>1. /\ DOMAIN new = DOMAIN row /\ new.attempts = row.attempts /\ new.lost = row.lost
      /\ new.live = FALSE /\ new.tried = row.tried
  BY DEF Fits
<1>2. row.tried # 0
  BY DEF Fits
<1> HIDE DEF new
<1>3. new.tried + a <= MaxAttempts + Cardinality(Calls) - 1 + new.lost
  BY <1>1, AccountsAssumption DEF Fits
<1>4. Fits(new, t - 1, a)
  BY <1>1, <1>2, <1>3 DEF Fits
<1>5. QED
  BY <1>4 DEF new

LEMMA LoseFits ==
    ASSUME NEW row, NEW t \in Nat, NEW a \in Nat, NEW n \in Nat, n <= t, Fits(row, t, a), row.live
    PROVE  Fits([row EXCEPT !.lost = @ + n], t - n, a)
<1> DEFINE new == [row EXCEPT !.lost = @ + n]
<1>1. /\ DOMAIN new = DOMAIN row /\ new.attempts = row.attempts /\ new.lost = row.lost + n
      /\ new.live = row.live /\ new.tried = row.tried
  BY DEF Fits
<1> HIDE DEF new
<1>2. Fits(new, t - n, a)
  BY <1>1 DEF Fits
<1>3. QED
  BY <1>2 DEF new

\* A request leaves the ones that try, or comes to them.
LEMMA Counts ==
    ASSUME NEW c \in Calls, \A d \in Calls : d # c => req'[d] = req[d], NEW p
    PROVE  /\ TriesOn(req[c], p) /\ ~TriesOn(req'[c], p)
              => Cardinality(Trying(p)') = Cardinality(Trying(p)) - 1 /\ Cardinality(Trying(p)) # 0
           /\ ~TriesOn(req[c], p) /\ TriesOn(req'[c], p)
              => Cardinality(Trying(p)') = Cardinality(Trying(p)) + 1
           /\ (TriesOn(req[c], p) <=> TriesOn(req'[c], p)) => Trying(p)' = Trying(p)
           /\ AimsAt(req[c], p) /\ ~AimsAt(req'[c], p)
              => Cardinality(Aiming(p)') = Cardinality(Aiming(p)) - 1 /\ Cardinality(Aiming(p)) # 0
           /\ (AimsAt(req[c], p) <=> AimsAt(req'[c], p)) => Aiming(p)' = Aiming(p)
<1>1. /\ c \in Trying(p) <=> TriesOn(req[c], p)
      /\ c \in Aiming(p) <=> AimsAt(req[c], p)
  BY DEF Trying, Aiming
<1>2. /\ IsFiniteSet(Trying(p)) /\ Cardinality(Trying(p)) \in Nat
      /\ IsFiniteSet(Aiming(p)) /\ Cardinality(Aiming(p)) \in Nat
  BY Few
<1>3. /\ Cardinality(Trying(p) \ {c}) =
           IF c \in Trying(p) THEN Cardinality(Trying(p)) - 1 ELSE Cardinality(Trying(p))
      /\ Cardinality(Aiming(p) \ {c}) =
           IF c \in Aiming(p) THEN Cardinality(Aiming(p)) - 1 ELSE Cardinality(Aiming(p))
  BY <1>2, FS_RemoveElement
<1>4. Cardinality(Trying(p) \cup {c}) =
        IF c \in Trying(p) THEN Cardinality(Trying(p)) ELSE Cardinality(Trying(p)) + 1
  BY <1>2, FS_AddElement
<1>5. (c \in Trying(p) => Cardinality(Trying(p)) # 0) /\ (c \in Aiming(p) => Cardinality(Aiming(p)) # 0)
  BY <1>2, FS_EmptySet
<1>6. /\ ~TriesOn(req'[c], p) => Trying(p)' = Trying(p) \ {c}
      /\ TriesOn(req'[c], p) => Trying(p)' = Trying(p) \cup {c}
      /\ ~AimsAt(req'[c], p) => Aiming(p)' = Aiming(p) \ {c}
      /\ AimsAt(req'[c], p) => Aiming(p)' = Aiming(p) \cup {c}
  BY OneMoves
<1>7. /\ (TriesOn(req[c], p) <=> TriesOn(req'[c], p)) => Trying(p)' = Trying(p)
      /\ (AimsAt(req[c], p) <=> AimsAt(req'[c], p)) => Aiming(p)' = Aiming(p)
  BY <1>1, <1>6
<1>8. QED
  BY <1>1, <1>3, <1>4, <1>5, <1>6, <1>7

\* A code is found wrong, or right, or there is no such user any more.
LEMMA VerifyKeepsGuesses ==
    ASSUME GuessInv, AllSound', NEW c \in Calls, Verify(c)
    PROVE  GuessInv'
<1>0. PICK p : p = req[c].p
  OBVIOUS
<1> DEFINE u == pending[p].user
<1>1. req[c].op = "verify"
  BY DEF Verify, Serving
<1>2. \A q : ~TriesOn(req[c], q) /\ (AimsAt(req[c], q) <=> q = p)
  BY <1>0, <1>1 DEF TriesOn, AimsAt
<1>3. CASE UNCHANGED pending /\ End(c)
  <2>1. req'[c] = Idle /\ \A d \in Calls : d # c => req'[d] = req[d]
    BY <1>3 DEF End, Become, GuessInv, AllSound
  <2>2. \A q : ~TriesOn(req'[c], q) /\ ~AimsAt(req'[c], q)
    BY <2>1, IdleIsSound DEF TriesOn, AimsAt
  <2>3. \A q : Trying(q)' = Trying(q) /\ (q # p => Aiming(q)' = Aiming(q))
    BY <1>2, <2>1, <2>2, Counts
  <2>4. Cardinality(Aiming(p)') = Cardinality(Aiming(p)) - 1 /\ Cardinality(Aiming(p)) # 0
    BY <1>2, <2>1, <2>2, Counts
  <2>5. ASSUME p \in Pendings
        PROVE  Fits(pending'[p], Cardinality(Trying(p)'), Cardinality(Aiming(p)'))
    <3>1. Fits(pending[p], Cardinality(Trying(p)), Cardinality(Aiming(p)))
      BY <2>5 DEF GuessInv
    <3>2. /\ Cardinality(Calls) \in Nat /\ Cardinality(Trying(p)) \in Nat
          /\ Cardinality(Aiming(p)) \in Nat
      BY Few
    <3>3. Cardinality(Aiming(p)) - 1 \in Nat /\ Cardinality(Aiming(p)) - 1 <= Cardinality(Aiming(p))
      BY <2>4, <3>2
    <3>4. Fits(pending[p], Cardinality(Trying(p)), Cardinality(Aiming(p)) - 1)
      BY <3>1, <3>2, <3>3, FewerFit
    <3>5. QED
      BY <1>3, <2>3, <2>4, <3>4
  <2>6. DOMAIN pending' = Pendings /\ \A q \in Pendings : pending'[q] = pending[q]
    BY <1>3 DEF GuessInv
  <2>7. QED
    BY <2>3, <2>5, <2>6, RowKeepsGuesses
<1>4. CASE pending' = [pending EXCEPT ![p].tried = @ + 1]
           /\ \/ \E k \in RightCodes(u) : Become(c, WithCode(u, k, p, "consume"))
              \/ Go(c, "count")
  <2>1. /\ \A d \in Calls : d # c => req'[d] = req[d]
        /\ \A q : ~AimsAt(req'[c], q) /\ (TriesOn(req'[c], q) <=> q = p)
    <3>1. CASE Go(c, "count")
      <4> DEFINE r == [req[c] EXCEPT !.op = "count"]
      <4>1. "op" \in DOMAIN req[c]
        BY DEF GuessInv, AllSound, Sound
      <4>2. r.op = "count" /\ r.p = p
        BY <1>0, <4>1
      <4>3. Become(c, r)
        BY <3>1 DEF Go
      <4> HIDE DEF r
      <4>4. req'[c] = r /\ \A d \in Calls : d # c => req'[d] = req[d]
        BY <4>3 DEF Become, GuessInv, AllSound
      <4>5. QED
        BY <4>2, <4>4 DEF TriesOn, AimsAt
    <3>2. ASSUME NEW k, Become(c, WithCode(u, k, p, "consume"))
          PROVE  /\ \A d \in Calls : d # c => req'[d] = req[d]
                 /\ \A q : ~AimsAt(req'[c], q) /\ (TriesOn(req'[c], q) <=> q = p)
      <4> DEFINE r == WithCode(u, k, p, "consume")
      <4>1. \/ r.op = "consume" /\ r.p = p
            \/ r.op = "use code" /\ r.next = "consume" /\ r.p = p
        <5>1. CASE k = "authenticator"
          BY <5>1 DEF WithCode
        <5>2. CASE k # "authenticator"
          BY <5>2 DEF WithCode
        <5>3. QED
          BY <5>1, <5>2
      <4> HIDE DEF r
      <4>2. req'[c] = r /\ \A d \in Calls : d # c => req'[d] = req[d]
        BY <3>2 DEF r, Become, GuessInv, AllSound
      <4>3. QED
        BY <4>1, <4>2 DEF TriesOn, AimsAt
    <3>3. QED
      BY <1>4, <3>1, <3>2
  <2>2. \A q : q # p => Trying(q)' = Trying(q) /\ Aiming(q)' = Aiming(q)
    BY <1>2, <2>1, Counts
  <2>3. /\ Cardinality(Trying(p)') = Cardinality(Trying(p)) + 1
        /\ Cardinality(Aiming(p)') = Cardinality(Aiming(p)) - 1 /\ Cardinality(Aiming(p)) # 0
    BY <1>2, <2>1, Counts
  <2> HIDE DEF u
  <2>4. ASSUME p \in Pendings
        PROVE  Fits(pending'[p], Cardinality(Trying(p)'), Cardinality(Aiming(p)'))
    <3>1. Fits(pending[p], Cardinality(Trying(p)), Cardinality(Aiming(p)))
      BY <2>4 DEF GuessInv
    <3>2. /\ Cardinality(Calls) \in Nat /\ Cardinality(Trying(p)) \in Nat
          /\ Cardinality(Aiming(p)) \in Nat \ {0}
      BY <2>3, Few
    <3>3. Fits([pending[p] EXCEPT !.tried = @ + 1], Cardinality(Trying(p)) + 1,
               Cardinality(Aiming(p)) - 1)
      BY <3>1, <3>2, TryFits
    <3>4. pending'[p] = [pending[p] EXCEPT !.tried = @ + 1]
      BY <1>4, <2>4 DEF GuessInv
    <3>5. QED
      BY <2>3, <3>3, <3>4
  <2>5. DOMAIN pending' = Pendings /\ \A q \in Pendings : q # p => pending'[q] = pending[q]
    BY <1>4 DEF GuessInv
  <2>6. QED
    BY <2>2, <2>4, <2>5, RowKeepsGuesses
<1>5. QED
  BY <1>0, <1>3, <1>4 DEF Verify

\* The recovery code is written back; the login is consumed later, or the factor cleared.
LEMMA UseCodeKeepsGuesses ==
    ASSUME GuessInv, AllSound', NEW c \in Calls, UseCode(c) \/ Disable(c)
    PROVE  GuessInv'
<1>1. UNCHANGED pending
  BY DEF UseCode, Disable, accountVars
<1>2. /\ \A d \in Calls : d # c => req'[d] = req[d]
      /\ \A q : /\ ~AimsAt(req[c], q) /\ ~AimsAt(req'[c], q)
                /\ TriesOn(req'[c], q) <=> TriesOn(req[c], q)
  <2>1. CASE UseCode(c)
    <3> DEFINE r == [op |-> req[c].next, u |-> req[c].u, p |-> req[c].p]
    <3>1. req[c].op = "use code" /\ Sound(req[c])
      BY <2>1 DEF UseCode, Serving, GuessInv, AllSound
    <3>2. req[c].next \in {"consume", "clear"}
      BY <3>1 DEF Sound
    <3>3. Become(c, r)
      BY <2>1 DEF UseCode
    <3>4. r.op = req[c].next /\ r.p = req[c].p
      OBVIOUS
    <3> HIDE DEF r
    <3>5. req'[c] = r /\ \A d \in Calls : d # c => req'[d] = req[d]
      BY <3>3 DEF Become, GuessInv, AllSound
    <3>6. QED
      BY <3>1, <3>2, <3>4, <3>5 DEF TriesOn, AimsAt
  <2>2. CASE Disable(c)
    <3>1. PICK u, k : Arrive("factors", c, WithCode(u, k, None, "clear"))
      BY <2>2 DEF Disable
    <3> DEFINE r == WithCode(u, k, None, "clear")
    <3>2. r.op = "clear" \/ (r.op = "use code" /\ r.next = "clear")
      <4>1. CASE k = "authenticator"
        BY <4>1 DEF WithCode
      <4>2. CASE k # "authenticator"
        BY <4>2 DEF WithCode
      <4>3. QED
        BY <4>1, <4>2
    <3>3. Arrive("factors", c, r)
      BY <3>1
    <3> HIDE DEF r
    <3>4. req[c] = Idle /\ req'[c] = r /\ \A d \in Calls : d # c => req'[d] = req[d]
      BY <3>3 DEF Arrive, GuessInv, AllSound
    <3>5. QED
      BY <3>2, <3>4, IdleIsSound DEF TriesOn, AimsAt
  <2>3. QED
    BY <2>1, <2>2
<1>3. \A q : Trying(q)' = Trying(q) /\ Aiming(q)' = Aiming(q)
  BY <1>2, Counts
<1>4. /\ DOMAIN pending' = Pendings
      /\ \A q \in Pendings :
            /\ pending'[q] = pending[q]
            /\ Fits(pending'[q], Cardinality(Trying(q)'), Cardinality(Aiming(q)'))
  BY <1>1, <1>3 DEF GuessInv
<1>5. QED
  BY <1>3, <1>4, RowKeepsGuesses

\* The outcome of a try is recorded, or lost, or the login is over by then.
LEMMA OutcomeKeepsGuesses ==
    ASSUME GuessInv, AllSound', NEW c \in Calls, IncrementAttempts(c) \/ ConsumePendingAuth(c)
    PROVE  GuessInv'
<1>0. PICK p : p = req[c].p
  OBVIOUS
<1>1. /\ req[c].op \in {"count", "consume"}
      /\ \A q : ~AimsAt(req[c], q) /\ (TriesOn(req[c], q) <=> q = p)
  BY <1>0 DEF IncrementAttempts, ConsumePendingAuth, Serving, TriesOn, AimsAt
<1>2. PICK r : r.op \in {"idle", "session"} /\ Become(c, r)
  <2>1. CASE IncrementAttempts(c)
    BY <2>1, IdleIsSound DEF IncrementAttempts, End
  <2>2. CASE ConsumePendingAuth(c)
    <3> DEFINE s == [op |-> "session", u |-> req[c].u]
    <3>1. s.op = "session" /\ Become(c, s)
      BY <2>2 DEF ConsumePendingAuth
    <3> HIDE DEF s
    <3>2. QED
      BY <3>1
  <2>3. QED
    BY <2>1, <2>2
<1>3. req'[c] = r /\ \A d \in Calls : d # c => req'[d] = req[d]
  BY <1>2 DEF Become, GuessInv, AllSound
<1>4. \A q : ~TriesOn(req'[c], q) /\ ~AimsAt(req'[c], q)
  BY <1>2, <1>3 DEF TriesOn, AimsAt
<1>5. \A q : Aiming(q)' = Aiming(q) /\ (q # p => Trying(q)' = Trying(q))
  BY <1>1, <1>3, <1>4, Counts
<1>6. Cardinality(Trying(p)') = Cardinality(Trying(p)) - 1 /\ Cardinality(Trying(p)) # 0
  BY <1>1, <1>3, <1>4, Counts
<1>7. \/ /\ ~pending[p].live
         /\ DOMAIN pending' = Pendings /\ \A q \in Pendings : pending'[q] = pending[q]
      \/ pending[p].live /\ pending' = [pending EXCEPT ![p].lost = @ + 1]
      \/ pending[p].live /\ CountedAt(p)
      \/ pending' = [pending EXCEPT ![p].live = FALSE]
  <2>1. ASSUME pending' = [pending EXCEPT ![p] = Unrecorded(p, 1)]
        PROVE  \/ /\ ~pending[p].live
                  /\ DOMAIN pending' = Pendings
                  /\ \A q \in Pendings : pending'[q] = pending[q]
               \/ pending[p].live /\ pending' = [pending EXCEPT ![p].lost = @ + 1]
    BY <2>1 DEF Unrecorded, GuessInv
  <2>2. QED
    BY <1>0, <2>1 DEF IncrementAttempts, ConsumePendingAuth, GuessInv, CountedAt
<1>8. DOMAIN pending' = Pendings /\ \A q \in Pendings : q # p => pending'[q] = pending[q]
  BY <1>7 DEF GuessInv, CountedAt
<1>9. ASSUME p \in Pendings
      PROVE  Fits(pending'[p], Cardinality(Trying(p)) - 1, Cardinality(Aiming(p)))
  <2>1. Fits(pending[p], Cardinality(Trying(p)), Cardinality(Aiming(p)))
    BY <1>9 DEF GuessInv
  <2>2. /\ Cardinality(Calls) \in Nat /\ Cardinality(Trying(p)) \in Nat \ {0}
        /\ Cardinality(Aiming(p)) \in Nat
        /\ Cardinality(Trying(p)) + Cardinality(Aiming(p)) <= Cardinality(Calls)
    BY <1>6, Few
  <2>3. CASE ~pending[p].live /\ pending'[p] = pending[p]
    <3>1. Fits(pending[p], Cardinality(Trying(p)) - 1, Cardinality(Aiming(p)))
      BY <2>1, <2>2, <2>3 DEF Fits
    <3>2. QED
      BY <2>3, <3>1
  <2>4. CASE pending[p].live /\ pending' = [pending EXCEPT ![p].lost = @ + 1]
    <3>1. pending'[p] = [pending[p] EXCEPT !.lost = @ + 1]
      BY <1>9, <2>4 DEF GuessInv
    <3>2. 1 \in Nat /\ 1 <= Cardinality(Trying(p)) /\ Cardinality(Trying(p)) \in Nat
      BY <2>2
    <3>3. Fits([pending[p] EXCEPT !.lost = @ + 1], Cardinality(Trying(p)) - 1,
               Cardinality(Aiming(p)))
      BY <2>1, <2>2, <2>4, <3>2, LoseFits
    <3>4. QED
      BY <3>1, <3>3
  <2>5. CASE pending[p].live /\ CountedAt(p)
    <3>1. p \in DOMAIN pending /\ pending[p].attempts \in Nat /\ MaxAttempts \in Nat
      BY <1>9, <2>1, AccountsAssumption DEF Fits, GuessInv
    <3>2. pending'[p] = Counted(pending[p])
      BY <2>5, <3>1, RowAfter
    <3>3. QED
      BY <2>1, <2>2, <2>5, <3>2, CountFits
  <2>6. CASE pending' = [pending EXCEPT ![p].live = FALSE]
    <3>1. pending'[p] = [pending[p] EXCEPT !.live = FALSE]
      BY <1>9, <2>6 DEF GuessInv
    <3>2. QED
      BY <2>1, <2>2, <3>1, ConsumeFits
  <2>7. QED
    BY <1>7, <1>9, <2>3, <2>4, <2>5, <2>6
<1>10. p \in Pendings => Fits(pending'[p], Cardinality(Trying(p)'), Cardinality(Aiming(p)'))
  BY <1>5, <1>6, <1>9
<1>11. QED
  BY <1>5, <1>8, <1>10, RowKeepsGuesses

\* The server exits: nobody tries any more, and no outcome is recorded.
LEMMA ExitKeepsGuesses ==
    ASSUME GuessInv, AllSound', Exit
    PROVE  GuessInv'
<1>1. \A c \in Calls : req'[c] = Idle
  BY DEF Exit
<1>2. \A c \in Calls : \A p : ~TriesOn(req'[c], p) /\ ~AimsAt(req'[c], p)
  BY <1>1, IdleIsSound DEF TriesOn, AimsAt
<1>3. \A p : Cardinality(Trying(p)') = 0 /\ Cardinality(Aiming(p)') = 0
  <2>1. \A p : Trying(p)' = {} /\ Aiming(p)' = {}
    BY <1>2 DEF Trying, Aiming, TriesOn, AimsAt
  <2>2. QED
    BY <2>1, FS_EmptySet
<1>4. DOMAIN pending' = Pendings
  BY DEF Exit
<1>5. ASSUME NEW p \in Pendings
      PROVE  Fits(pending'[p], 0, 0)
  <2> DEFINE t == Cardinality(Trying(p))
             a == Cardinality(Aiming(p))
  <2>1. Fits(pending[p], t, a) /\ t \in Nat /\ a \in Nat /\ Cardinality(Calls) \in Nat
    BY Few DEF GuessInv
  <2>2. {c \in Calls : Tried(c, p)} = Trying(p)
    BY DEF Tried, Trying, TriesOn, Serving
  <2>3. pending'[p] = Unrecorded(p, t)
    BY <2>2 DEF Exit
  <2> HIDE DEF t, a
  <2>4. CASE pending[p].live
    <3>1. pending'[p] = [pending[p] EXCEPT !.lost = @ + t]
      BY <2>3, <2>4 DEF Unrecorded
    <3>2. t <= t /\ t - t = 0 /\ 0 \in Nat /\ 0 <= a
      BY <2>1
    <3>3. Fits([pending[p] EXCEPT !.lost = @ + t], t - t, a)
      BY <2>1, <2>4, <3>2, LoseFits
    <3>4. Fits(pending'[p], 0, a)
      BY <3>1, <3>2, <3>3
    <3>5. QED
      BY <2>1, <3>2, <3>4, FewerFit
  <2>5. CASE ~pending[p].live
    <3>1. pending'[p] = pending[p]
      BY <2>3, <2>5 DEF Unrecorded
    <3>2. QED
      BY <2>1, <2>5, <3>1, AccountsAssumption DEF Fits
  <2>6. QED
    BY <2>4, <2>5
<1>6. (\A p \in Pendings : Fits(pending[p], Cardinality(Trying(p)), Cardinality(Aiming(p))))'
  BY <1>3, <1>5 DEF Fits
<1>7. QED
  BY <1>4, <1>6 DEF GuessInv

LEMMA StepKeepsGuesses ==
    ASSUME GuessInv, [Next]_siteVars
    PROVE  GuessInv'
<1>1. AllSound /\ AllSound'
  BY AllSoundStep DEF GuessInv
<1>2. ASSUME NEW ops, ops \in {MemberOps, RepoOps, ImportOps, NoticeOps, IssueOps, {"expire"}}
      PROVE  ops \cap GuessOps = {}
  BY <1>2 DEF MemberOps, RepoOps, ImportOps, NoticeOps, IssueOps, GuessOps
<1>3. ASSUME UNCHANGED pending,
             \E ops \in {MemberOps, RepoOps, ImportOps, NoticeOps, IssueOps, {"expire"}} : Hop(ops)
      PROVE  GuessInv'
  BY <1>1, <1>2, <1>3, OtherOpsAreQuiet, QuietKeepsGuesses
<1>4. CASE AccountsNext
  <2>1. ASSUME Quiet
        PROVE  GuessInv'
    BY <1>1, <2>1, QuietKeepsGuesses
  <2>2. QED
    BY <1>1, <1>4, <2>1, AccountsAreQuiet, NobodysAreQuiet, AskKeepsGuesses, LookKeepsGuesses,
       VerifyKeepsGuesses, UseCodeKeepsGuesses, OutcomeKeepsGuesses DEF AccountsNext
<1>5. CASE MembershipNext /\ UNCHANGED accountVars
  BY <1>1, <1>3, <1>5, MembershipHop DEF accountVars
<1>6. CASE Content /\ UNCHANGED accountVars
  <2>1. UNCHANGED pending
    BY <1>6 DEF accountVars
  <2>2. ContentOps \cap GuessOps = {}
    BY DEF ContentOps, RepoOps, ImportOps, NoticeOps, IssueOps, GuessOps
  <2>3. QED
    BY <1>1, <1>6, <2>1, <2>2, ContentHop, OtherOpsAreQuiet, QuietKeepsGuesses
<1>7. CASE RateLimitNext /\ UNCHANGED accountVars
  BY <1>3, <1>7, RateLimitHop DEF accountVars
<1>8. CASE \E c \in Calls : DeleteUser(c)
  <2>1. PICK c \in Calls : DeleteUser(c)
    BY <1>8
  <2>2. UNCHANGED pending /\ End(c) /\ req[c].op \notin GuessOps
    BY <2>1 DEF DeleteUser, DeleteAccount, Serving, GuessOps
  <2>3. QED
    BY <1>1, <2>2, EndIsQuiet, QuietKeepsGuesses
<1>9. CASE Exit
  BY <1>1, <1>9, ExitKeepsGuesses
<1>10. CASE UNCHANGED siteVars
  BY <1>3, <1>10, RestHops DEF siteVars, accountVars
<1>11. QED
  BY <1>4, <1>5, <1>6, <1>7, <1>8, <1>9, <1>10 DEF Next, People

\* GuessesAreBounded (Accounts.tla): however many requests try codes on one pending
\* login at a time, whatever statements fail and when the server exits, the limit
\* (totp/service.go, maxAttempts) is passed only by requests that looked the login
\* up in time and by tries whose outcome was lost.
THEOREM GuessesStayBounded == Spec => []GuessesAreBounded
<1>1. Init => GuessInv
  <2> SUFFICES ASSUME Init PROVE GuessInv
    OBVIOUS
  <2>1. AllSound /\ \A c \in Calls : req[c] = Idle
    BY AllSoundInit DEF Init, RequestsInit
  <2>2. \A p : Cardinality(Trying(p)) = 0 /\ Cardinality(Aiming(p)) = 0
    <3>1. \A p : Trying(p) = {} /\ Aiming(p) = {}
      BY <2>1, IdleIsSound DEF Trying, Aiming, TriesOn, AimsAt
    <3>2. QED
      BY <3>1, FS_EmptySet
  <2>3. pending \in [Pendings -> {NoPending} \cup
                      {[NoPending EXCEPT !.user = u, !.live = TRUE] : u \in Secured}]
    BY DEF Init, AccountsInit
  <2>4. ASSUME NEW row, row \in {NoPending} \cup
                          {[NoPending EXCEPT !.user = u, !.live = TRUE] : u \in Secured}
        PROVE  Fits(row, 0, 0)
    <3>1. Cardinality(Calls) \in Nat
      BY Few
    <3>2. CASE row = NoPending
      BY <3>1, <3>2, AccountsAssumption DEF NoPending, Fits
    <3>3. ASSUME NEW u, row = [NoPending EXCEPT !.user = u, !.live = TRUE]
          PROVE  Fits(row, 0, 0)
      BY <3>1, <3>3, AccountsAssumption DEF NoPending, Fits
    <3>4. QED
      BY <2>4, <3>2, <3>3
  <2>5. QED
    BY <2>1, <2>2, <2>3, <2>4 DEF GuessInv
<1>2. GuessInv /\ [Next]_siteVars => GuessInv'
  BY StepKeepsGuesses
<1>3. GuessInv => GuessesAreBounded
  <2> SUFFICES ASSUME GuessInv, NEW p \in Pendings
               PROVE  pending[p].tried <= MaxAttempts + Cardinality(Calls) - 1 + pending[p].lost
    BY DEF GuessesAreBounded
  <2>1. Fits(pending[p], Cardinality(Trying(p)), Cardinality(Aiming(p)))
    BY DEF GuessInv
  <2>2. QED
    BY <2>1, Few, AccountsAssumption DEF Fits
<1>4. QED
  BY <1>1, <1>2, <1>3, PTL DEF Spec
=============================================================================
