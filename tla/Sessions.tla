------------------------------ MODULE Sessions ------------------------------
(***************************************************************************)
(* The sign-in sessions of one partner account.  auth.service and its      *)
(* session-store keep a row per session with the one refresh token that    *)
(* may be exchanged next; the browser tabs of the partner application      *)
(* exchange it (client.ts) and share what they hold through localStorage   *)
(* (auth-store.ts).                                                        *)
(*                                                                         *)
(* An exchange reads the row, decides, and then writes: other requests run *)
(* between the two.  A token is named by the exchange that issued it, the  *)
(* first one of a session by 0.                                            *)
(***************************************************************************)
EXTENDS Naturals

CONSTANTS
    Tabs,         \* browser tabs of the partner application
    MaxSessions,  \* bound: sessions ever opened
    MaxCalls,     \* bound: exchanges ever sent
    MaxResets     \* bound: passwords ever written

SessionIds == 1..MaxSessions
Calls      == 1..MaxCalls
Nothing    == 0

ASSUME SessionsAssumption ==
    /\ MaxSessions \in Nat
    /\ MaxCalls \in Nat
    /\ MaxResets \in Nat

VARIABLES
    sessions,   \* the rows of auth_sessions, by id
    calls,      \* the exchanges, in the order they were sent
    tabs,       \* what each tab holds in memory
    stored,     \* what localStorage holds
    password,   \* how often the password was written
    resets,     \* passwords written whose revokeActor is still to run
    ended       \* history: the last password whose revokeActor has run

vars == <<sessions, calls, tabs, stored, password, resets, ended>>

-----------------------------------------------------------------------------

\* token is refresh_jti.  A session is "over" when it is revoked or past its
\* expiry: no code tells the two apart.  made is the password at the INSERT.
\* History: reused, that a superseded token ended the session; tabs, that held
\* it.
Session == [token  : {Nothing} \union Calls,
            state  : {"active", "over"},
            made   : 0..MaxResets,
            reused : BOOLEAN,
            tabs   : SUBSET Tabs]

NoSession == [state |-> "none"]

Tokens    == [sid : SessionIds, token : {Nothing} \union Calls]
NoTokens  == [sid |-> Nothing, token |-> Nothing]

\* What rotate() has done for an exchange: nothing, passed the checks, seen a
\* superseded token, or answered.  When it throws anything but its own refusals,
\* refresh() answers as if the session were gone: "failed" when nothing was
\* written, "torn" when the UPDATE was sent and its outcome is not known,
\* "landed" when that UPDATE has taken effect after all.
Running == {"sent", "passed", "reuse"}
Thrown  == {"failed", "torn", "landed"}
Stages  == Running \union Thrown \union {"granted", "refused"}

Call == [sid : SessionIds, token : {Nothing} \union Calls, stage : Stages]

NoCall  == [stage |-> "none"]
Settled == [stage |-> "settled"]   \* its tab has had the answer, or it has none

\* waiting is refreshPromise: the exchange the tab awaits.
Tab == [tokens : Tokens \union {NoTokens}, waiting : {Nothing} \union Calls]

TypeOK ==
    /\ sessions \in [SessionIds -> Session \union {NoSession}]
    /\ calls \in [Calls -> Call \union {NoCall, Settled}]
    /\ tabs \in [Tabs -> Tab]
    /\ stored \in Tokens \union {NoTokens}
    /\ password \in 0..MaxResets
    /\ resets \in SUBSET (1..MaxResets)
    /\ ended \in 0..MaxResets

Init ==
    /\ sessions = [s \in SessionIds |-> NoSession]
    /\ calls = [k \in Calls |-> NoCall]
    /\ tabs = [t \in Tabs |-> [tokens |-> NoTokens, waiting |-> Nothing]]
    /\ stored = NoTokens
    /\ password = 0
    /\ resets = {}
    /\ ended = 0

Active(s) == sessions[s].state = "active"

\* The answer was given when nobody awaited it any more, or nobody does now.
Orphan(k) == /\ calls[k].stage \in {"granted", "refused"}
             /\ \A t \in Tabs : tabs[t].waiting # k

\* ... or the answer said nothing of the token that was written.
Lost(k) == Orphan(k) \/ calls[k].stage = "landed"

\* setSession and clearSession write the tab's memory and localStorage.
Keep(t, tokens) ==
    /\ tabs' = [tabs EXCEPT ![t].tokens = tokens]
    /\ stored' = tokens

-----------------------------------------------------------------------------
(* Signing in and out *)

\* A definition with a comment "for X" is a mistake that could be made in X.

\* partnerLogin, verifyPartnerOtp and partnerSetPassword end in issueTokens.
SignIn(t) ==
    /\ \E s \in SessionIds :
         /\ sessions[s] = NoSession
         /\ \A r \in SessionIds : r < s => sessions[r] # NoSession
         /\ sessions' = [sessions EXCEPT ![s] =
                [token |-> Nothing, state |-> "active", made |-> password,
                 reused |-> FALSE, tabs |-> {t}]]
         /\ Keep(t, [sid |-> s, token |-> Nothing])
    /\ UNCHANGED <<calls, password, resets, ended>>

\* useLogout clears the tab at once; End is the request it sends.
SignOut(t) ==
    /\ tabs[t].tokens # NoTokens
    /\ Keep(t, NoTokens)
    /\ UNCHANGED <<sessions, calls, password, resets, ended>>

\* A tab is opened or reloaded: what it awaited is forgotten.
OpenTab(t) ==
    /\ tabs' = [tabs EXCEPT ![t] = [tokens |-> stored, waiting |-> Nothing]]
    /\ sessions' = IF stored = NoTokens THEN sessions
                   ELSE [sessions EXCEPT ![stored.sid].tabs = @ \union {t}]
    /\ UNCHANGED <<calls, stored, password, resets, ended>>

\* logout and revokeSession, from this or another device; or seven days have
\* passed since the session was opened: no exchange moves that moment.
End(s) ==
    /\ Active(s)
    /\ sessions' = [sessions EXCEPT ![s].state = "over"]
    /\ UNCHANGED <<calls, tabs, stored, password, resets, ended>>

RevokeAll ==
    [s \in SessionIds |-> IF Active(s) THEN [sessions[s] EXCEPT !.state = "over"]
                          ELSE sessions[s]]

\* logoutAll, and revokeActor when an admin resets the account.
RevokeActor ==
    /\ \E s \in SessionIds : Active(s)
    /\ sessions' = RevokeAll
    /\ UNCHANGED <<calls, tabs, stored, password, resets, ended>>

-----------------------------------------------------------------------------
(* Passwords *)

WritePassword ==
    /\ password < MaxResets
    /\ password' = password + 1
    /\ resets' = resets \union {password + 1}
    /\ UNCHANGED <<sessions, calls, tabs, stored, ended>>

FinishReset(n) ==
    /\ n \in resets
    /\ resets' = resets \ {n}
    /\ ended' = IF n > ended THEN n ELSE ended
    /\ sessions' = RevokeAll
    /\ UNCHANGED <<calls, tabs, stored, password>>

\* revokeActor fails: the request answers 500 and the password stays written.
FailReset(n) ==
    /\ n \in resets
    /\ resets' = resets \ {n}
    /\ UNCHANGED <<sessions, calls, tabs, stored, password, ended>>

-----------------------------------------------------------------------------
(* Exchanging the refresh token *)

\* for SendRefresh: an exchange is sent without a token to exchange.
SendRefreshBare(t) ==
    /\ tabs[t].waiting = Nothing
    /\ \E k \in Calls :
         /\ calls[k] = NoCall
         /\ calls' = [calls EXCEPT ![k] = [sid   |-> tabs[t].tokens.sid,
                                           token |-> tabs[t].tokens.token,
                                           stage |-> "sent"]]
         /\ tabs' = [tabs EXCEPT ![t].waiting = k]
    /\ UNCHANGED <<sessions, stored, password, resets, ended>>

\* refreshAccessToken: one exchange at a time in a tab.
SendRefresh(t) ==
    /\ tabs[t].waiting = Nothing
    /\ tabs[t].tokens # NoTokens
    /\ \E k \in Calls :
         /\ calls[k] = NoCall
         /\ \A j \in Calls : j < k => calls[j] # NoCall
         /\ calls' = [calls EXCEPT ![k] = [sid   |-> tabs[t].tokens.sid,
                                           token |-> tabs[t].tokens.token,
                                           stage |-> "sent"]]
         /\ tabs' = [tabs EXCEPT ![t].waiting = k]
    /\ UNCHANGED <<sessions, stored, password, resets, ended>>

Verdict(k) ==
    LET s == calls[k].sid
    IN  IF ~Active(s) THEN "refused"
        ELSE IF sessions[s].token # calls[k].token THEN "reuse"
        ELSE "passed"

\* rotate() reads the row and decides.
RotateRead(k) ==
    /\ calls[k].stage = "sent"
    /\ calls' = [calls EXCEPT ![k].stage = Verdict(k)]
    /\ UNCHANGED <<sessions, tabs, stored, password, resets, ended>>

\* for Rotate: the UPDATE writes the whole row, with revoked_at as it was read.
RotateRow(s, k) ==
    [sessions EXCEPT ![s].token = k, ![s].state = "active"]

\* The UPDATE names the session only, and leaves revoked_at as it is.
Rotate(s, k) == [sessions EXCEPT ![s].token = k]

RotateWrite(k) ==
    /\ calls[k].stage = "passed"
    /\ sessions' = Rotate(calls[k].sid, k)
    /\ calls' = [calls EXCEPT ![k].stage = "granted"]
    /\ UNCHANGED <<tabs, stored, password, resets, ended>>

\* for RevokeFamily: a superseded token is refused, the family lives on.
RevokeNothing(s) == sessions

\* Each family has one session.
RevokeFamily(s) ==
    IF Active(s) THEN [sessions EXCEPT ![s].state = "over", ![s].reused = TRUE]
    ELSE sessions

RotateReuse(k) ==
    /\ calls[k].stage = "reuse"
    /\ sessions' = RevokeFamily(calls[k].sid)
    /\ calls' = [calls EXCEPT ![k].stage = "refused"]
    /\ UNCHANGED <<tabs, stored, password, resets, ended>>

\* The database answers with an error, and refresh() with 401.  The failed UPDATE
\* of revokeFamily may end the session after the answer: that is End.
RotateFails(k) ==
    /\ calls[k].stage \in Running
    /\ calls' = [calls EXCEPT ![k].stage = IF @ = "passed" THEN "torn" ELSE "failed"]
    /\ UNCHANGED <<sessions, tabs, stored, password, resets, ended>>

\* The connection broke, and the UPDATE is committed all the same.
TornWrite(k) ==
    /\ calls[k].stage = "torn"
    /\ sessions' = Rotate(calls[k].sid, k)
    /\ calls' = [calls EXCEPT ![k].stage = "landed"]
    /\ UNCHANGED <<tabs, stored, password, resets, ended>>

\* for Granted: only the access token is kept (setAccessToken).
GrantedAccess(t, k) ==
    /\ calls[k].stage = "granted"
    /\ tabs[t].waiting = k
    /\ calls' = [calls EXCEPT ![k] = Settled]
    /\ tabs' = [tabs EXCEPT ![t].waiting = Nothing]
    /\ UNCHANGED <<sessions, stored, password, resets, ended>>

\* The new tokens replace those the tab holds, if it still holds any.
Granted(t, k) ==
    /\ calls[k].stage = "granted"
    /\ tabs[t].waiting = k
    /\ calls' = [calls EXCEPT ![k] = Settled]
    /\ LET holds == tabs[t].tokens # NoTokens
           new   == [sid |-> calls[k].sid, token |-> k]
       IN  /\ tabs' = [tabs EXCEPT ![t] = [tokens  |-> IF holds THEN new ELSE NoTokens,
                                           waiting |-> Nothing]]
           /\ stored' = IF holds THEN new ELSE stored
           /\ sessions' = IF holds THEN [sessions EXCEPT ![calls[k].sid].tabs = @ \union {t}]
                          ELSE sessions
    /\ UNCHANGED <<password, resets, ended>>

Refusal(k) == calls[k].stage \in Thrown \union {"refused"}

\* What a torn UPDATE does is still to come, or to be remembered.
AfterRefusal(k) ==
    IF calls[k].stage \in {"torn", "landed"} THEN calls
    ELSE [calls EXCEPT ![k] = Settled]

\* for Refused: refreshPromise is cleared only when the exchange succeeds.
RefusedPending(t, k) ==
    /\ Refusal(k)
    /\ tabs[t].waiting = k
    /\ calls' = AfterRefusal(k)
    /\ UNCHANGED <<sessions, tabs, stored, password, resets, ended>>

\* The request that needed the token gets 401: either it tries once more, or
\* the unauthorized handler clears the session of the tab.  The tab does not
\* look at why it was refused.
Refused(t, k) ==
    /\ Refusal(k)
    /\ tabs[t].waiting = k
    /\ calls' = AfterRefusal(k)
    /\ \E tokens \in {tabs[t].tokens, NoTokens} :
         /\ tabs' = [tabs EXCEPT ![t] = [tokens |-> tokens, waiting |-> Nothing]]
         /\ stored' = IF tokens = NoTokens THEN NoTokens ELSE stored
    /\ UNCHANGED <<sessions, password, resets, ended>>

\* The network fails: the tab keeps its token, the request goes its way.
LoseAnswer(t) ==
    /\ tabs[t].waiting # Nothing
    /\ tabs' = [tabs EXCEPT ![t].waiting = Nothing]
    /\ UNCHANGED <<sessions, calls, stored, password, resets, ended>>

Answer(t, k) == Granted(t, k) \/ Refused(t, k)

\* The backend process dies: what it was doing ends where it stood, and the
\* tabs that awaited it get an error.
Restart ==
    LET died == {k \in Calls : calls[k].stage \in Running}
    IN  /\ died # {} \/ resets # {}
        /\ calls' = [k \in Calls |-> IF k \in died THEN Settled ELSE calls[k]]
        /\ tabs' = [t \in Tabs |-> IF tabs[t].waiting \in died
                                   THEN [tabs[t] EXCEPT !.waiting = Nothing]
                                   ELSE tabs[t]]
        /\ resets' = {}
    /\ UNCHANGED <<sessions, stored, password, ended>>

-----------------------------------------------------------------------------

Next ==
    \/ \E t \in Tabs : \/ SignIn(t) \/ SignOut(t) \/ OpenTab(t)
                       \/ SendRefresh(t) \/ LoseAnswer(t)
                       \/ \E k \in Calls : Answer(t, k)
    \/ \E s \in SessionIds : End(s)
    \/ RevokeActor
    \/ WritePassword
    \/ \E n \in 1..MaxResets : FinishReset(n) \/ FailReset(n)
    \/ \E k \in Calls : \/ RotateRead(k) \/ RotateWrite(k) \/ RotateReuse(k)
                        \/ RotateFails(k) \/ TornWrite(k)
    \/ Restart

Spec == Init /\ [][Next]_vars

\* A request runs to its end, well or not, unless the process dies, and the
\* answer reaches the tab unless the network fails.
Fairness ==
    /\ \A k \in Calls :
          WF_vars(RotateRead(k) \/ RotateWrite(k) \/ RotateReuse(k) \/ RotateFails(k))
    /\ \A t \in Tabs : WF_vars(\E k \in Calls : Answer(t, k))

FairSpec == Spec /\ Fairness

-----------------------------------------------------------------------------
(* Properties *)

\* A session is ended for reuse only when an answer could not reach the tab
\* that asked for it, when the database reported an UPDATE as failed that it
\* committed, or when more than one tab held the session: while exchanges are
\* answered, the exchanges of one tab, one after the other, never end their own
\* session, and one that failed before it wrote may be sent again (rotate,
\* refreshAccessToken).
SingleFlight ==
    \A s \in SessionIds :
        (sessions[s] # NoSession /\ sessions[s].reused) =>
            \/ \E t, u \in sessions[s].tabs : t # u
            \/ \E k \in Calls : Lost(k) /\ calls[k].sid = s

\* When rotate() has decided that a session is gone, it is gone for good, also
\* when an exchange that passed its checks earlier writes its token only now,
\* or writes it although the database said it had not.  The 401 that refresh()
\* makes of any other error says the same and promises nothing: it is no
\* decision of rotate() ("failed", "torn").
RefusalIsFinal ==
    \A k \in Calls : calls[k].stage = "refused" => ~Active(calls[k].sid)

\* When a password reset is over, no session opened under an earlier password
\* is active, whatever exchanges were under way while it ran.
ResetEndsSessions ==
    \A s \in SessionIds : Active(s) => sessions[s].made >= ended

\* Every exchange leaves refreshPromise empty again: it is empty again and
\* again, and no tab waits for ever (refreshAccessToken).
RefreshSettles ==
    \A t \in Tabs : []<>(tabs[t].waiting = Nothing)

=============================================================================
