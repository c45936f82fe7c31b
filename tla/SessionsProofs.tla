--------------------------- MODULE SessionsProofs ---------------------------
(***************************************************************************)
(* Proofs about Sessions, for every number of tabs, sessions, exchanges    *)
(* and passwords.                                                          *)
(***************************************************************************)
EXTENDS Sessions, TLAPS

-----------------------------------------------------------------------------
(* The invariant *)

\* An exchange, a tab or localStorage names a session that was opened.
Opened(s) == sessions[s] # NoSession

NamesOpened ==
    /\ \A k \in Calls : calls[k].stage \in Stages => Opened(calls[k].sid)
    /\ \A t \in Tabs : tabs[t].tokens # NoTokens => Opened(tabs[t].tokens.sid)
    /\ stored # NoTokens => Opened(stored.sid)

\* Every password written, its revocation over or not, is among those counted.
PasswordsCounted ==
    /\ ended <= password
    /\ \A n \in resets : n <= password
    /\ \A s \in SessionIds : Opened(s) => sessions[s].made <= password

IInv == /\ TypeOK
        /\ NamesOpened
        /\ PasswordsCounted
        /\ RefusalIsFinal
        /\ ResetEndsSessions

-----------------------------------------------------------------------------

LEMMA InitIInv == Init => IInv
  BY SessionsAssumption
  DEF Init, IInv, TypeOK, NamesOpened, PasswordsCounted, RefusalIsFinal,
      ResetEndsSessions, Opened, Active, NoSession, NoCall, NoTokens, Settled,
      Session, Call, Tab, Tokens, Stages, Running, Thrown, SessionIds, Calls, Nothing

\* A member of the row sets that is active, or of a stage, is a proper record.
LEMMA Records ==
    ASSUME TypeOK
    PROVE  /\ \A s \in SessionIds : Opened(s) <=> sessions[s] \in Session
           /\ \A s \in SessionIds : Active(s) => Opened(s)
           /\ \A k \in Calls : calls[k].stage \in Stages <=> calls[k] \in Call
           /\ \A t \in Tabs : tabs[t].tokens # NoTokens => tabs[t].tokens \in Tokens
           /\ stored # NoTokens => stored \in Tokens
  BY DEF TypeOK, Opened, Active, Call, Tab, Tokens, Session, NoSession, NoCall, Settled, NoTokens, Stages, Running, Thrown,
         SessionIds, Calls, Nothing

LEMMA SessionUpdates ==
    ASSUME NEW x \in Session
    PROVE  /\ [x EXCEPT !.state = "over"] \in Session
           /\ [[x EXCEPT !.state = "over"] EXCEPT !.reused = TRUE] \in Session
           /\ \A k \in Calls : [x EXCEPT !.token = k] \in Session
           /\ \A t \in Tabs : [x EXCEPT !.tabs = @ \union {t}] \in Session
  BY DEF Session

LEMMA CallUpdates ==
    ASSUME NEW x \in Call, NEW v \in Stages
    PROVE  [x EXCEPT !.stage = v] \in Call
  BY DEF Call

LEMMA TabUpdates ==
    ASSUME NEW x \in Tab
    PROVE  /\ \A w \in Tokens \union {NoTokens} : [x EXCEPT !.tokens = w] \in Tab
           /\ \A k \in {Nothing} \union Calls : [x EXCEPT !.waiting = k] \in Tab
  BY DEF Tab

\* What the two functions on all sessions keep.
LEMMA RevokeAllTyped ==
    ASSUME TypeOK
    PROVE  RevokeAll \in [SessionIds -> Session \union {NoSession}]
<1> SUFFICES ASSUME NEW s \in SessionIds
             PROVE  (IF Active(s) THEN [sessions[s] EXCEPT !.state = "over"]
                     ELSE sessions[s]) \in Session \union {NoSession}
  BY DEF RevokeAll
<1>1. CASE Active(s)
  BY <1>1, Records, SessionUpdates
<1>2. CASE ~Active(s)
  BY <1>2 DEF TypeOK
<1> QED
  BY <1>1, <1>2

LEMMA ListedTokens ==
    ASSUME TypeOK, NEW s \in SessionIds, NEW k \in {Nothing} \union Calls
    PROVE  [sid |-> s, token |-> k] \in Tokens
  BY DEF Tokens

LEMMA SignInKeeps ==
    ASSUME IInv, NEW t \in Tabs, SignIn(t)
    PROVE  IInv'
<1> USE SessionsAssumption, Records DEF IInv
<1>1. TypeOK'
  <2>1. PICK s \in SessionIds :
          /\ sessions' = [sessions EXCEPT ![s] =
                [token |-> Nothing, state |-> "active", made |-> password,
                 reused |-> FALSE, tabs |-> {t}]]
          /\ Keep(t, [sid |-> s, token |-> Nothing])
    BY DEF SignIn
  <2>2. [token |-> Nothing, state |-> "active", made |-> password,
         reused |-> FALSE, tabs |-> {t}] \in Session
    BY DEF Session, TypeOK
  <2>3. sessions' \in [SessionIds -> Session \union {NoSession}]
    BY <2>1, <2>2 DEF TypeOK
  <2>4. [sid |-> s, token |-> Nothing] \in Tokens
    BY ListedTokens
  <2>5. tabs' \in [Tabs -> Tab] /\ stored' \in Tokens \union {NoTokens}
    BY <2>1, <2>4, TabUpdates DEF Keep, TypeOK
  <2> QED
    BY <2>3, <2>5 DEF SignIn, TypeOK
<1>2. NamesOpened'
  BY DEF SignIn, Keep, TypeOK, NamesOpened, Opened, Active, Call, Tab, Tokens, Session, NoSession, NoCall, Settled, NoTokens, Stages, Running, Thrown,
         SessionIds, Calls, Nothing
<1>3. PasswordsCounted'
  BY DEF SignIn, Keep, TypeOK, PasswordsCounted, Opened, Active, Call, Tab, Tokens, Session, NoSession, NoCall, Settled, NoTokens, Stages, Running, Thrown,
         SessionIds, Calls, Nothing
<1>4. RefusalIsFinal'
  BY DEF SignIn, Keep, TypeOK, RefusalIsFinal, NamesOpened, Opened, Active, Call, Tab, Tokens, Session, NoSession, NoCall, Settled, NoTokens, Stages, Running, Thrown,
         SessionIds, Calls, Nothing
<1>5. ResetEndsSessions'
  BY DEF SignIn, Keep, TypeOK, ResetEndsSessions, PasswordsCounted, Opened, Active, Call, Tab, Tokens, Session, NoSession, NoCall, Settled, NoTokens, Stages, Running, Thrown,
         SessionIds, Calls, Nothing
<1> QED
  BY <1>1, <1>2, <1>3, <1>4, <1>5

LEMMA SignOutKeeps ==
    ASSUME IInv, NEW t \in Tabs, SignOut(t)
    PROVE  IInv'
<1> USE SessionsAssumption, Records DEF IInv
<1>1. TypeOK'
  BY TabUpdates DEF SignOut, Keep, TypeOK
<1>2. NamesOpened'
  BY DEF SignOut, Keep, TypeOK, NamesOpened, Opened, Active, Call, Tab, Tokens, Session, NoSession, NoCall, Settled, NoTokens, Stages, Running, Thrown,
         SessionIds, Calls, Nothing
<1>3. PasswordsCounted'
  BY DEF SignOut, Keep, TypeOK, PasswordsCounted, Opened, Active, Call, Tab, Tokens, Session, NoSession, NoCall, Settled, NoTokens, Stages, Running, Thrown,
         SessionIds, Calls, Nothing
<1>4. RefusalIsFinal'
  BY DEF SignOut, Keep, TypeOK, RefusalIsFinal, NamesOpened, Opened, Active, Call, Tab, Tokens, Session, NoSession, NoCall, Settled, NoTokens, Stages, Running, Thrown,
         SessionIds, Calls, Nothing
<1>5. ResetEndsSessions'
  BY DEF SignOut, Keep, TypeOK, ResetEndsSessions, PasswordsCounted, Opened, Active, Call, Tab, Tokens, Session, NoSession, NoCall, Settled, NoTokens, Stages, Running, Thrown,
         SessionIds, Calls, Nothing
<1> QED
  BY <1>1, <1>2, <1>3, <1>4, <1>5

LEMMA OpenTabKeeps ==
    ASSUME IInv, NEW t \in Tabs, OpenTab(t)
    PROVE  IInv'
<1> USE SessionsAssumption, Records DEF IInv
<1>1. TypeOK'
  <2>1. [tokens |-> stored, waiting |-> Nothing] \in Tab
    BY DEF TypeOK, Tab
  <2>2. tabs' \in [Tabs -> Tab]
    BY <2>1 DEF OpenTab, TypeOK
  <2>3. CASE stored = NoTokens
    BY <2>2, <2>3 DEF OpenTab, TypeOK
  <2>4. CASE stored # NoTokens
    <3>1. stored.sid \in SessionIds /\ sessions[stored.sid] \in Session
      BY <2>4 DEF NamesOpened, TypeOK, Tokens
    <3>2. sessions' \in [SessionIds -> Session \union {NoSession}]
      BY <2>4, <3>1, SessionUpdates DEF OpenTab, TypeOK
    <3> QED
      BY <2>2, <3>2 DEF OpenTab, TypeOK
  <2> QED
    BY <2>3, <2>4
<1>2. NamesOpened'
  BY DEF OpenTab, TypeOK, NamesOpened, Opened, Active, Call, Tab, Tokens, Session, NoSession, NoCall, Settled, NoTokens, Stages, Running, Thrown,
         SessionIds, Calls, Nothing
<1>3. PasswordsCounted'
  BY DEF OpenTab, TypeOK, PasswordsCounted, Opened, Active, Call, Tab, Tokens, Session, NoSession, NoCall, Settled, NoTokens, Stages, Running, Thrown,
         SessionIds, Calls, Nothing
<1>4. RefusalIsFinal'
  BY DEF OpenTab, TypeOK, RefusalIsFinal, NamesOpened, Opened, Active, Call, Tab, Tokens, Session, NoSession, NoCall, Settled, NoTokens, Stages, Running, Thrown,
         SessionIds, Calls, Nothing
<1>5. ResetEndsSessions'
  BY DEF OpenTab, TypeOK, ResetEndsSessions, PasswordsCounted, Opened, Active, Call, Tab, Tokens, Session, NoSession, NoCall, Settled, NoTokens, Stages, Running, Thrown,
         SessionIds, Calls, Nothing
<1> QED
  BY <1>1, <1>2, <1>3, <1>4, <1>5

LEMMA SendRefreshKeeps ==
    ASSUME IInv, NEW t \in Tabs, SendRefresh(t)
    PROVE  IInv'
<1> USE SessionsAssumption, Records DEF IInv
<1>1. TypeOK'
  <2>1. PICK k \in Calls :
          /\ calls' = [calls EXCEPT ![k] = [sid   |-> tabs[t].tokens.sid,
                                            token |-> tabs[t].tokens.token,
                                            stage |-> "sent"]]
          /\ tabs' = [tabs EXCEPT ![t].waiting = k]
    BY DEF SendRefresh
  <2>2. tabs[t].tokens \in Tokens
    BY DEF SendRefresh
  <2>3. [sid |-> tabs[t].tokens.sid, token |-> tabs[t].tokens.token,
         stage |-> "sent"] \in Call
    BY <2>2 DEF Tokens, Call, Stages, Running, Thrown
  <2>4. calls' \in [Calls -> Call \union {NoCall, Settled}]
    BY <2>1, <2>3 DEF TypeOK
  <2>5. tabs' \in [Tabs -> Tab]
    BY <2>1, TabUpdates DEF TypeOK
  <2> QED
    BY <2>4, <2>5 DEF SendRefresh, TypeOK
<1>2. NamesOpened'
  BY DEF SendRefresh, TypeOK, NamesOpened, Opened, Active, Call, Tab, Tokens, Session, NoSession, NoCall, Settled, NoTokens, Stages, Running, Thrown,
         SessionIds, Calls, Nothing
<1>3. PasswordsCounted'
  BY DEF SendRefresh, TypeOK, PasswordsCounted, Opened, Active, Call, Tab, Tokens, Session, NoSession, NoCall, Settled, NoTokens, Stages, Running, Thrown,
         SessionIds, Calls, Nothing
<1>4. RefusalIsFinal'
  BY DEF SendRefresh, TypeOK, RefusalIsFinal, NamesOpened, Opened, Active, Call, Tab, Tokens, Session, NoSession, NoCall, Settled, NoTokens, Stages, Running, Thrown,
         SessionIds, Calls, Nothing
<1>5. ResetEndsSessions'
  BY DEF SendRefresh, TypeOK, ResetEndsSessions, PasswordsCounted, Opened, Active, Call, Tab, Tokens, Session, NoSession, NoCall, Settled, NoTokens, Stages, Running, Thrown,
         SessionIds, Calls, Nothing
<1> QED
  BY <1>1, <1>2, <1>3, <1>4, <1>5

LEMMA LoseAnswerKeeps ==
    ASSUME IInv, NEW t \in Tabs, LoseAnswer(t)
    PROVE  IInv'
<1> USE SessionsAssumption, Records DEF IInv
<1>1. TypeOK'
  BY TabUpdates DEF LoseAnswer, TypeOK
<1>2. NamesOpened'
  BY DEF LoseAnswer, TypeOK, NamesOpened, Opened, Active, Call, Tab, Tokens, Session, NoSession, NoCall, Settled, NoTokens, Stages, Running, Thrown,
         SessionIds, Calls, Nothing
<1>3. PasswordsCounted'
  BY DEF LoseAnswer, TypeOK, PasswordsCounted, Opened, Active, Call, Tab, Tokens, Session, NoSession, NoCall, Settled, NoTokens, Stages, Running, Thrown,
         SessionIds, Calls, Nothing
<1>4. RefusalIsFinal'
  BY DEF LoseAnswer, TypeOK, RefusalIsFinal, NamesOpened, Opened, Active, Call, Tab, Tokens, Session, NoSession, NoCall, Settled, NoTokens, Stages, Running, Thrown,
         SessionIds, Calls, Nothing
<1>5. ResetEndsSessions'
  BY DEF LoseAnswer, TypeOK, ResetEndsSessions, PasswordsCounted, Opened, Active, Call, Tab, Tokens, Session, NoSession, NoCall, Settled, NoTokens, Stages, Running, Thrown,
         SessionIds, Calls, Nothing
<1> QED
  BY <1>1, <1>2, <1>3, <1>4, <1>5

LEMMA GrantedKeeps ==
    ASSUME IInv, NEW t \in Tabs, NEW k \in Calls, Granted(t, k)
    PROVE  IInv'
<1> USE SessionsAssumption, Records DEF IInv
<1>1. TypeOK'
  <2> DEFINE holds == tabs[t].tokens # NoTokens
             new   == [sid |-> calls[k].sid, token |-> k]
  <2>1. calls[k] \in Call /\ sessions[calls[k].sid] \in Session
        /\ calls[k].sid \in SessionIds
    BY DEF Granted, NamesOpened, Stages, Running, Thrown, TypeOK, Call
  <2>2. new \in Tokens
    BY <2>1, ListedTokens
  <2>3. [tokens |-> IF holds THEN new ELSE NoTokens, waiting |-> Nothing] \in Tab
    BY <2>2 DEF Tab
  <2>4. tabs' \in [Tabs -> Tab] /\ stored' \in Tokens \union {NoTokens}
    BY <2>2, <2>3 DEF Granted, TypeOK
  <2>5. sessions' \in [SessionIds -> Session \union {NoSession}]
    BY <2>1, SessionUpdates DEF Granted, TypeOK
  <2>6. calls' \in [Calls -> Call \union {NoCall, Settled}]
    BY DEF Granted, TypeOK
  <2> QED
    BY <2>4, <2>5, <2>6 DEF Granted, TypeOK
<1>2. NamesOpened'
  BY DEF Granted, TypeOK, NamesOpened, Opened, Active, Call, Tab, Tokens, Session, NoSession, NoCall, Settled, NoTokens, Stages, Running, Thrown,
         SessionIds, Calls, Nothing
<1>3. PasswordsCounted'
  BY DEF Granted, TypeOK, PasswordsCounted, Opened, Active, Call, Tab, Tokens, Session, NoSession, NoCall, Settled, NoTokens, Stages, Running, Thrown,
         SessionIds, Calls, Nothing
<1>4. RefusalIsFinal'
  BY DEF Granted, TypeOK, RefusalIsFinal, NamesOpened, Opened, Active, Call, Tab, Tokens, Session, NoSession, NoCall, Settled, NoTokens, Stages, Running, Thrown,
         SessionIds, Calls, Nothing
<1>5. ResetEndsSessions'
  BY DEF Granted, TypeOK, ResetEndsSessions, PasswordsCounted, Opened, Active, Call, Tab, Tokens, Session, NoSession, NoCall, Settled, NoTokens, Stages, Running, Thrown,
         SessionIds, Calls, Nothing
<1> QED
  BY <1>1, <1>2, <1>3, <1>4, <1>5

LEMMA RefusedKeeps ==
    ASSUME IInv, NEW t \in Tabs, NEW k \in Calls, Refused(t, k)
    PROVE  IInv'
<1> USE SessionsAssumption, Records DEF IInv
<1>1. TypeOK'
  BY DEF Refused, Refusal, AfterRefusal, TypeOK, Active, Opened, Call, Tab, Tokens, Session, NoSession, NoCall, Settled, NoTokens, Stages, Running, Thrown,
         SessionIds, Calls, Nothing
<1>2. NamesOpened'
  BY DEF Refused, Refusal, AfterRefusal, TypeOK, NamesOpened, Opened, Active, Call, Tab, Tokens, Session, NoSession, NoCall, Settled, NoTokens, Stages, Running, Thrown,
         SessionIds, Calls, Nothing
<1>3. PasswordsCounted'
  BY DEF Refused, Refusal, AfterRefusal, TypeOK, PasswordsCounted, Opened, Active, Call, Tab, Tokens, Session, NoSession, NoCall, Settled, NoTokens, Stages, Running, Thrown,
         SessionIds, Calls, Nothing
<1>4. RefusalIsFinal'
  BY DEF Refused, Refusal, AfterRefusal, TypeOK, RefusalIsFinal, NamesOpened, Opened, Active, Call, Tab, Tokens, Session, NoSession, NoCall, Settled, NoTokens, Stages, Running, Thrown,
         SessionIds, Calls, Nothing
<1>5. ResetEndsSessions'
  BY DEF Refused, Refusal, AfterRefusal, TypeOK, ResetEndsSessions, PasswordsCounted, Opened, Active, Call, Tab, Tokens, Session, NoSession, NoCall, Settled, NoTokens, Stages, Running, Thrown,
         SessionIds, Calls, Nothing
<1> QED
  BY <1>1, <1>2, <1>3, <1>4, <1>5

LEMMA EndKeeps ==
    ASSUME IInv, NEW z \in SessionIds, End(z)
    PROVE  IInv'
<1> USE SessionsAssumption, Records DEF IInv
<1>1. TypeOK'
  BY SessionUpdates DEF End, TypeOK
<1>2. NamesOpened'
  BY DEF End, TypeOK, NamesOpened, Opened, Active, Call, Tab, Tokens, Session, NoSession, NoCall, Settled, NoTokens, Stages, Running, Thrown,
         SessionIds, Calls, Nothing
<1>3. PasswordsCounted'
  BY DEF End, TypeOK, PasswordsCounted, Opened, Active, Call, Tab, Tokens, Session, NoSession, NoCall, Settled, NoTokens, Stages, Running, Thrown,
         SessionIds, Calls, Nothing
<1>4. RefusalIsFinal'
  BY DEF End, TypeOK, RefusalIsFinal, NamesOpened, Opened, Active, Call, Tab, Tokens, Session, NoSession, NoCall, Settled, NoTokens, Stages, Running, Thrown,
         SessionIds, Calls, Nothing
<1>5. ResetEndsSessions'
  BY DEF End, TypeOK, ResetEndsSessions, PasswordsCounted, Opened, Active, Call, Tab, Tokens, Session, NoSession, NoCall, Settled, NoTokens, Stages, Running, Thrown,
         SessionIds, Calls, Nothing
<1> QED
  BY <1>1, <1>2, <1>3, <1>4, <1>5

LEMMA RevokeActorKeeps ==
    ASSUME IInv, RevokeActor
    PROVE  IInv'
<1> USE SessionsAssumption, Records DEF IInv
<1>1. TypeOK'
  BY RevokeAllTyped DEF RevokeActor, TypeOK
<1>2. NamesOpened'
  BY DEF RevokeActor, RevokeAll, TypeOK, NamesOpened, Opened, Active, Call, Tab, Tokens, Session, NoSession, NoCall, Settled, NoTokens, Stages, Running, Thrown,
         SessionIds, Calls, Nothing
<1>3. PasswordsCounted'
  BY DEF RevokeActor, RevokeAll, TypeOK, PasswordsCounted, Opened, Active, Call, Tab, Tokens, Session, NoSession, NoCall, Settled, NoTokens, Stages, Running, Thrown,
         SessionIds, Calls, Nothing
<1>4. RefusalIsFinal'
  BY DEF RevokeActor, RevokeAll, TypeOK, RefusalIsFinal, NamesOpened, Opened, Active, Call, Tab, Tokens, Session, NoSession, NoCall, Settled, NoTokens, Stages, Running, Thrown,
         SessionIds, Calls, Nothing
<1>5. ResetEndsSessions'
  BY DEF RevokeActor, RevokeAll, TypeOK, ResetEndsSessions, PasswordsCounted, Opened, Active, Call, Tab, Tokens, Session, NoSession, NoCall, Settled, NoTokens, Stages, Running, Thrown,
         SessionIds, Calls, Nothing
<1> QED
  BY <1>1, <1>2, <1>3, <1>4, <1>5

LEMMA WritePasswordKeeps ==
    ASSUME IInv, WritePassword
    PROVE  IInv'
<1> USE SessionsAssumption, Records DEF IInv
<1>1. TypeOK'
  BY DEF WritePassword, TypeOK, Active, Opened, Call, Tab, Tokens, Session, NoSession, NoCall, Settled, NoTokens, Stages, Running, Thrown,
         SessionIds, Calls, Nothing
<1>2. NamesOpened'
  BY DEF WritePassword, TypeOK, NamesOpened, Opened, Active, Call, Tab, Tokens, Session, NoSession, NoCall, Settled, NoTokens, Stages, Running, Thrown,
         SessionIds, Calls, Nothing
<1>3. PasswordsCounted'
  BY DEF WritePassword, TypeOK, PasswordsCounted, Opened, Active, Call, Tab, Tokens, Session, NoSession, NoCall, Settled, NoTokens, Stages, Running, Thrown,
         SessionIds, Calls, Nothing
<1>4. RefusalIsFinal'
  BY DEF WritePassword, TypeOK, RefusalIsFinal, NamesOpened, Opened, Active, Call, Tab, Tokens, Session, NoSession, NoCall, Settled, NoTokens, Stages, Running, Thrown,
         SessionIds, Calls, Nothing
<1>5. ResetEndsSessions'
  BY DEF WritePassword, TypeOK, ResetEndsSessions, PasswordsCounted, Opened, Active, Call, Tab, Tokens, Session, NoSession, NoCall, Settled, NoTokens, Stages, Running, Thrown,
         SessionIds, Calls, Nothing
<1> QED
  BY <1>1, <1>2, <1>3, <1>4, <1>5

LEMMA FinishResetKeeps ==
    ASSUME IInv, NEW n \in 1..MaxResets, FinishReset(n)
    PROVE  IInv'
<1> USE SessionsAssumption, Records DEF IInv
<1>1. TypeOK'
  BY RevokeAllTyped DEF FinishReset, TypeOK
<1>2. NamesOpened'
  BY DEF FinishReset, RevokeAll, TypeOK, NamesOpened, Opened, Active, Call, Tab, Tokens, Session, NoSession, NoCall, Settled, NoTokens, Stages, Running, Thrown,
         SessionIds, Calls, Nothing
<1>3. PasswordsCounted'
  BY DEF FinishReset, RevokeAll, TypeOK, PasswordsCounted, Opened, Active, Call, Tab, Tokens, Session, NoSession, NoCall, Settled, NoTokens, Stages, Running, Thrown,
         SessionIds, Calls, Nothing
<1>4. RefusalIsFinal'
  BY DEF FinishReset, RevokeAll, TypeOK, RefusalIsFinal, NamesOpened, Opened, Active, Call, Tab, Tokens, Session, NoSession, NoCall, Settled, NoTokens, Stages, Running, Thrown,
         SessionIds, Calls, Nothing
<1>5. ResetEndsSessions'
  BY DEF FinishReset, RevokeAll, TypeOK, ResetEndsSessions, PasswordsCounted, Opened, Active, Call, Tab, Tokens, Session, NoSession, NoCall, Settled, NoTokens, Stages, Running, Thrown,
         SessionIds, Calls, Nothing
<1> QED
  BY <1>1, <1>2, <1>3, <1>4, <1>5

LEMMA FailResetKeeps ==
    ASSUME IInv, NEW n \in 1..MaxResets, FailReset(n)
    PROVE  IInv'
<1> USE SessionsAssumption, Records DEF IInv
<1>1. TypeOK'
  BY DEF FailReset, TypeOK, Active, Opened, Call, Tab, Tokens, Session, NoSession, NoCall, Settled, NoTokens, Stages, Running, Thrown,
         SessionIds, Calls, Nothing
<1>2. NamesOpened'
  BY DEF FailReset, TypeOK, NamesOpened, Opened, Active, Call, Tab, Tokens, Session, NoSession, NoCall, Settled, NoTokens, Stages, Running, Thrown,
         SessionIds, Calls, Nothing
<1>3. PasswordsCounted'
  BY DEF FailReset, TypeOK, PasswordsCounted, Opened, Active, Call, Tab, Tokens, Session, NoSession, NoCall, Settled, NoTokens, Stages, Running, Thrown,
         SessionIds, Calls, Nothing
<1>4. RefusalIsFinal'
  BY DEF FailReset, TypeOK, RefusalIsFinal, NamesOpened, Opened, Active, Call, Tab, Tokens, Session, NoSession, NoCall, Settled, NoTokens, Stages, Running, Thrown,
         SessionIds, Calls, Nothing
<1>5. ResetEndsSessions'
  BY DEF FailReset, TypeOK, ResetEndsSessions, PasswordsCounted, Opened, Active, Call, Tab, Tokens, Session, NoSession, NoCall, Settled, NoTokens, Stages, Running, Thrown,
         SessionIds, Calls, Nothing
<1> QED
  BY <1>1, <1>2, <1>3, <1>4, <1>5

LEMMA RotateReadKeeps ==
    ASSUME IInv, NEW k \in Calls, RotateRead(k)
    PROVE  IInv'
<1> USE SessionsAssumption, Records DEF IInv
<1>1. TypeOK'
  <2>1. calls[k] \in Call /\ Verdict(k) \in Stages
    BY DEF RotateRead, Verdict, Stages, Running, Thrown
  <2> QED
    BY <2>1, CallUpdates DEF RotateRead, TypeOK
<1>2. NamesOpened'
  BY DEF RotateRead, Verdict, TypeOK, NamesOpened, Opened, Active, Call, Tab, Tokens, Session, NoSession, NoCall, Settled, NoTokens, Stages, Running, Thrown,
         SessionIds, Calls, Nothing
<1>3. PasswordsCounted'
  BY DEF RotateRead, Verdict, TypeOK, PasswordsCounted, Opened, Active, Call, Tab, Tokens, Session, NoSession, NoCall, Settled, NoTokens, Stages, Running, Thrown,
         SessionIds, Calls, Nothing
<1>4. RefusalIsFinal'
  BY DEF RotateRead, Verdict, TypeOK, RefusalIsFinal, NamesOpened, Opened, Active, Call, Tab, Tokens, Session, NoSession, NoCall, Settled, NoTokens, Stages, Running, Thrown,
         SessionIds, Calls, Nothing
<1>5. ResetEndsSessions'
  BY DEF RotateRead, Verdict, TypeOK, ResetEndsSessions, PasswordsCounted, Opened, Active, Call, Tab, Tokens, Session, NoSession, NoCall, Settled, NoTokens, Stages, Running, Thrown,
         SessionIds, Calls, Nothing
<1> QED
  BY <1>1, <1>2, <1>3, <1>4, <1>5

LEMMA RotateWriteKeeps ==
    ASSUME IInv, NEW k \in Calls, RotateWrite(k)
    PROVE  IInv'
<1> USE SessionsAssumption, Records DEF IInv
<1>1. TypeOK'
  <2>1. calls[k] \in Call /\ "granted" \in Stages
    BY DEF RotateWrite, Stages, Running, Thrown
  <2>2. calls[k].sid \in SessionIds /\ sessions[calls[k].sid] \in Session
    BY <2>1 DEF NamesOpened, Call
  <2>3. sessions' \in [SessionIds -> Session \union {NoSession}]
    BY <2>2, SessionUpdates DEF RotateWrite, Rotate, TypeOK
  <2>4. calls' \in [Calls -> Call \union {NoCall, Settled}]
    BY <2>1, CallUpdates DEF RotateWrite, TypeOK
  <2> QED
    BY <2>3, <2>4 DEF RotateWrite, TypeOK
<1>2. NamesOpened'
  BY DEF RotateWrite, Rotate, TypeOK, NamesOpened, Opened, Active, Call, Tab, Tokens, Session, NoSession, NoCall, Settled, NoTokens, Stages, Running, Thrown,
         SessionIds, Calls, Nothing
<1>3. PasswordsCounted'
  BY DEF RotateWrite, Rotate, TypeOK, PasswordsCounted, Opened, Active, Call, Tab, Tokens, Session, NoSession, NoCall, Settled, NoTokens, Stages, Running, Thrown,
         SessionIds, Calls, Nothing
<1>4. RefusalIsFinal'
  BY DEF RotateWrite, Rotate, TypeOK, RefusalIsFinal, NamesOpened, Opened, Active, Call, Tab, Tokens, Session, NoSession, NoCall, Settled, NoTokens, Stages, Running, Thrown,
         SessionIds, Calls, Nothing
<1>5. ResetEndsSessions'
  BY DEF RotateWrite, Rotate, TypeOK, ResetEndsSessions, PasswordsCounted, Opened, Active, Call, Tab, Tokens, Session, NoSession, NoCall, Settled, NoTokens, Stages, Running, Thrown,
         SessionIds, Calls, Nothing
<1> QED
  BY <1>1, <1>2, <1>3, <1>4, <1>5

LEMMA RotateReuseKeeps ==
    ASSUME IInv, NEW k \in Calls, RotateReuse(k)
    PROVE  IInv'
<1> USE SessionsAssumption, Records DEF IInv
<1>1. TypeOK'
  <2>1. calls[k] \in Call /\ "refused" \in Stages
    BY DEF RotateReuse, Stages, Running, Thrown
  <2>2. calls[k].sid \in SessionIds /\ sessions[calls[k].sid] \in Session
    BY <2>1 DEF NamesOpened, Call
  <2>3. RevokeFamily(calls[k].sid) \in [SessionIds -> Session \union {NoSession}]
    BY <2>2, SessionUpdates DEF RevokeFamily, TypeOK
  <2>4. calls' \in [Calls -> Call \union {NoCall, Settled}]
    BY <2>1, CallUpdates DEF RotateReuse, TypeOK
  <2> QED
    BY <2>3, <2>4 DEF RotateReuse, TypeOK
<1>2. NamesOpened'
  BY DEF RotateReuse, RevokeFamily, TypeOK, NamesOpened, Opened, Active, Call, Tab, Tokens, Session, NoSession, NoCall, Settled, NoTokens, Stages, Running, Thrown,
         SessionIds, Calls, Nothing
<1>3. PasswordsCounted'
  BY DEF RotateReuse, RevokeFamily, TypeOK, PasswordsCounted, Opened, Active, Call, Tab, Tokens, Session, NoSession, NoCall, Settled, NoTokens, Stages, Running, Thrown,
         SessionIds, Calls, Nothing
<1>4. RefusalIsFinal'
  BY DEF RotateReuse, RevokeFamily, TypeOK, RefusalIsFinal, NamesOpened, Opened, Active, Call, Tab, Tokens, Session, NoSession, NoCall, Settled, NoTokens, Stages, Running, Thrown,
         SessionIds, Calls, Nothing
<1>5. ResetEndsSessions'
  BY DEF RotateReuse, RevokeFamily, TypeOK, ResetEndsSessions, PasswordsCounted, Opened, Active, Call, Tab, Tokens, Session, NoSession, NoCall, Settled, NoTokens, Stages, Running, Thrown,
         SessionIds, Calls, Nothing
<1> QED
  BY <1>1, <1>2, <1>3, <1>4, <1>5

LEMMA RotateFailsKeeps ==
    ASSUME IInv, NEW k \in Calls, RotateFails(k)
    PROVE  IInv'
<1> USE SessionsAssumption, Records DEF IInv
<1>1. TypeOK'
  <2>1. calls[k] \in Call /\ "torn" \in Stages /\ "failed" \in Stages
    BY DEF RotateFails, Stages, Running, Thrown
  <2>2. calls' \in [Calls -> Call \union {NoCall, Settled}]
    BY <2>1, CallUpdates DEF RotateFails, TypeOK
  <2> QED
    BY <2>2 DEF RotateFails, TypeOK
<1>2. NamesOpened'
  BY DEF RotateFails, TypeOK, NamesOpened, Opened, Active, Call, Tab, Tokens, Session, NoSession, NoCall, Settled, NoTokens, Stages, Running, Thrown,
         SessionIds, Calls, Nothing
<1>3. PasswordsCounted'
  BY DEF RotateFails, TypeOK, PasswordsCounted, Opened, Active, Call, Tab, Tokens, Session, NoSession, NoCall, Settled, NoTokens, Stages, Running, Thrown,
         SessionIds, Calls, Nothing
<1>4. RefusalIsFinal'
  BY DEF RotateFails, TypeOK, RefusalIsFinal, NamesOpened, Opened, Active, Call, Tab, Tokens, Session, NoSession, NoCall, Settled, NoTokens, Stages, Running, Thrown,
         SessionIds, Calls, Nothing
<1>5. ResetEndsSessions'
  BY DEF RotateFails, TypeOK, ResetEndsSessions, PasswordsCounted, Opened, Active, Call, Tab, Tokens, Session, NoSession, NoCall, Settled, NoTokens, Stages, Running, Thrown,
         SessionIds, Calls, Nothing
<1> QED
  BY <1>1, <1>2, <1>3, <1>4, <1>5

LEMMA TornWriteKeeps ==
    ASSUME IInv, NEW k \in Calls, TornWrite(k)
    PROVE  IInv'
<1> USE SessionsAssumption, Records DEF IInv
<1>1. TypeOK'
  <2>1. calls[k] \in Call /\ "landed" \in Stages
    BY DEF TornWrite, Stages, Running, Thrown
  <2>2. calls[k].sid \in SessionIds /\ sessions[calls[k].sid] \in Session
    BY <2>1 DEF NamesOpened, Call
  <2>3. sessions' \in [SessionIds -> Session \union {NoSession}]
    BY <2>2, SessionUpdates DEF TornWrite, Rotate, TypeOK
  <2>4. calls' \in [Calls -> Call \union {NoCall, Settled}]
    BY <2>1, CallUpdates DEF TornWrite, TypeOK
  <2> QED
    BY <2>3, <2>4 DEF TornWrite, TypeOK
<1>2. NamesOpened'
  <2>1. /\ tabs' = tabs /\ stored' = stored
        /\ calls[k].stage \in Stages /\ calls'[k].sid = calls[k].sid
        /\ \A j \in Calls : j # k => calls'[j] = calls[j]
    BY DEF TornWrite, TypeOK, Stages, Thrown, Call, NoCall, Settled
  <2>2. \A z \in SessionIds : Opened(z) => Opened(z)'
    BY DEF TornWrite, Rotate, TypeOK, Opened, Session, NoSession
  <2>3. \A j \in Calls : calls[j].stage \in Stages => calls[j].sid \in SessionIds
    BY DEF Call
  <2>4. \A t \in Tabs : tabs[t].tokens # NoTokens => tabs[t].tokens.sid \in SessionIds
    BY DEF Tokens
  <2>5. stored # NoTokens => stored.sid \in SessionIds
    BY DEF Tokens
  <2> QED
    BY <2>1, <2>2, <2>3, <2>4, <2>5 DEF NamesOpened
<1>3. PasswordsCounted'
  BY DEF TornWrite, Rotate, TypeOK, PasswordsCounted, Opened, Active, Call, Tab, Tokens, Session, NoSession, NoCall, Settled, NoTokens, Stages, Running, Thrown,
         SessionIds, Calls, Nothing
<1>4. RefusalIsFinal'
  BY DEF TornWrite, Rotate, TypeOK, RefusalIsFinal, NamesOpened, Opened, Active, Call, Tab, Tokens, Session, NoSession, NoCall, Settled, NoTokens, Stages, Running, Thrown,
         SessionIds, Calls, Nothing
<1>5. ResetEndsSessions'
  BY DEF TornWrite, Rotate, TypeOK, ResetEndsSessions, PasswordsCounted, Opened, Active, Call, Tab, Tokens, Session, NoSession, NoCall, Settled, NoTokens, Stages, Running, Thrown,
         SessionIds, Calls, Nothing
<1> QED
  BY <1>1, <1>2, <1>3, <1>4, <1>5

LEMMA RestartKeeps ==
    ASSUME IInv, Restart
    PROVE  IInv'
<1> USE SessionsAssumption, Records DEF IInv
<1>1. TypeOK'
  <2>1. calls' \in [Calls -> Call \union {NoCall, Settled}]
    BY DEF Restart, TypeOK
  <2>2. tabs' \in [Tabs -> Tab]
    BY TabUpdates DEF Restart, TypeOK
  <2> QED
    BY <2>1, <2>2 DEF Restart, TypeOK
<1>2. NamesOpened'
  BY DEF Restart, TypeOK, NamesOpened, Opened, Active, Call, Tab, Tokens, Session, NoSession, NoCall, Settled, NoTokens, Stages, Running, Thrown,
         SessionIds, Calls, Nothing
<1>3. PasswordsCounted'
  BY DEF Restart, TypeOK, PasswordsCounted, Opened, Active, Call, Tab, Tokens, Session, NoSession, NoCall, Settled, NoTokens, Stages, Running, Thrown,
         SessionIds, Calls, Nothing
<1>4. RefusalIsFinal'
  BY DEF Restart, TypeOK, RefusalIsFinal, NamesOpened, Opened, Active, Call, Tab, Tokens, Session, NoSession, NoCall, Settled, NoTokens, Stages, Running, Thrown,
         SessionIds, Calls, Nothing
<1>5. ResetEndsSessions'
  BY DEF Restart, TypeOK, ResetEndsSessions, PasswordsCounted, Opened, Active, Call, Tab, Tokens, Session, NoSession, NoCall, Settled, NoTokens, Stages, Running, Thrown,
         SessionIds, Calls, Nothing
<1> QED
  BY <1>1, <1>2, <1>3, <1>4, <1>5

-----------------------------------------------------------------------------
(* The exchanges of one tab do not end its session *)

\* A tab is counted among those of every session it has tokens of, or awaits an
\* answer for; no two tabs await the same answer.
HoldersKnown ==
    /\ \A t \in Tabs : tabs[t].tokens # NoTokens => t \in sessions[tabs[t].tokens.sid].tabs
    /\ \A t \in Tabs : tabs[t].waiting # Nothing =>
           /\ calls[tabs[t].waiting].stage \in Stages
           /\ t \in sessions[calls[tabs[t].waiting].sid].tabs
    /\ \A t, u \in Tabs : (tabs[t].waiting = tabs[u].waiting /\ tabs[t].waiting # Nothing) => t = u

Shared(s)   == \E t, u \in sessions[s].tabs : t # u
Orphaned(s) == \E k \in Calls : Lost(k) /\ calls[k].sid = s
Clean(s)    == Opened(s) /\ ~Shared(s) /\ ~Orphaned(s)

\* The stage of the exchange of session s that a tab awaits.
Awaits(t, s, stages) ==
    /\ tabs[t].waiting # Nothing
    /\ calls[tabs[t].waiting].sid = s
    /\ calls[tabs[t].waiting].stage \in stages

\* Of a session that one tab holds, whose answers all arrived, and with no token
\* written that an answer denied.
InStep(s) ==
    /\ ~sessions[s].reused
    /\ \A t \in Tabs : Awaits(t, s, {"granted"}) => sessions[s].token = tabs[t].waiting
    /\ \A t \in Tabs : Awaits(t, s, {"sent", "passed"}) =>
           calls[tabs[t].waiting].token = sessions[s].token
    /\ \A t \in Tabs : ~Awaits(t, s, {"reuse"})
    /\ \A t \in Tabs : (tabs[t].tokens # NoTokens /\ tabs[t].tokens.sid = s) =>
           \/ tabs[t].tokens.token = sessions[s].token
           \/ Awaits(t, s, {"granted"})
    /\ (stored # NoTokens /\ stored.sid = s) => \E t \in Tabs : tabs[t].tokens = stored

FlightInv == \A s \in SessionIds : Clean(s) => InStep(s)

FullInv == IInv /\ HoldersKnown /\ FlightInv

LEMMA InitFlight == Init => HoldersKnown /\ FlightInv
  BY DEF Init, HoldersKnown, FlightInv, Clean, Opened, NoSession, NoTokens, Nothing

LEMMA SignInInStep ==
    ASSUME FullInv, NEW t \in Tabs, SignIn(t)
    PROVE  HoldersKnown' /\ FlightInv'
<1> USE SessionsAssumption, Records DEF FullInv, IInv
<1>1. HoldersKnown'
  BY DEF SignIn, Keep, TypeOK, HoldersKnown, NamesOpened, Opened, Active, Call, Tab, Tokens, Session, NoSession, NoCall, Settled, NoTokens, Stages, Running, Thrown,
         SessionIds, Calls, Nothing
<1> SUFFICES ASSUME NEW s \in SessionIds, Clean(s)'
             PROVE  InStep(s)'
  BY <1>1 DEF FlightInv
<1>0. PICK r \in SessionIds :
        /\ sessions[r] = NoSession
        /\ sessions' = [sessions EXCEPT ![r] =
               [token |-> Nothing, state |-> "active", made |-> password,
                reused |-> FALSE, tabs |-> {t}]]
        /\ Keep(t, [sid |-> r, token |-> Nothing])
  BY DEF SignIn
<1>a. /\ \A u \in Tabs : tabs'[u].waiting = tabs[u].waiting
      /\ \A u \in Tabs : u # t => tabs'[u] = tabs[u]
      /\ tabs'[t].tokens = [sid |-> r, token |-> Nothing]
      /\ stored' = [sid |-> r, token |-> Nothing]
      /\ calls' = calls
  BY <1>0 DEF Keep, TypeOK, Tab, SignIn
<1>b. /\ sessions'[r].token = Nothing /\ ~sessions'[r].reused
      /\ \A z \in SessionIds : z # r => sessions'[z] = sessions[z]
  BY <1>0 DEF TypeOK
<1>c. \A u \in Tabs : tabs[u].waiting # Nothing =>
        calls[tabs[u].waiting].sid # r /\ calls[tabs[u].waiting].stage \in Stages
  BY <1>0 DEF HoldersKnown, NamesOpened, Opened, TypeOK, Tab
<1>d. \A u \in Tabs : u # t /\ tabs[u].tokens # NoTokens => tabs[u].tokens.sid # r
  BY <1>0 DEF NamesOpened, Opened
<1> SUFFICES ASSUME s # r
             PROVE  InStep(s)'
  <2>1. ASSUME s = r PROVE InStep(s)'
    BY <2>1, <1>a, <1>b, <1>c, <1>d DEF InStep, Awaits
  <2> QED
    BY <2>1
<1>2. InStep(s)
  <2>1. Clean(s)
    BY <1>a, <1>b DEF Clean, Shared, Orphaned, Lost, Orphan, Opened
  <2> QED
    BY <2>1 DEF FlightInv
<1> QED
  BY <1>a, <1>b, <1>2 DEF InStep, Awaits

LEMMA SignOutInStep ==
    ASSUME FullInv, NEW t \in Tabs, SignOut(t)
    PROVE  HoldersKnown' /\ FlightInv'
<1> USE SessionsAssumption, Records DEF FullInv, IInv
<1>1. HoldersKnown'
  BY DEF SignOut, Keep, TypeOK, HoldersKnown, NamesOpened, Opened, Active, Call, Tab, Tokens, Session, NoSession, NoCall, Settled, NoTokens, Stages, Running, Thrown,
         SessionIds, Calls, Nothing
<1> SUFFICES ASSUME NEW s \in SessionIds, Clean(s)'
             PROVE  InStep(s)'
  BY <1>1 DEF FlightInv
<1>2. InStep(s)
  <2>1. Clean(s)
    BY DEF SignOut, Keep, Clean, Shared, Orphaned, Lost, Orphan, Opened, TypeOK, NamesOpened, HoldersKnown, Active, Call, Tab, Tokens, Session, NoSession, NoCall, Settled, NoTokens, Stages, Running, Thrown,
         SessionIds, Calls, Nothing
  <2> QED
    BY <2>1 DEF FlightInv
<1>3. (~sessions[s].reused)'
  BY <1>2 DEF SignOut, Keep, InStep, TypeOK, Active, Call, Tab, Tokens, Session, NoSession, NoCall, Settled, NoTokens, Stages, Running, Thrown,
         SessionIds, Calls, Nothing
<1>4. (\A u \in Tabs : Awaits(u, s, {"granted"}) => sessions[s].token = tabs[u].waiting)'
  BY <1>2 DEF SignOut, Keep, InStep, Awaits, TypeOK, Active, Call, Tab, Tokens, Session, NoSession, NoCall, Settled, NoTokens, Stages, Running, Thrown,
         SessionIds, Calls, Nothing
<1>5. (\A u \in Tabs : Awaits(u, s, {"sent", "passed"}) =>
           calls[tabs[u].waiting].token = sessions[s].token)'
  BY <1>2 DEF SignOut, Keep, InStep, Awaits, TypeOK, Active, Call, Tab, Tokens, Session, NoSession, NoCall, Settled, NoTokens, Stages, Running, Thrown,
         SessionIds, Calls, Nothing
<1>6. (\A u \in Tabs : ~Awaits(u, s, {"reuse"}))'
  BY <1>2 DEF SignOut, Keep, InStep, Awaits, TypeOK, Active, Call, Tab, Tokens, Session, NoSession, NoCall, Settled, NoTokens, Stages, Running, Thrown,
         SessionIds, Calls, Nothing
<1>7. (\A u \in Tabs : (tabs[u].tokens # NoTokens /\ tabs[u].tokens.sid = s) =>
           \/ tabs[u].tokens.token = sessions[s].token
           \/ Awaits(u, s, {"granted"}))'
  BY <1>2 DEF SignOut, Keep, InStep, Awaits, TypeOK, Active, Call, Tab, Tokens, Session, NoSession, NoCall, Settled, NoTokens, Stages, Running, Thrown,
         SessionIds, Calls, Nothing
<1>8. ((stored # NoTokens /\ stored.sid = s) => \E u \in Tabs : tabs[u].tokens = stored)'
  BY <1>2 DEF SignOut, Keep, InStep, TypeOK, Active, Call, Tab, Tokens, Session, NoSession, NoCall, Settled, NoTokens, Stages, Running, Thrown,
         SessionIds, Calls, Nothing
<1> QED
  BY <1>3, <1>4, <1>5, <1>6, <1>7, <1>8 DEF InStep

LEMMA OpenTabInStep ==
    ASSUME FullInv, NEW t \in Tabs, OpenTab(t)
    PROVE  HoldersKnown' /\ FlightInv'
<1> USE SessionsAssumption, Records DEF FullInv, IInv
<1>1. HoldersKnown'
  BY DEF OpenTab, TypeOK, HoldersKnown, NamesOpened, Opened, Active, Call, Tab, Tokens, Session, NoSession, NoCall, Settled, NoTokens, Stages, Running, Thrown,
         SessionIds, Calls, Nothing
<1> SUFFICES ASSUME NEW s \in SessionIds, Clean(s)'
             PROVE  InStep(s)'
  BY <1>1 DEF FlightInv
<1>2. InStep(s)
  <2>1. Clean(s)
    BY DEF OpenTab, Clean, Shared, Orphaned, Lost, Orphan, Opened, TypeOK, NamesOpened, HoldersKnown, Active, Call, Tab, Tokens, Session, NoSession, NoCall, Settled, NoTokens, Stages, Running, Thrown,
         SessionIds, Calls, Nothing
  <2> QED
    BY <2>1 DEF FlightInv
<1>3. (~sessions[s].reused)'
  BY <1>2 DEF OpenTab, InStep, TypeOK, Active, Call, Tab, Tokens, Session, NoSession, NoCall, Settled, NoTokens, Stages, Running, Thrown,
         SessionIds, Calls, Nothing
<1>4. (\A u \in Tabs : Awaits(u, s, {"granted"}) => sessions[s].token = tabs[u].waiting)'
  BY <1>2 DEF OpenTab, InStep, Awaits, TypeOK, Active, Call, Tab, Tokens, Session, NoSession, NoCall, Settled, NoTokens, Stages, Running, Thrown,
         SessionIds, Calls, Nothing
<1>5. (\A u \in Tabs : Awaits(u, s, {"sent", "passed"}) =>
           calls[tabs[u].waiting].token = sessions[s].token)'
  BY <1>2 DEF OpenTab, InStep, Awaits, TypeOK, Active, Call, Tab, Tokens, Session, NoSession, NoCall, Settled, NoTokens, Stages, Running, Thrown,
         SessionIds, Calls, Nothing
<1>6. (\A u \in Tabs : ~Awaits(u, s, {"reuse"}))'
  BY <1>2 DEF OpenTab, InStep, Awaits, TypeOK, Active, Call, Tab, Tokens, Session, NoSession, NoCall, Settled, NoTokens, Stages, Running, Thrown,
         SessionIds, Calls, Nothing
<1>7. (\A u \in Tabs : (tabs[u].tokens # NoTokens /\ tabs[u].tokens.sid = s) =>
           \/ tabs[u].tokens.token = sessions[s].token
           \/ Awaits(u, s, {"granted"}))'
  <2>1. \A u \in Tabs : u # t => tabs'[u] = tabs[u]
    BY DEF OpenTab, TypeOK
  <2>2. tabs'[t].tokens = stored /\ calls' = calls /\ sessions'[s].token = sessions[s].token
    BY DEF OpenTab, TypeOK, Tab, Tokens, Session, NoSession
  <2>3. ASSUME NEW u \in Tabs, u # t, tabs'[u].tokens # NoTokens, tabs'[u].tokens.sid = s
        PROVE  \/ tabs'[u].tokens.token = sessions'[s].token
               \/ Awaits(u, s, {"granted"})'
    BY <1>2, <2>1, <2>2, <2>3 DEF InStep, Awaits
  <2>4. ASSUME stored # NoTokens, stored.sid = s
        PROVE  stored.token = sessions[s].token
    <3>1. PICK u \in Tabs : tabs[u].tokens = stored
      BY <1>2, <2>4 DEF InStep
    <3>2. u \in sessions[s].tabs /\ sessions'[s].tabs = sessions[s].tabs \union {t}
      BY <2>4, <3>1 DEF HoldersKnown, OpenTab, TypeOK, Tokens, NamesOpened, Opened, Session
    <3>3. u = t
      BY <3>2 DEF Clean, Shared
    <3>4. ~Awaits(t, s, {"granted"})
      <4>1. ASSUME Awaits(t, s, {"granted"}) PROVE FALSE
        <5>1. PICK k \in Calls : k = tabs[t].waiting /\ \A v \in Tabs : tabs'[v].waiting # k
          BY <4>1 DEF Awaits, HoldersKnown, OpenTab, TypeOK, Tab, Calls, Nothing
        <5>2. (Orphan(k) /\ calls[k].sid = s)'
          BY <4>1, <5>1, <2>2 DEF Awaits, Orphan
        <5> QED
          BY <5>1, <5>2 DEF Clean, Orphaned, Lost
      <4> QED
        BY <4>1
    <3> QED
      BY <1>2, <2>4, <3>1, <3>3, <3>4 DEF InStep
  <2> QED
    BY <2>2, <2>3, <2>4
<1>8. ((stored # NoTokens /\ stored.sid = s) => \E u \in Tabs : tabs[u].tokens = stored)'
  BY <1>2 DEF OpenTab, InStep, TypeOK, Active, Call, Tab, Tokens, Session, NoSession, NoCall, Settled, NoTokens, Stages, Running, Thrown,
         SessionIds, Calls, Nothing
<1> QED
  BY <1>3, <1>4, <1>5, <1>6, <1>7, <1>8 DEF InStep

LEMMA SendRefreshInStep ==
    ASSUME FullInv, NEW t \in Tabs, SendRefresh(t)
    PROVE  HoldersKnown' /\ FlightInv'
<1> USE SessionsAssumption, Records DEF FullInv, IInv
<1>1. HoldersKnown'
  BY DEF SendRefresh, TypeOK, HoldersKnown, NamesOpened, Opened, Active, Call, Tab, Tokens, Session, NoSession, NoCall, Settled, NoTokens, Stages, Running, Thrown,
         SessionIds, Calls, Nothing
<1> SUFFICES ASSUME NEW s \in SessionIds, Clean(s)'
             PROVE  InStep(s)'
  BY <1>1 DEF FlightInv
<1>2. InStep(s)
  <2>1. PICK k \in Calls :
          /\ calls[k] = NoCall
          /\ \A j \in Calls : j # k => calls'[j] = calls[j]
          /\ \A u \in Tabs : tabs'[u].waiting \in {k, tabs[u].waiting}
          /\ sessions' = sessions
    BY DEF SendRefresh, TypeOK, Tab
  <2>2. ~Lost(k)
    BY <2>1 DEF Lost, Orphan, NoCall
  <2>3. ~Orphaned(s)
    BY <2>1, <2>2 DEF Clean, Orphaned, Lost, Orphan
  <2>4. Clean(s)
    BY <2>1, <2>3 DEF Clean, Shared, Opened
  <2> QED
    BY <2>4 DEF FlightInv
<1>3. (~sessions[s].reused)'
  BY <1>2 DEF SendRefresh, InStep, TypeOK, Active, Call, Tab, Tokens, Session, NoSession, NoCall, Settled, NoTokens, Stages, Running, Thrown,
         SessionIds, Calls, Nothing
<1>4. (\A u \in Tabs : Awaits(u, s, {"granted"}) => sessions[s].token = tabs[u].waiting)'
  BY <1>2 DEF SendRefresh, InStep, Awaits, TypeOK, Active, Call, Tab, Tokens, Session, NoSession, NoCall, Settled, NoTokens, Stages, Running, Thrown,
         SessionIds, Calls, Nothing
<1>5. (\A u \in Tabs : Awaits(u, s, {"sent", "passed"}) =>
           calls[tabs[u].waiting].token = sessions[s].token)'
  BY <1>2 DEF SendRefresh, InStep, Awaits, TypeOK, Active, Call, Tab, Tokens, Session, NoSession, NoCall, Settled, NoTokens, Stages, Running, Thrown,
         SessionIds, Calls, Nothing
<1>6. (\A u \in Tabs : ~Awaits(u, s, {"reuse"}))'
  BY <1>2 DEF SendRefresh, InStep, Awaits, TypeOK, Active, Call, Tab, Tokens, Session, NoSession, NoCall, Settled, NoTokens, Stages, Running, Thrown,
         SessionIds, Calls, Nothing
<1>7. (\A u \in Tabs : (tabs[u].tokens # NoTokens /\ tabs[u].tokens.sid = s) =>
           \/ tabs[u].tokens.token = sessions[s].token
           \/ Awaits(u, s, {"granted"}))'
  BY <1>2 DEF SendRefresh, InStep, Awaits, TypeOK, Active, Call, Tab, Tokens, Session, NoSession, NoCall, Settled, NoTokens, Stages, Running, Thrown,
         SessionIds, Calls, Nothing
<1>8. ((stored # NoTokens /\ stored.sid = s) => \E u \in Tabs : tabs[u].tokens = stored)'
  BY <1>2 DEF SendRefresh, InStep, TypeOK, Active, Call, Tab, Tokens, Session, NoSession, NoCall, Settled, NoTokens, Stages, Running, Thrown,
         SessionIds, Calls, Nothing
<1> QED
  BY <1>3, <1>4, <1>5, <1>6, <1>7, <1>8 DEF InStep

LEMMA LoseAnswerInStep ==
    ASSUME FullInv, NEW t \in Tabs, LoseAnswer(t)
    PROVE  HoldersKnown' /\ FlightInv'
<1> USE SessionsAssumption, Records DEF FullInv, IInv
<1>1. HoldersKnown'
  BY DEF LoseAnswer, TypeOK, HoldersKnown, NamesOpened, Opened, Active, Call, Tab, Tokens, Session, NoSession, NoCall, Settled, NoTokens, Stages, Running, Thrown,
         SessionIds, Calls, Nothing
<1> SUFFICES ASSUME NEW s \in SessionIds, Clean(s)'
             PROVE  InStep(s)'
  BY <1>1 DEF FlightInv
<1>2. InStep(s)
  <2>1. Clean(s)
    BY DEF LoseAnswer, Clean, Shared, Orphaned, Lost, Orphan, Opened, TypeOK, NamesOpened, HoldersKnown, Active, Call, Tab, Tokens, Session, NoSession, NoCall, Settled, NoTokens, Stages, Running, Thrown,
         SessionIds, Calls, Nothing
  <2> QED
    BY <2>1 DEF FlightInv
<1>3. (~sessions[s].reused)'
  BY <1>2 DEF LoseAnswer, InStep, TypeOK, Active, Call, Tab, Tokens, Session, NoSession, NoCall, Settled, NoTokens, Stages, Running, Thrown,
         SessionIds, Calls, Nothing
<1>4. (\A u \in Tabs : Awaits(u, s, {"granted"}) => sessions[s].token = tabs[u].waiting)'
  BY <1>2 DEF LoseAnswer, InStep, Awaits, TypeOK, Active, Call, Tab, Tokens, Session, NoSession, NoCall, Settled, NoTokens, Stages, Running, Thrown,
         SessionIds, Calls, Nothing
<1>5. (\A u \in Tabs : Awaits(u, s, {"sent", "passed"}) =>
           calls[tabs[u].waiting].token = sessions[s].token)'
  BY <1>2 DEF LoseAnswer, InStep, Awaits, TypeOK, Active, Call, Tab, Tokens, Session, NoSession, NoCall, Settled, NoTokens, Stages, Running, Thrown,
         SessionIds, Calls, Nothing
<1>6. (\A u \in Tabs : ~Awaits(u, s, {"reuse"}))'
  BY <1>2 DEF LoseAnswer, InStep, Awaits, TypeOK, Active, Call, Tab, Tokens, Session, NoSession, NoCall, Settled, NoTokens, Stages, Running, Thrown,
         SessionIds, Calls, Nothing
<1>7. (\A u \in Tabs : (tabs[u].tokens # NoTokens /\ tabs[u].tokens.sid = s) =>
           \/ tabs[u].tokens.token = sessions[s].token
           \/ Awaits(u, s, {"granted"}))'
  <2>1. /\ \A u \in Tabs : u # t => tabs'[u] = tabs[u]
        /\ \A u \in Tabs : tabs'[u].tokens = tabs[u].tokens
        /\ tabs'[t].waiting = Nothing /\ calls' = calls /\ sessions' = sessions
    BY DEF LoseAnswer, TypeOK, Tab
  <2>2. ASSUME Awaits(t, s, {"granted"}) PROVE FALSE
    <3>1. PICK k \in Calls : k = tabs[t].waiting /\ \A v \in Tabs : tabs'[v].waiting # k
      BY <2>1, <2>2 DEF Awaits, HoldersKnown, TypeOK, Tab
    <3>2. (Orphan(k) /\ calls[k].sid = s)'
      BY <2>1, <2>2, <3>1 DEF Awaits, Orphan
    <3> QED
      BY <3>1, <3>2 DEF Clean, Orphaned, Lost
  <2> QED
    BY <1>2, <2>1, <2>2 DEF InStep, Awaits
<1>8. ((stored # NoTokens /\ stored.sid = s) => \E u \in Tabs : tabs[u].tokens = stored)'
  BY <1>2 DEF LoseAnswer, InStep, TypeOK, Active, Call, Tab, Tokens, Session, NoSession, NoCall, Settled, NoTokens, Stages, Running, Thrown,
         SessionIds, Calls, Nothing
<1> QED
  BY <1>3, <1>4, <1>5, <1>6, <1>7, <1>8 DEF InStep

LEMMA GrantedInStep ==
    ASSUME FullInv, NEW t \in Tabs, NEW k \in Calls, Granted(t, k)
    PROVE  HoldersKnown' /\ FlightInv'
<1> USE SessionsAssumption, Records DEF FullInv, IInv
<1>1. HoldersKnown'
  BY DEF Granted, TypeOK, HoldersKnown, NamesOpened, Opened, Active, Call, Tab, Tokens, Session, NoSession, NoCall, Settled, NoTokens, Stages, Running, Thrown,
         SessionIds, Calls, Nothing
<1> SUFFICES ASSUME NEW s \in SessionIds, Clean(s)'
             PROVE  InStep(s)'
  BY <1>1 DEF FlightInv
<1>2. InStep(s)
  <2>1. /\ ~Lost(k)
        /\ \A j \in Calls : j # k => calls'[j] = calls[j]
        /\ \A u \in Tabs : tabs'[u].waiting \in {Nothing, tabs[u].waiting}
        /\ \A j \in Calls : j # Nothing
    BY DEF Granted, Lost, Orphan, TypeOK, Tab, Calls, Nothing
  <2>2. ~Orphaned(s)
    BY <2>1 DEF Clean, Orphaned, Lost, Orphan
  <2>3. calls[k].sid \in SessionIds /\ Opened(calls[k].sid)
    BY DEF Granted, NamesOpened, Stages, TypeOK, Call
  <2>4. sessions[s].tabs \subseteq sessions'[s].tabs /\ Opened(s)
    BY <2>3 DEF Granted, Clean, Opened, TypeOK, Session, NoSession
  <2>5. Clean(s)
    BY <2>2, <2>4 DEF Clean, Shared
  <2> QED
    BY <2>5 DEF FlightInv
<1>3. (~sessions[s].reused)'
  BY <1>2 DEF Granted, InStep, TypeOK, Active, Call, Tab, Tokens, Session, NoSession, NoCall, Settled, NoTokens, Stages, Running, Thrown,
         SessionIds, Calls, Nothing
<1>4. (\A u \in Tabs : Awaits(u, s, {"granted"}) => sessions[s].token = tabs[u].waiting)'
  BY <1>2 DEF Granted, InStep, Awaits, TypeOK, Active, Call, Tab, Tokens, Session, NoSession, NoCall, Settled, NoTokens, Stages, Running, Thrown,
         SessionIds, Calls, Nothing
<1>5. (\A u \in Tabs : Awaits(u, s, {"sent", "passed"}) =>
           calls[tabs[u].waiting].token = sessions[s].token)'
  BY <1>2 DEF Granted, InStep, Awaits, TypeOK, Active, Call, Tab, Tokens, Session, NoSession, NoCall, Settled, NoTokens, Stages, Running, Thrown,
         SessionIds, Calls, Nothing
<1>6. (\A u \in Tabs : ~Awaits(u, s, {"reuse"}))'
  BY <1>2 DEF Granted, InStep, Awaits, TypeOK, Active, Call, Tab, Tokens, Session, NoSession, NoCall, Settled, NoTokens, Stages, Running, Thrown,
         SessionIds, Calls, Nothing
<1>7. (\A u \in Tabs : (tabs[u].tokens # NoTokens /\ tabs[u].tokens.sid = s) =>
           \/ tabs[u].tokens.token = sessions[s].token
           \/ Awaits(u, s, {"granted"}))'
  <2>1. /\ \A u \in Tabs : u # t => tabs'[u] = tabs[u] /\ tabs[u].waiting # k
        /\ tabs[t].waiting = k /\ k # Nothing /\ calls[k].stage = "granted"
        /\ \A j \in Calls : j # k => calls'[j] = calls[j]
    BY DEF Granted, TypeOK, HoldersKnown, Calls, Nothing
  <2>2. sessions'[s].token = sessions[s].token
    BY DEF Granted, TypeOK, Session, NoSession
  <2>3. ASSUME NEW u \in Tabs, u # t, tabs'[u].tokens # NoTokens, tabs'[u].tokens.sid = s
        PROVE  \/ tabs'[u].tokens.token = sessions'[s].token
               \/ Awaits(u, s, {"granted"})'
    <3>1. tabs[u].waiting # Nothing => tabs[u].waiting \in Calls
      BY DEF TypeOK, Tab
    <3> QED
      BY <1>2, <2>1, <2>2, <2>3, <3>1 DEF InStep, Awaits
  <2>4. ASSUME tabs'[t].tokens # NoTokens, tabs'[t].tokens.sid = s
        PROVE  tabs'[t].tokens.token = sessions'[s].token
    <3>1. tabs'[t].tokens = [sid |-> calls[k].sid, token |-> k]
      BY <2>4 DEF Granted, TypeOK
    <3>2. Awaits(t, s, {"granted"})
      BY <2>1, <2>4, <3>1 DEF Awaits
    <3> QED
      BY <1>2, <2>1, <2>2, <3>1, <3>2 DEF InStep
  <2> QED
    BY <2>3, <2>4
<1>8. ((stored # NoTokens /\ stored.sid = s) => \E u \in Tabs : tabs[u].tokens = stored)'
  <2>1. \A u \in Tabs : u # t => tabs'[u] = tabs[u]
    BY DEF Granted, TypeOK
  <2>2. CASE tabs[t].tokens = NoTokens
    BY <1>2, <2>1, <2>2 DEF Granted, InStep
  <2>3. CASE tabs[t].tokens # NoTokens
    <3>1. tabs'[t].tokens = stored'
      BY <2>3 DEF Granted, TypeOK
    <3> QED
      BY <3>1
  <2> QED
    BY <2>2, <2>3
<1> QED
  BY <1>3, <1>4, <1>5, <1>6, <1>7, <1>8 DEF InStep

LEMMA RefusedInStep ==
    ASSUME FullInv, NEW t \in Tabs, NEW k \in Calls, Refused(t, k)
    PROVE  HoldersKnown' /\ FlightInv'
<1> USE SessionsAssumption, Records DEF FullInv, IInv
<1>1. HoldersKnown'
  BY DEF Refused, Refusal, AfterRefusal, TypeOK, HoldersKnown, NamesOpened, Opened, Active, Call, Tab, Tokens, Session, NoSession, NoCall, Settled, NoTokens, Stages, Running, Thrown,
         SessionIds, Calls, Nothing
<1> SUFFICES ASSUME NEW s \in SessionIds, Clean(s)'
             PROVE  InStep(s)'
  BY <1>1 DEF FlightInv
<1>2. InStep(s)
  <2>1. Clean(s)
    BY DEF Refused, Refusal, AfterRefusal, Clean, Shared, Orphaned, Lost, Orphan, Opened, TypeOK, NamesOpened, HoldersKnown, Active, Call, Tab, Tokens, Session, NoSession, NoCall, Settled, NoTokens, Stages, Running, Thrown,
         SessionIds, Calls, Nothing
  <2> QED
    BY <2>1 DEF FlightInv
<1>3. (~sessions[s].reused)'
  BY <1>2 DEF Refused, Refusal, AfterRefusal, InStep, TypeOK, Active, Call, Tab, Tokens, Session, NoSession, NoCall, Settled, NoTokens, Stages, Running, Thrown,
         SessionIds, Calls, Nothing
<1>4. (\A u \in Tabs : Awaits(u, s, {"granted"}) => sessions[s].token = tabs[u].waiting)'
  BY <1>2 DEF Refused, Refusal, AfterRefusal, InStep, Awaits, TypeOK, Active, Call, Tab, Tokens, Session, NoSession, NoCall, Settled, NoTokens, Stages, Running, Thrown,
         SessionIds, Calls, Nothing
<1>5. (\A u \in Tabs : Awaits(u, s, {"sent", "passed"}) =>
           calls[tabs[u].waiting].token = sessions[s].token)'
  BY <1>2 DEF Refused, Refusal, AfterRefusal, InStep, Awaits, TypeOK, Active, Call, Tab, Tokens, Session, NoSession, NoCall, Settled, NoTokens, Stages, Running, Thrown,
         SessionIds, Calls, Nothing
<1>6. (\A u \in Tabs : ~Awaits(u, s, {"reuse"}))'
  BY <1>2 DEF Refused, Refusal, AfterRefusal, InStep, Awaits, TypeOK, Active, Call, Tab, Tokens, Session, NoSession, NoCall, Settled, NoTokens, Stages, Running, Thrown,
         SessionIds, Calls, Nothing
<1>7. (\A u \in Tabs : (tabs[u].tokens # NoTokens /\ tabs[u].tokens.sid = s) =>
           \/ tabs[u].tokens.token = sessions[s].token
           \/ Awaits(u, s, {"granted"}))'
  BY <1>2 DEF Refused, Refusal, AfterRefusal, InStep, Awaits, TypeOK, Active, Call, Tab, Tokens, Session, NoSession, NoCall, Settled, NoTokens, Stages, Running, Thrown,
         SessionIds, Calls, Nothing
<1>8. ((stored # NoTokens /\ stored.sid = s) => \E u \in Tabs : tabs[u].tokens = stored)'
  <2>1. PICK tokens \in {tabs[t].tokens, NoTokens} :
          /\ tabs' = [tabs EXCEPT ![t] = [tokens |-> tokens, waiting |-> Nothing]]
          /\ stored' = IF tokens = NoTokens THEN NoTokens ELSE stored
    BY DEF Refused
  <2>2. CASE tokens = NoTokens
    BY <2>1, <2>2
  <2>3. CASE tokens # NoTokens
    <3>1. \A u \in Tabs : tabs'[u].tokens = tabs[u].tokens
      BY <2>1, <2>3 DEF TypeOK
    <3> QED
      BY <1>2, <2>1, <2>3, <3>1 DEF InStep
  <2> QED
    BY <2>2, <2>3
<1> QED
  BY <1>3, <1>4, <1>5, <1>6, <1>7, <1>8 DEF InStep

LEMMA EndInStep ==
    ASSUME FullInv, NEW z \in SessionIds, End(z)
    PROVE  HoldersKnown' /\ FlightInv'
<1> USE SessionsAssumption, Records DEF FullInv, IInv
<1>1. HoldersKnown'
  BY DEF End, TypeOK, HoldersKnown, NamesOpened, Opened, Active, Call, Tab, Tokens, Session, NoSession, NoCall, Settled, NoTokens, Stages, Running, Thrown,
         SessionIds, Calls, Nothing
<1> SUFFICES ASSUME NEW s \in SessionIds, Clean(s)'
             PROVE  InStep(s)'
  BY <1>1 DEF FlightInv
<1>2. InStep(s)
  <2>1. Clean(s)
    BY DEF End, Clean, Shared, Orphaned, Lost, Orphan, Opened, TypeOK, NamesOpened, HoldersKnown, Active, Call, Tab, Tokens, Session, NoSession, NoCall, Settled, NoTokens, Stages, Running, Thrown,
         SessionIds, Calls, Nothing
  <2> QED
    BY <2>1 DEF FlightInv
<1>3. (~sessions[s].reused)'
  BY <1>2 DEF End, InStep, TypeOK, Active, Call, Tab, Tokens, Session, NoSession, NoCall, Settled, NoTokens, Stages, Running, Thrown,
         SessionIds, Calls, Nothing
<1>4. (\A u \in Tabs : Awaits(u, s, {"granted"}) => sessions[s].token = tabs[u].waiting)'
  BY <1>2 DEF End, InStep, Awaits, TypeOK, Active, Call, Tab, Tokens, Session, NoSession, NoCall, Settled, NoTokens, Stages, Running, Thrown,
         SessionIds, Calls, Nothing
<1>5. (\A u \in Tabs : Awaits(u, s, {"sent", "passed"}) =>
           calls[tabs[u].waiting].token = sessions[s].token)'
  BY <1>2 DEF End, InStep, Awaits, TypeOK, Active, Call, Tab, Tokens, Session, NoSession, NoCall, Settled, NoTokens, Stages, Running, Thrown,
         SessionIds, Calls, Nothing
<1>6. (\A u \in Tabs : ~Awaits(u, s, {"reuse"}))'
  BY <1>2 DEF End, InStep, Awaits, TypeOK, Active, Call, Tab, Tokens, Session, NoSession, NoCall, Settled, NoTokens, Stages, Running, Thrown,
         SessionIds, Calls, Nothing
<1>7. (\A u \in Tabs : (tabs[u].tokens # NoTokens /\ tabs[u].tokens.sid = s) =>
           \/ tabs[u].tokens.token = sessions[s].token
           \/ Awaits(u, s, {"granted"}))'
  BY <1>2 DEF End, InStep, Awaits, TypeOK, Active, Call, Tab, Tokens, Session, NoSession, NoCall, Settled, NoTokens, Stages, Running, Thrown,
         SessionIds, Calls, Nothing
<1>8. ((stored # NoTokens /\ stored.sid = s) => \E u \in Tabs : tabs[u].tokens = stored)'
  BY <1>2 DEF End, InStep, TypeOK, Active, Call, Tab, Tokens, Session, NoSession, NoCall, Settled, NoTokens, Stages, Running, Thrown,
         SessionIds, Calls, Nothing
<1> QED
  BY <1>3, <1>4, <1>5, <1>6, <1>7, <1>8 DEF InStep

LEMMA RevokeActorInStep ==
    ASSUME FullInv, RevokeActor
    PROVE  HoldersKnown' /\ FlightInv'
<1> USE SessionsAssumption, Records DEF FullInv, IInv
<1>1. HoldersKnown'
  BY DEF RevokeActor, RevokeAll, TypeOK, HoldersKnown, NamesOpened, Opened, Active, Call, Tab, Tokens, Session, NoSession, NoCall, Settled, NoTokens, Stages, Running, Thrown,
         SessionIds, Calls, Nothing
<1> SUFFICES ASSUME NEW s \in SessionIds, Clean(s)'
             PROVE  InStep(s)'
  BY <1>1 DEF FlightInv
<1>2. InStep(s)
  <2>1. Clean(s)
    BY DEF RevokeActor, RevokeAll, Clean, Shared, Orphaned, Lost, Orphan, Opened, TypeOK, NamesOpened, HoldersKnown, Active, Call, Tab, Tokens, Session, NoSession, NoCall, Settled, NoTokens, Stages, Running, Thrown,
         SessionIds, Calls, Nothing
  <2> QED
    BY <2>1 DEF FlightInv
<1>3. (~sessions[s].reused)'
  BY <1>2 DEF RevokeActor, RevokeAll, InStep, TypeOK, Active, Call, Tab, Tokens, Session, NoSession, NoCall, Settled, NoTokens, Stages, Running, Thrown,
         SessionIds, Calls, Nothing
<1>4. (\A u \in Tabs : Awaits(u, s, {"granted"}) => sessions[s].token = tabs[u].waiting)'
  BY <1>2 DEF RevokeActor, RevokeAll, InStep, Awaits, TypeOK, Active, Call, Tab, Tokens, Session, NoSession, NoCall, Settled, NoTokens, Stages, Running, Thrown,
         SessionIds, Calls, Nothing
<1>5. (\A u \in Tabs : Awaits(u, s, {"sent", "passed"}) =>
           calls[tabs[u].waiting].token = sessions[s].token)'
  BY <1>2 DEF RevokeActor, RevokeAll, InStep, Awaits, TypeOK, Active, Call, Tab, Tokens, Session, NoSession, NoCall, Settled, NoTokens, Stages, Running, Thrown,
         SessionIds, Calls, Nothing
<1>6. (\A u \in Tabs : ~Awaits(u, s, {"reuse"}))'
  BY <1>2 DEF RevokeActor, RevokeAll, InStep, Awaits, TypeOK, Active, Call, Tab, Tokens, Session, NoSession, NoCall, Settled, NoTokens, Stages, Running, Thrown,
         SessionIds, Calls, Nothing
<1>7. (\A u \in Tabs : (tabs[u].tokens # NoTokens /\ tabs[u].tokens.sid = s) =>
           \/ tabs[u].tokens.token = sessions[s].token
           \/ Awaits(u, s, {"granted"}))'
  BY <1>2 DEF RevokeActor, RevokeAll, InStep, Awaits, TypeOK, Active, Call, Tab, Tokens, Session, NoSession, NoCall, Settled, NoTokens, Stages, Running, Thrown,
         SessionIds, Calls, Nothing
<1>8. ((stored # NoTokens /\ stored.sid = s) => \E u \in Tabs : tabs[u].tokens = stored)'
  BY <1>2 DEF RevokeActor, RevokeAll, InStep, TypeOK, Active, Call, Tab, Tokens, Session, NoSession, NoCall, Settled, NoTokens, Stages, Running, Thrown,
         SessionIds, Calls, Nothing
<1> QED
  BY <1>3, <1>4, <1>5, <1>6, <1>7, <1>8 DEF InStep

LEMMA WritePasswordInStep ==
    ASSUME FullInv, WritePassword
    PROVE  HoldersKnown' /\ FlightInv'
<1> USE SessionsAssumption, Records DEF FullInv, IInv
<1>1. HoldersKnown'
  BY DEF WritePassword, TypeOK, HoldersKnown, NamesOpened, Opened, Active, Call, Tab, Tokens, Session, NoSession, NoCall, Settled, NoTokens, Stages, Running, Thrown,
         SessionIds, Calls, Nothing
<1> SUFFICES ASSUME NEW s \in SessionIds, Clean(s)'
             PROVE  InStep(s)'
  BY <1>1 DEF FlightInv
<1>2. InStep(s)
  <2>1. Clean(s)
    BY DEF WritePassword, Clean, Shared, Orphaned, Lost, Orphan, Opened, TypeOK, NamesOpened, HoldersKnown, Active, Call, Tab, Tokens, Session, NoSession, NoCall, Settled, NoTokens, Stages, Running, Thrown,
         SessionIds, Calls, Nothing
  <2> QED
    BY <2>1 DEF FlightInv
<1>3. (~sessions[s].reused)'
  BY <1>2 DEF WritePassword, InStep, TypeOK, Active, Call, Tab, Tokens, Session, NoSession, NoCall, Settled, NoTokens, Stages, Running, Thrown,
         SessionIds, Calls, Nothing
<1>4. (\A u \in Tabs : Awaits(u, s, {"granted"}) => sessions[s].token = tabs[u].waiting)'
  BY <1>2 DEF WritePassword, InStep, Awaits, TypeOK, Active, Call, Tab, Tokens, Session, NoSession, NoCall, Settled, NoTokens, Stages, Running, Thrown,
         SessionIds, Calls, Nothing
<1>5. (\A u \in Tabs : Awaits(u, s, {"sent", "passed"}) =>
           calls[tabs[u].waiting].token = sessions[s].token)'
  BY <1>2 DEF WritePassword, InStep, Awaits, TypeOK, Active, Call, Tab, Tokens, Session, NoSession, NoCall, Settled, NoTokens, Stages, Running, Thrown,
         SessionIds, Calls, Nothing
<1>6. (\A u \in Tabs : ~Awaits(u, s, {"reuse"}))'
  BY <1>2 DEF WritePassword, InStep, Awaits, TypeOK, Active, Call, Tab, Tokens, Session, NoSession, NoCall, Settled, NoTokens, Stages, Running, Thrown,
         SessionIds, Calls, Nothing
<1>7. (\A u \in Tabs : (tabs[u].tokens # NoTokens /\ tabs[u].tokens.sid = s) =>
           \/ tabs[u].tokens.token = sessions[s].token
           \/ Awaits(u, s, {"granted"}))'
  BY <1>2 DEF WritePassword, InStep, Awaits, TypeOK, Active, Call, Tab, Tokens, Session, NoSession, NoCall, Settled, NoTokens, Stages, Running, Thrown,
         SessionIds, Calls, Nothing
<1>8. ((stored # NoTokens /\ stored.sid = s) => \E u \in Tabs : tabs[u].tokens = stored)'
  BY <1>2 DEF WritePassword, InStep, TypeOK, Active, Call, Tab, Tokens, Session, NoSession, NoCall, Settled, NoTokens, Stages, Running, Thrown,
         SessionIds, Calls, Nothing
<1> QED
  BY <1>3, <1>4, <1>5, <1>6, <1>7, <1>8 DEF InStep

LEMMA FinishResetInStep ==
    ASSUME FullInv, NEW n \in 1..MaxResets, FinishReset(n)
    PROVE  HoldersKnown' /\ FlightInv'
<1> USE SessionsAssumption, Records DEF FullInv, IInv
<1>1. HoldersKnown'
  BY DEF FinishReset, RevokeAll, TypeOK, HoldersKnown, NamesOpened, Opened, Active, Call, Tab, Tokens, Session, NoSession, NoCall, Settled, NoTokens, Stages, Running, Thrown,
         SessionIds, Calls, Nothing
<1> SUFFICES ASSUME NEW s \in SessionIds, Clean(s)'
             PROVE  InStep(s)'
  BY <1>1 DEF FlightInv
<1>2. InStep(s)
  <2>1. Clean(s)
    BY DEF FinishReset, RevokeAll, Clean, Shared, Orphaned, Lost, Orphan, Opened, TypeOK, NamesOpened, HoldersKnown, Active, Call, Tab, Tokens, Session, NoSession, NoCall, Settled, NoTokens, Stages, Running, Thrown,
         SessionIds, Calls, Nothing
  <2> QED
    BY <2>1 DEF FlightInv
<1>3. (~sessions[s].reused)'
  BY <1>2 DEF FinishReset, RevokeAll, InStep, TypeOK, Active, Call, Tab, Tokens, Session, NoSession, NoCall, Settled, NoTokens, Stages, Running, Thrown,
         SessionIds, Calls, Nothing
<1>4. (\A u \in Tabs : Awaits(u, s, {"granted"}) => sessions[s].token = tabs[u].waiting)'
  BY <1>2 DEF FinishReset, RevokeAll, InStep, Awaits, TypeOK, Active, Call, Tab, Tokens, Session, NoSession, NoCall, Settled, NoTokens, Stages, Running, Thrown,
         SessionIds, Calls, Nothing
<1>5. (\A u \in Tabs : Awaits(u, s, {"sent", "passed"}) =>
           calls[tabs[u].waiting].token = sessions[s].token)'
  BY <1>2 DEF FinishReset, RevokeAll, InStep, Awaits, TypeOK, Active, Call, Tab, Tokens, Session, NoSession, NoCall, Settled, NoTokens, Stages, Running, Thrown,
         SessionIds, Calls, Nothing
<1>6. (\A u \in Tabs : ~Awaits(u, s, {"reuse"}))'
  BY <1>2 DEF FinishReset, RevokeAll, InStep, Awaits, TypeOK, Active, Call, Tab, Tokens, Session, NoSession, NoCall, Settled, NoTokens, Stages, Running, Thrown,
         SessionIds, Calls, Nothing
<1>7. (\A u \in Tabs : (tabs[u].tokens # NoTokens /\ tabs[u].tokens.sid = s) =>
           \/ tabs[u].tokens.token = sessions[s].token
           \/ Awaits(u, s, {"granted"}))'
  BY <1>2 DEF FinishReset, RevokeAll, InStep, Awaits, TypeOK, Active, Call, Tab, Tokens, Session, NoSession, NoCall, Settled, NoTokens, Stages, Running, Thrown,
         SessionIds, Calls, Nothing
<1>8. ((stored # NoTokens /\ stored.sid = s) => \E u \in Tabs : tabs[u].tokens = stored)'
  BY <1>2 DEF FinishReset, RevokeAll, InStep, TypeOK, Active, Call, Tab, Tokens, Session, NoSession, NoCall, Settled, NoTokens, Stages, Running, Thrown,
         SessionIds, Calls, Nothing
<1> QED
  BY <1>3, <1>4, <1>5, <1>6, <1>7, <1>8 DEF InStep

LEMMA FailResetInStep ==
    ASSUME FullInv, NEW n \in 1..MaxResets, FailReset(n)
    PROVE  HoldersKnown' /\ FlightInv'
<1> USE SessionsAssumption, Records DEF FullInv, IInv
<1>1. HoldersKnown'
  BY DEF FailReset, TypeOK, HoldersKnown, NamesOpened, Opened, Active, Call, Tab, Tokens, Session, NoSession, NoCall, Settled, NoTokens, Stages, Running, Thrown,
         SessionIds, Calls, Nothing
<1> SUFFICES ASSUME NEW s \in SessionIds, Clean(s)'
             PROVE  InStep(s)'
  BY <1>1 DEF FlightInv
<1>2. InStep(s)
  <2>1. Clean(s)
    BY DEF FailReset, Clean, Shared, Orphaned, Lost, Orphan, Opened, TypeOK, NamesOpened, HoldersKnown, Active, Call, Tab, Tokens, Session, NoSession, NoCall, Settled, NoTokens, Stages, Running, Thrown,
         SessionIds, Calls, Nothing
  <2> QED
    BY <2>1 DEF FlightInv
<1>3. (~sessions[s].reused)'
  BY <1>2 DEF FailReset, InStep, TypeOK, Active, Call, Tab, Tokens, Session, NoSession, NoCall, Settled, NoTokens, Stages, Running, Thrown,
         SessionIds, Calls, Nothing
<1>4. (\A u \in Tabs : Awaits(u, s, {"granted"}) => sessions[s].token = tabs[u].waiting)'
  BY <1>2 DEF FailReset, InStep, Awaits, TypeOK, Active, Call, Tab, Tokens, Session, NoSession, NoCall, Settled, NoTokens, Stages, Running, Thrown,
         SessionIds, Calls, Nothing
<1>5. (\A u \in Tabs : Awaits(u, s, {"sent", "passed"}) =>
           calls[tabs[u].waiting].token = sessions[s].token)'
  BY <1>2 DEF FailReset, InStep, Awaits, TypeOK, Active, Call, Tab, Tokens, Session, NoSession, NoCall, Settled, NoTokens, Stages, Running, Thrown,
         SessionIds, Calls, Nothing
<1>6. (\A u \in Tabs : ~Awaits(u, s, {"reuse"}))'
  BY <1>2 DEF FailReset, InStep, Awaits, TypeOK, Active, Call, Tab, Tokens, Session, NoSession, NoCall, Settled, NoTokens, Stages, Running, Thrown,
         SessionIds, Calls, Nothing
<1>7. (\A u \in Tabs : (tabs[u].tokens # NoTokens /\ tabs[u].tokens.sid = s) =>
           \/ tabs[u].tokens.token = sessions[s].token
           \/ Awaits(u, s, {"granted"}))'
  BY <1>2 DEF FailReset, InStep, Awaits, TypeOK, Active, Call, Tab, Tokens, Session, NoSession, NoCall, Settled, NoTokens, Stages, Running, Thrown,
         SessionIds, Calls, Nothing
<1>8. ((stored # NoTokens /\ stored.sid = s) => \E u \in Tabs : tabs[u].tokens = stored)'
  BY <1>2 DEF FailReset, InStep, TypeOK, Active, Call, Tab, Tokens, Session, NoSession, NoCall, Settled, NoTokens, Stages, Running, Thrown,
         SessionIds, Calls, Nothing
<1> QED
  BY <1>3, <1>4, <1>5, <1>6, <1>7, <1>8 DEF InStep

LEMMA RotateReadInStep ==
    ASSUME FullInv, NEW k \in Calls, RotateRead(k)
    PROVE  HoldersKnown' /\ FlightInv'
<1> USE SessionsAssumption, Records DEF FullInv, IInv
<1>1. HoldersKnown'
  BY DEF RotateRead, Verdict, TypeOK, HoldersKnown, NamesOpened, Opened, Active, Call, Tab, Tokens, Session, NoSession, NoCall, Settled, NoTokens, Stages, Running, Thrown,
         SessionIds, Calls, Nothing
<1> SUFFICES ASSUME NEW s \in SessionIds, Clean(s)'
             PROVE  InStep(s)'
  BY <1>1 DEF FlightInv
<1>2. InStep(s)
  <2>1. Clean(s)
    BY DEF RotateRead, Verdict, Clean, Shared, Orphaned, Lost, Orphan, Opened, TypeOK, NamesOpened, HoldersKnown, Active, Call, Tab, Tokens, Session, NoSession, NoCall, Settled, NoTokens, Stages, Running, Thrown,
         SessionIds, Calls, Nothing
  <2> QED
    BY <2>1 DEF FlightInv
<1>3. (~sessions[s].reused)'
  BY <1>2 DEF RotateRead, Verdict, InStep, TypeOK, Active, Call, Tab, Tokens, Session, NoSession, NoCall, Settled, NoTokens, Stages, Running, Thrown,
         SessionIds, Calls, Nothing
<1>4. (\A u \in Tabs : Awaits(u, s, {"granted"}) => sessions[s].token = tabs[u].waiting)'
  BY <1>2 DEF RotateRead, Verdict, InStep, Awaits, TypeOK, Active, Call, Tab, Tokens, Session, NoSession, NoCall, Settled, NoTokens, Stages, Running, Thrown,
         SessionIds, Calls, Nothing
<1>5. (\A u \in Tabs : Awaits(u, s, {"sent", "passed"}) =>
           calls[tabs[u].waiting].token = sessions[s].token)'
  BY <1>2 DEF RotateRead, Verdict, InStep, Awaits, TypeOK, Active, Call, Tab, Tokens, Session, NoSession, NoCall, Settled, NoTokens, Stages, Running, Thrown,
         SessionIds, Calls, Nothing
<1>6. (\A u \in Tabs : ~Awaits(u, s, {"reuse"}))'
  BY <1>2 DEF RotateRead, Verdict, InStep, Awaits, TypeOK, Active, Call, Tab, Tokens, Session, NoSession, NoCall, Settled, NoTokens, Stages, Running, Thrown,
         SessionIds, Calls, Nothing
<1>7. (\A u \in Tabs : (tabs[u].tokens # NoTokens /\ tabs[u].tokens.sid = s) =>
           \/ tabs[u].tokens.token = sessions[s].token
           \/ Awaits(u, s, {"granted"}))'
  BY <1>2 DEF RotateRead, Verdict, InStep, Awaits, TypeOK, Active, Call, Tab, Tokens, Session, NoSession, NoCall, Settled, NoTokens, Stages, Running, Thrown,
         SessionIds, Calls, Nothing
<1>8. ((stored # NoTokens /\ stored.sid = s) => \E u \in Tabs : tabs[u].tokens = stored)'
  BY <1>2 DEF RotateRead, Verdict, InStep, TypeOK, Active, Call, Tab, Tokens, Session, NoSession, NoCall, Settled, NoTokens, Stages, Running, Thrown,
         SessionIds, Calls, Nothing
<1> QED
  BY <1>3, <1>4, <1>5, <1>6, <1>7, <1>8 DEF InStep

LEMMA RotateWriteInStep ==
    ASSUME FullInv, NEW k \in Calls, RotateWrite(k)
    PROVE  HoldersKnown' /\ FlightInv'
<1> USE SessionsAssumption, Records DEF FullInv, IInv
<1>1. HoldersKnown'
  BY DEF RotateWrite, Rotate, TypeOK, HoldersKnown, NamesOpened, Opened, Active, Call, Tab, Tokens, Session, NoSession, NoCall, Settled, NoTokens, Stages, Running, Thrown,
         SessionIds, Calls, Nothing
<1> SUFFICES ASSUME NEW s \in SessionIds, Clean(s)'
             PROVE  InStep(s)'
  BY <1>1 DEF FlightInv
<1>a. /\ tabs' = tabs /\ stored' = stored
      /\ calls[k] \in Call /\ calls[k].stage = "passed" /\ calls'[k].stage = "granted"
      /\ calls'[k].sid = calls[k].sid
      /\ \A j \in Calls : j # k => calls'[j] = calls[j]
      /\ calls[k].sid = s => sessions'[s].token = k
      /\ calls[k].sid # s => sessions'[s] = sessions[s]
      /\ \A u \in Tabs : tabs[u].waiting # Nothing => tabs[u].waiting \in Calls
  BY DEF RotateWrite, Rotate, TypeOK, Tab, Call, Stages, Running, Thrown, Session, NoSession, Settled, NoCall
<1>2. InStep(s)
  <2>1. ~Orphaned(s)
    BY <1>a DEF Clean, Orphaned, Lost, Orphan
  <2>2. Opened(calls[k].sid)
    BY <1>a DEF NamesOpened, Stages, Running
  <2>3. Opened(s) /\ sessions'[s].tabs = sessions[s].tabs
    BY <1>a, <2>2 DEF RotateWrite, Rotate, Clean, Opened, TypeOK, Session, NoSession
  <2>4. Clean(s)
    BY <2>1, <2>3 DEF Clean, Shared
  <2> QED
    BY <2>4 DEF FlightInv
<1>3. (~sessions[s].reused)'
  BY <1>2 DEF RotateWrite, Rotate, InStep, TypeOK, Active, Call, Tab, Tokens, Session, NoSession, NoCall, Settled, NoTokens, Stages, Running, Thrown,
         SessionIds, Calls, Nothing
<1>b. CASE calls[k].sid # s
  BY <1>2, <1>a, <1>b DEF InStep, Awaits
<1>c. CASE calls[k].sid = s
  <2>1. PICK w \in Tabs : tabs[w].waiting = k
    BY <1>a, <1>c DEF Clean, Orphaned, Lost, Orphan
  <2>2. k # Nothing
    BY DEF Calls, Nothing
  <2>3. w \in sessions[s].tabs
    BY <1>c, <2>1, <2>2 DEF HoldersKnown
  <2>4. ~Shared(s)
    <3>1. sessions'[s].tabs = sessions[s].tabs
      BY DEF RotateWrite, Rotate, TypeOK, Session, NoSession
    <3> QED
      BY <3>1 DEF Clean, Shared
  <2>5. \A u \in Tabs : tabs[u].waiting # Nothing /\ calls[tabs[u].waiting].sid = s => u = w
    BY <2>3, <2>4 DEF HoldersKnown, Shared
  <2>6. \A u \in Tabs : tabs[u].tokens # NoTokens /\ tabs[u].tokens.sid = s => u = w
    BY <2>3, <2>4 DEF HoldersKnown, Shared
  <2>7. \A u \in Tabs : tabs'[u].waiting # Nothing /\ calls'[tabs'[u].waiting].sid = s => u = w
    BY <1>a, <2>5
  <2>8. Awaits(w, s, {"granted"})'
    BY <1>a, <1>c, <2>1, <2>2 DEF Awaits
  <2>9. (~sessions[s].reused)'
    BY <1>3
  <2>10. (\A u \in Tabs : Awaits(u, s, {"granted"}) => sessions[s].token = tabs[u].waiting)'
    BY <1>a, <1>c, <2>1, <2>7 DEF Awaits
  <2>11. (\A u \in Tabs : ~Awaits(u, s, {"sent", "passed"}) /\ ~Awaits(u, s, {"reuse"}))'
    BY <1>a, <1>c, <2>1, <2>7 DEF Awaits
  <2>12. (\A u \in Tabs : (tabs[u].tokens # NoTokens /\ tabs[u].tokens.sid = s) => Awaits(u, s, {"granted"}))'
    BY <1>a, <2>6, <2>8
  <2>13. ((stored # NoTokens /\ stored.sid = s) => \E u \in Tabs : tabs[u].tokens = stored)'
    BY <1>2, <1>a DEF InStep
  <2> QED
    BY <2>9, <2>10, <2>11, <2>12, <2>13 DEF InStep
<1> QED
  BY <1>b, <1>c

LEMMA RotateReuseInStep ==
    ASSUME FullInv, NEW k \in Calls, RotateReuse(k)
    PROVE  HoldersKnown' /\ FlightInv'
<1> USE SessionsAssumption, Records DEF FullInv, IInv
<1>a. /\ tabs' = tabs /\ stored' = stored
      /\ calls[k] \in Call /\ calls[k].stage = "reuse" /\ calls'[k].stage = "refused"
      /\ calls'[k].sid = calls[k].sid
      /\ \A j \in Calls : j # k => calls'[j] = calls[j]
      /\ \A u \in Tabs : tabs[u].waiting # Nothing => tabs[u].waiting \in Calls
      /\ k # Nothing
  BY DEF RotateReuse, TypeOK, Tab, Call, Stages, Running, Thrown, Settled, NoCall, Calls, Nothing
<1>1. HoldersKnown'
  <2>1. \A z \in SessionIds : Opened(z) => sessions'[z].tabs = sessions[z].tabs
    BY DEF RotateReuse, RevokeFamily, TypeOK, Opened, Session, NoSession
  <2>2. \A u \in Tabs : tabs[u].tokens # NoTokens =>
            tabs[u].tokens.sid \in SessionIds /\ Opened(tabs[u].tokens.sid)
    BY DEF NamesOpened, TypeOK, Tab, Tokens
  <2>3. \A u \in Tabs : tabs[u].waiting # Nothing =>
            /\ calls[tabs[u].waiting].sid \in SessionIds
            /\ Opened(calls[tabs[u].waiting].sid)
            /\ calls'[tabs[u].waiting].sid = calls[tabs[u].waiting].sid
            /\ calls'[tabs[u].waiting].stage \in Stages
    BY <1>a DEF HoldersKnown, NamesOpened, Call, Stages
  <2> QED
    BY <1>a, <2>1, <2>2, <2>3 DEF HoldersKnown
<1> SUFFICES ASSUME NEW s \in SessionIds, Clean(s)'
             PROVE  InStep(s)'
  BY <1>1 DEF FlightInv
<1>b. sessions'[s].tabs = sessions[s].tabs /\ (Opened(s)' => Opened(s))
      /\ sessions'[s].token = sessions[s].token
  BY <1>a DEF RotateReuse, RevokeFamily, TypeOK, Opened, Session, NoSession, Active
<1>2. InStep(s)
  <2>1. ~Orphaned(s)
    BY <1>a DEF Clean, Orphaned, Lost, Orphan
  <2>2. Clean(s)
    BY <1>b, <2>1 DEF Clean, Shared
  <2> QED
    BY <2>2 DEF FlightInv
<1>c. calls[k].sid # s
  <2>1. ASSUME calls[k].sid = s PROVE FALSE
    <3>1. PICK w \in Tabs : tabs[w].waiting = k
      BY <1>a, <2>1 DEF Clean, Orphaned, Lost, Orphan
    <3>2. Awaits(w, s, {"reuse"})
      BY <1>a, <2>1, <3>1 DEF Awaits
    <3> QED
      BY <1>2, <3>2 DEF InStep
  <2> QED
    BY <2>1
<1>d. sessions'[s] = sessions[s]
  BY <1>a, <1>c DEF RotateReuse, RevokeFamily, TypeOK, Call
<1> QED
  BY <1>2, <1>a, <1>c, <1>d DEF InStep, Awaits

LEMMA RotateFailsInStep ==
    ASSUME FullInv, NEW k \in Calls, RotateFails(k)
    PROVE  HoldersKnown' /\ FlightInv'
<1> USE SessionsAssumption, Records DEF FullInv, IInv
<1>a. /\ tabs' = tabs /\ stored' = stored /\ sessions' = sessions
      /\ calls[k] \in Call /\ calls[k].stage \in Running
      /\ calls'[k].stage \in {"failed", "torn"}
      /\ calls'[k].sid = calls[k].sid
      /\ \A j \in Calls : j # k => calls'[j] = calls[j]
      /\ \A u \in Tabs : tabs[u].waiting # Nothing => tabs[u].waiting \in Calls
  BY DEF RotateFails, TypeOK, Tab, Call, Stages, Running, Thrown, Settled, NoCall
<1>1. HoldersKnown'
  BY <1>a DEF HoldersKnown, Stages, Thrown
<1> SUFFICES ASSUME NEW s \in SessionIds, Clean(s)'
             PROVE  InStep(s)'
  BY <1>1 DEF FlightInv
<1>2. InStep(s)
  <2>1. ~Orphaned(s)
    BY <1>a DEF Clean, Orphaned, Lost, Orphan, Running
  <2>2. Clean(s)
    BY <1>a, <2>1 DEF Clean, Shared, Opened
  <2> QED
    BY <2>2 DEF FlightInv
<1>3. \A u \in Tabs : tabs[u].waiting = k =>
          ~Awaits(u, s, {"granted", "sent", "passed", "reuse"})'
  BY <1>a DEF Awaits
<1>4. \A u \in Tabs : tabs[u].waiting # Nothing /\ tabs[u].waiting # k =>
          calls'[tabs[u].waiting] = calls[tabs[u].waiting]
  BY <1>a
<1>5. \A u \in Tabs : Awaits(u, s, {"granted"}) <=> Awaits(u, s, {"granted"})'
  BY <1>a, <1>3, <1>4 DEF Awaits, Running
<1>6. (\A u \in Tabs : Awaits(u, s, {"sent", "passed"}) =>
           calls[tabs[u].waiting].token = sessions[s].token)'
  BY <1>2, <1>a, <1>3, <1>4 DEF InStep, Awaits
<1>7. (\A u \in Tabs : ~Awaits(u, s, {"reuse"}))'
  BY <1>2, <1>a, <1>3, <1>4 DEF InStep, Awaits
<1>8. (\A u \in Tabs : Awaits(u, s, {"granted"}) => sessions[s].token = tabs[u].waiting)'
  BY <1>2, <1>a, <1>5 DEF InStep
<1>9. (\A u \in Tabs : (tabs[u].tokens # NoTokens /\ tabs[u].tokens.sid = s) =>
           \/ tabs[u].tokens.token = sessions[s].token
           \/ Awaits(u, s, {"granted"}))'
  BY <1>2, <1>a, <1>5 DEF InStep
<1> QED
  BY <1>2, <1>6, <1>7, <1>8, <1>9, <1>a DEF InStep

\* The session whose token landed after the answer is not clean any more.
LEMMA TornWriteInStep ==
    ASSUME FullInv, NEW k \in Calls, TornWrite(k)
    PROVE  HoldersKnown' /\ FlightInv'
<1> USE SessionsAssumption, Records DEF FullInv, IInv
<1>a. /\ tabs' = tabs /\ stored' = stored
      /\ calls[k] \in Call /\ calls[k].stage = "torn" /\ calls'[k].stage = "landed"
      /\ calls'[k].sid = calls[k].sid
      /\ \A j \in Calls : j # k => calls'[j] = calls[j]
      /\ \A z \in SessionIds : z # calls[k].sid => sessions'[z] = sessions[z]
      /\ \A u \in Tabs : tabs[u].waiting # Nothing => tabs[u].waiting \in Calls
  BY DEF TornWrite, Rotate, TypeOK, Tab, Call, Stages, Running, Thrown, Settled, NoCall
<1>b. \A z \in SessionIds : Opened(z) => sessions'[z].tabs = sessions[z].tabs
  BY DEF TornWrite, Rotate, TypeOK, Opened, Session, NoSession
<1>1. HoldersKnown'
  <2>1. \A u \in Tabs : tabs[u].tokens # NoTokens =>
            tabs[u].tokens.sid \in SessionIds /\ Opened(tabs[u].tokens.sid)
    BY DEF NamesOpened, TypeOK, Tab, Tokens
  <2>2. \A u \in Tabs : tabs[u].waiting # Nothing =>
            /\ calls[tabs[u].waiting].sid \in SessionIds
            /\ Opened(calls[tabs[u].waiting].sid)
            /\ calls'[tabs[u].waiting].sid = calls[tabs[u].waiting].sid
            /\ calls'[tabs[u].waiting].stage \in Stages
    BY <1>a DEF HoldersKnown, NamesOpened, Call, Stages, Thrown
  <2> QED
    BY <1>a, <1>b, <2>1, <2>2 DEF HoldersKnown
<1> SUFFICES ASSUME NEW s \in SessionIds, Clean(s)'
             PROVE  InStep(s)'
  BY <1>1 DEF FlightInv
<1>c. calls[k].sid # s
  BY <1>a DEF Clean, Orphaned, Lost
<1>2. InStep(s)
  <2>1. ~Orphaned(s)
    BY <1>a, <1>c DEF Clean, Orphaned, Lost, Orphan
  <2>2. Clean(s)
    BY <1>a, <1>c, <2>1 DEF Clean, Shared, Opened
  <2> QED
    BY <2>2 DEF FlightInv
<1> QED
  BY <1>2, <1>a, <1>c DEF InStep, Awaits

LEMMA RestartInStep ==
    ASSUME FullInv, Restart
    PROVE  HoldersKnown' /\ FlightInv'
<1> USE SessionsAssumption, Records DEF FullInv, IInv
<1> DEFINE died == {k \in Calls : calls[k].stage \in Running}
<1>a. /\ sessions' = sessions /\ stored' = stored
      /\ \A k \in Calls : k \in died => calls'[k] = Settled
      /\ \A k \in Calls : k \notin died => calls'[k] = calls[k]
      /\ \A u \in Tabs : tabs'[u].tokens = tabs[u].tokens
      /\ \A u \in Tabs : tabs[u].waiting \in died => tabs'[u].waiting = Nothing
      /\ \A u \in Tabs : tabs[u].waiting \notin died => tabs'[u].waiting = tabs[u].waiting
      /\ Nothing \notin died
      /\ \A u \in Tabs : tabs[u].waiting # Nothing => tabs[u].waiting \in Calls
  BY DEF Restart, TypeOK, Tab, Calls, Nothing
<1>b. \A u \in Tabs : tabs'[u].waiting # Nothing =>
         /\ tabs'[u].waiting = tabs[u].waiting
         /\ tabs'[u].waiting \in Calls
         /\ calls'[tabs'[u].waiting] = calls[tabs[u].waiting]
  BY <1>a
<1>1. HoldersKnown'
  BY <1>a, <1>b DEF HoldersKnown
<1> SUFFICES ASSUME NEW s \in SessionIds, Clean(s)'
             PROVE  InStep(s)'
  BY <1>1 DEF FlightInv
<1>2. InStep(s)
  <2>1. ~Orphaned(s)
    <3>1. ASSUME NEW k \in Calls, Lost(k), calls[k].sid = s PROVE FALSE
      <4>1. calls'[k] = calls[k]
        BY <1>a, <3>1 DEF Lost, Orphan, Running
      <4>2. Orphan(k) => \A u \in Tabs : tabs'[u].waiting # k
        BY <1>b, <3>1 DEF Orphan, Calls, Nothing
      <4> QED
        BY <3>1, <4>1, <4>2 DEF Lost, Orphan, Orphaned, Clean
    <3> QED
      BY <3>1 DEF Orphaned
  <2>2. Clean(s)
    BY <1>a, <2>1 DEF Clean, Shared, Opened
  <2> QED
    BY <2>2 DEF FlightInv
<1>4. \A u \in Tabs : Awaits(u, s, {"granted"}) => Awaits(u, s, {"granted"})'
  BY <1>a DEF Awaits, Running
<1>5. (\A u \in Tabs : Awaits(u, s, {"granted"}) => sessions[s].token = tabs[u].waiting)'
  BY <1>2, <1>a, <1>b DEF InStep, Awaits
<1>6. (\A u \in Tabs : Awaits(u, s, {"sent", "passed"}) =>
           calls[tabs[u].waiting].token = sessions[s].token)'
  BY <1>2, <1>a, <1>b DEF InStep, Awaits
<1>7. (\A u \in Tabs : ~Awaits(u, s, {"reuse"}))'
  BY <1>2, <1>b DEF InStep, Awaits
<1>8. (\A u \in Tabs : (tabs[u].tokens # NoTokens /\ tabs[u].tokens.sid = s) =>
           \/ tabs[u].tokens.token = sessions[s].token
           \/ Awaits(u, s, {"granted"}))'
  BY <1>2, <1>4, <1>a DEF InStep
<1> QED
  BY <1>2, <1>5, <1>6, <1>7, <1>8, <1>a DEF InStep

-----------------------------------------------------------------------------
(* The theorems *)

LEMMA NextFullInv ==
    ASSUME FullInv, [Next]_vars
    PROVE  FullInv'
<1>1. CASE Next
  <2>1. ASSUME NEW t \in Tabs, SignIn(t) PROVE FullInv'
    BY <2>1, SignInKeeps, SignInInStep DEF FullInv
  <2>2. ASSUME NEW t \in Tabs, SignOut(t) PROVE FullInv'
    BY <2>2, SignOutKeeps, SignOutInStep DEF FullInv
  <2>3. ASSUME NEW t \in Tabs, OpenTab(t) PROVE FullInv'
    BY <2>3, OpenTabKeeps, OpenTabInStep DEF FullInv
  <2>4. ASSUME NEW t \in Tabs, SendRefresh(t) PROVE FullInv'
    BY <2>4, SendRefreshKeeps, SendRefreshInStep DEF FullInv
  <2>5. ASSUME NEW t \in Tabs, LoseAnswer(t) PROVE FullInv'
    BY <2>5, LoseAnswerKeeps, LoseAnswerInStep DEF FullInv
  <2>6. ASSUME NEW t \in Tabs, NEW k \in Calls, Granted(t, k) PROVE FullInv'
    BY <2>6, GrantedKeeps, GrantedInStep DEF FullInv
  <2>7. ASSUME NEW t \in Tabs, NEW k \in Calls, Refused(t, k) PROVE FullInv'
    BY <2>7, RefusedKeeps, RefusedInStep DEF FullInv
  <2>8. ASSUME NEW s \in SessionIds, End(s) PROVE FullInv'
    BY <2>8, EndKeeps, EndInStep DEF FullInv
  <2>9. ASSUME RevokeActor PROVE FullInv'
    BY <2>9, RevokeActorKeeps, RevokeActorInStep DEF FullInv
  <2>10. ASSUME WritePassword PROVE FullInv'
    BY <2>10, WritePasswordKeeps, WritePasswordInStep DEF FullInv
  <2>11. ASSUME NEW n \in 1..MaxResets, FinishReset(n) PROVE FullInv'
    BY <2>11, FinishResetKeeps, FinishResetInStep DEF FullInv
  <2>12. ASSUME NEW k \in Calls, RotateRead(k) PROVE FullInv'
    BY <2>12, RotateReadKeeps, RotateReadInStep DEF FullInv
  <2>13. ASSUME NEW k \in Calls, RotateWrite(k) PROVE FullInv'
    BY <2>13, RotateWriteKeeps, RotateWriteInStep DEF FullInv
  <2>14. ASSUME NEW k \in Calls, RotateReuse(k) PROVE FullInv'
    BY <2>14, RotateReuseKeeps, RotateReuseInStep DEF FullInv
  <2>15. ASSUME Restart PROVE FullInv'
    BY <2>15, RestartKeeps, RestartInStep DEF FullInv
  <2>16. ASSUME NEW n \in 1..MaxResets, FailReset(n) PROVE FullInv'
    BY <2>16, FailResetKeeps, FailResetInStep DEF FullInv
  <2>17. ASSUME NEW k \in Calls, RotateFails(k) PROVE FullInv'
    BY <2>17, RotateFailsKeeps, RotateFailsInStep DEF FullInv
  <2>18. ASSUME NEW k \in Calls, TornWrite(k) PROVE FullInv'
    BY <2>18, TornWriteKeeps, TornWriteInStep DEF FullInv
  <2> QED
    BY <1>1, <2>1, <2>2, <2>3, <2>4, <2>5, <2>6, <2>7, <2>8, <2>9, <2>10, <2>11,
       <2>12, <2>13, <2>14, <2>15, <2>16, <2>17, <2>18 DEF Next, Answer
<1>2. CASE UNCHANGED vars
  BY <1>2 DEF vars, FullInv, IInv, TypeOK, NamesOpened, PasswordsCounted,
     RefusalIsFinal, ResetEndsSessions, HoldersKnown, FlightInv, Clean, Shared,
     Orphaned, Lost, Orphan, InStep, Awaits, Opened, Active
<1> QED
  BY <1>1, <1>2

LEMMA Invariance == Spec => []FullInv
<1>1. Init => FullInv
  BY InitIInv, InitFlight DEF FullInv
<1>2. FullInv /\ [Next]_vars => FullInv'
  BY NextFullInv
<1> QED
  BY <1>1, <1>2, PTL DEF Spec

LEMMA FlightEndsNothing ==
    ASSUME FullInv
    PROVE  SingleFlight
<1> SUFFICES ASSUME NEW s \in SessionIds, Opened(s), sessions[s].reused
             PROVE  \/ \E t, u \in sessions[s].tabs : t # u
                    \/ \E k \in Calls : Lost(k) /\ calls[k].sid = s
  BY DEF SingleFlight, Opened
<1>1. ~Clean(s)
  BY DEF FullInv, FlightInv, InStep
<1> QED
  BY <1>1 DEF Clean, Shared, Orphaned

\* The rows of sessions, the exchanges and what the tabs hold keep their form.
THEOREM SessionTypeCorrect == Spec => []TypeOK
  BY Invariance, PTL DEF FullInv, IInv

\* A tab that rotate() refuses a new token is refused for good: its session is
\* over, whatever exchanges failed or landed late (session-store.ts, rotate).
THEOREM RefusalsAreFinal == Spec => []RefusalIsFinal
  BY Invariance, PTL DEF FullInv, IInv

\* When a password reset is over, no session of an earlier password is active
\* (auth.service.ts, passwordResetConfirm and partnerSetPassword).
THEOREM ResetsEndSessions == Spec => []ResetEndsSessions
  BY Invariance, PTL DEF FullInv, IInv

\* A single tab whose answers arrive, and say what became of its token, never
\* ends its own session by exchanging it, also when exchanges fail and are sent
\* again (client.ts, refreshAccessToken; session-store.ts, rotate).
THEOREM TabsKeepTheirSession == Spec => []SingleFlight
<1>1. FullInv => SingleFlight
  BY FlightEndsNothing
<1> QED
  BY <1>1, Invariance, PTL

=============================================================================
