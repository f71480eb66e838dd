-------------------------- MODULE AuthServiceProofs --------------------------
(***************************************************************************)
(* The credentials for any set of passwords, user names and tokens, with   *)
(* every file access failing whenever it likes and restarts at any point.  *)
(*                                                                         *)
(* What an operation may write is decided accesses before it is written.   *)
(* The invariant therefore follows an operation from its first access on:  *)
(* Loading relates the file to what it was when the operation began,       *)
(* Checking says that the configuration in memory is the one in the file,  *)
(* and Saving that the one about to be written was earned, and that the    *)
(* file is empty from its truncation on.                                   *)
(***************************************************************************)
EXTENDS AuthService, TokenTableProofs

(* An operation under way is a login or a change of the password. *)
Working == phase # "idle" => op.kind \in {"login", "change"}

Loading ==
    phase \in {"init", "load", "check"} =>
       /\ file \in {before, Unreadable, DefaultConfig}
       /\ before \in Configs /\ ~faulted
             => file = before /\ io \in {"read", "none"}
       /\ io \in {"open", "write"} => pending = DefaultConfig

Checking == phase = "check" => cfg = file /\ file \in Configs

Saving ==
    phase = "save" =>
       /\ pending \in Configs
       /\ pending.password = op.new
       /\ Proves(op.current)
       /\ before \in Configs /\ ~faulted => pending.username = before.username
       /\ file \in {before, Unreadable, DefaultConfig}
       /\ io = "write" => file = Unreadable

AInv == AuthTypeOK /\ Working /\ Loading /\ Checking /\ Saving /\ AnswerTellsStored

-----------------------------------------------------------------------------
(* Configurations. *)

LEMMA ConfigFacts ==
    /\ Unreadable \notin Configs
    /\ DefaultConfig \in Configs
    /\ DefaultConfig.password = DefaultPassword
    /\ \A c \in Configs : /\ c.password \in Passwords
                          /\ c = [username |-> c.username, password |-> c.password]
<1>1. DefaultConfig \in Configs /\ DefaultConfig.password = DefaultPassword
  BY AuthServiceAssumption DEF DefaultConfig, Configs
<1>2. \A c \in Configs : /\ c.password \in Passwords
                         /\ c = [username |-> c.username, password |-> c.password]
  BY DEF Configs
<1>3. Unreadable \notin Configs
  <2>1. DOMAIN Unreadable = {"username"}
    BY DEF Unreadable
  <2>2. \A c \in Configs : "password" \in DOMAIN c
    BY DEF Configs
  <2> QED  BY <2>1, <2>2
<1> QED  BY <1>1, <1>2, <1>3

(* The operations web_api_task can be in. *)
LEMMA OpTypes ==
    /\ NoOp \in Ops /\ NoOp.kind = "none"
    /\ \A username \in Usernames, password \in Passwords, remember_me \in BOOLEAN :
          [kind |-> "login", username |-> username, password |-> password,
           remember_me |-> remember_me] \in Ops
    /\ \A current \in Passwords, new \in Passwords :
          [kind |-> "change", current |-> current, new |-> new] \in Ops
    /\ \A o \in Ops :
          /\ o.kind = "login" => /\ o.username \in Usernames
                                 /\ o.password \in Passwords
                                 /\ o.remember_me \in BOOLEAN
          /\ o.kind = "change" => o.current \in Passwords /\ o.new \in Passwords
BY DEF Ops, NoOp

-----------------------------------------------------------------------------
(* The token table: every step is one of its own. *)

LEMMA TokenSteps ==
    ASSUME AuthTypeOK, [AuthNext]_authVars
    PROVE  [TokenNext]_tokenVars
<1>1. ASSUME NEW remember_me \in BOOLEAN, NEW t \in Tokens,
             LoginBootstrap(remember_me, t)
      PROVE  TokenNext
  BY <1>1 DEF LoginBootstrap, TokenNext
<1>2. ASSUME NEW t \in Tokens, CheckLogin(t) PROVE TokenNext
  <2>1. op.remember_me \in BOOLEAN
    BY <1>2, OpTypes DEF CheckLogin, AuthTypeOK
  <2> QED  BY <1>2, <2>1 DEF CheckLogin, TokenNext
<1>3. ASSUME NEW t \in Tokens \cup {NoToken},
             ChangeRefused(t) \/ LogoutCall(t) \/ VerifyCall(t)
      PROVE  TokenNext
  BY <1>3 DEF ChangeRefused, LogoutCall, VerifyCall, TokenNext
<1>4. ASSUME NEW t \in Tokens, NEW current \in Passwords, NEW new \in Passwords,
             ChangePassword(t, current, new)
      PROVE  TokenNext
  BY <1>4 DEF ChangePassword, TokenNext
<1>5. CASE TickCall \/ AuthRestart
  BY <1>5 DEF TickCall, AuthRestart, TokenNext
<1>6. ASSUME NEW username \in Usernames, NEW password \in Passwords,
             NEW remember_me \in BOOLEAN, Login(username, password, remember_me)
      PROVE  UNCHANGED tokenVars
  BY <1>6 DEF Login
<1>7. CASE ReadOk \/ ReadFails \/ RereadFails \/ OpenFails \/ OpenTruncates
             \/ WriteAll \/ WriteShort \/ CloseLosesData \/ LoginRefused
             \/ CheckChange \/ WrongCurrent
  BY <1>7 DEF ReadOk, ReadFails, RereadFails, OpenFails, OpenTruncates,
              WriteAll, WriteShort, CloseLosesData, LoginRefused, CheckChange,
              WrongCurrent
<1>8. CASE UNCHANGED authVars
  BY <1>8 DEF authVars, tokenVars
<1> QED
  BY <1>1, <1>2, <1>3, <1>4, <1>5, <1>6, <1>7, <1>8 DEF AuthNext

-----------------------------------------------------------------------------
(* Types. *)

LEMMA AuthTypeInit == AuthInit => AuthTypeOK
<1> SUFFICES ASSUME AuthInit PROVE AuthTypeOK
  OBVIOUS
<1>1. TokenTypeOK
  BY TokenTypeInit DEF AuthInit
<1>2. op \in Ops
  BY OpTypes DEF AuthInit
<1> QED  BY <1>1, <1>2 DEF AuthInit, AuthTypeOK

LEMMA AuthTypeNext ==
    ASSUME AInv, [AuthNext]_authVars
    PROVE  AuthTypeOK'
<1>0. TokenTypeOK'
  BY TokenSteps, TokenTypeNext DEF AInv, AuthTypeOK
<1> DEFINE Booleans == initialized \in BOOLEAN /\ faulted \in BOOLEAN
           Data == /\ file \in Configs \cup {Unreadable}
                   /\ op \in Ops
                   /\ cfg \in Configs \cup {Unreadable}
                   /\ pending \in Configs \cup {Unreadable}
                   /\ reply \in {0, 200, 400, 401, 404, 500}
                   /\ before \in Configs \cup {Unreadable}
           Control == /\ phase \in {"idle", "init", "load", "check", "save"}
                      /\ io \in {"none", "read", "open", "write", "reread"}
                      /\ io = "none" <=> phase \in {"idle", "check"}
                      /\ phase = "save" => op.kind = "change" /\ io \in {"open", "write"}
<1>a. Booleans /\ Data /\ Control /\ Working /\ NoOp \in Ops
  BY OpTypes DEF AInv, AuthTypeOK
<1>b. Booleans
  BY <1>a
<1>1. ASSUME NEW remember_me \in BOOLEAN, NEW t \in Tokens,
             LoginBootstrap(remember_me, t)
      PROVE  Booleans' /\ Data' /\ Control'
  <2>1. op' \in Ops
    BY <1>1, OpTypes, AuthServiceAssumption DEF LoginBootstrap
  <2>11. Booleans'
    BY <1>1, <1>b, <2>1 DEF LoginBootstrap, fileVars
  <2>12. Data'
    BY <1>1, <1>a, <2>1 DEF LoginBootstrap, fileVars
  <2>13. Control'
    BY <1>1, <1>a, <2>1 DEF LoginBootstrap, fileVars
  <2> QED  BY <2>11, <2>12, <2>13
<1>2. ASSUME NEW username \in Usernames, NEW password \in Passwords,
             NEW remember_me \in BOOLEAN, Login(username, password, remember_me)
      PROVE  Booleans' /\ Data' /\ Control'
  <2>1. op' \in Ops /\ phase = "idle" /\ phase' \in {"init", "load"}
    BY <1>2, OpTypes DEF Login, Begin
  <2>11. Booleans'
    BY <1>2, <1>b, <2>1 DEF Login, Begin, fileVars
  <2>12. Data'
    BY <1>2, <1>a, <2>1 DEF Login, Begin, fileVars
  <2>13. Control'
    BY <1>2, <1>a, <2>1 DEF Login, Begin, fileVars
  <2> QED  BY <2>11, <2>12, <2>13
<1>3. ASSUME NEW t \in Tokens, NEW current \in Passwords, NEW new \in Passwords,
             ChangePassword(t, current, new)
      PROVE  Booleans' /\ Data' /\ Control'
  <2>1. op' \in Ops /\ phase = "idle" /\ phase' \in {"init", "load"}
    BY <1>3, OpTypes DEF ChangePassword, Begin
  <2>11. Booleans'
    BY <1>3, <1>b, <2>1 DEF ChangePassword, Begin, fileVars
  <2>12. Data'
    BY <1>3, <1>a, <2>1 DEF ChangePassword, Begin, fileVars
  <2>13. Control'
    BY <1>3, <1>a, <2>1 DEF ChangePassword, Begin, fileVars
  <2> QED  BY <2>11, <2>12, <2>13
<1>4. ASSUME NEW t \in Tokens \cup {NoToken},
             ChangeRefused(t) \/ LogoutCall(t)
      PROVE  Booleans' /\ Data' /\ Control'
  BY <1>4, <1>a DEF ChangeRefused, LogoutCall, fileVars
<1>5. ASSUME NEW t \in Tokens \cup {NoToken}, VerifyCall(t)
      PROVE  Booleans' /\ Data' /\ Control'
  BY <1>5, <1>a DEF VerifyCall, opVars, fileVars
<1>6. ASSUME ReadOk
      PROVE  Booleans' /\ Data' /\ Control'
  <2>11. Booleans'
    BY <1>6, <1>b DEF ReadOk
  <2>12. Data'
    BY <1>6, <1>a DEF ReadOk
  <2>13. Control'
    BY <1>6, <1>a DEF ReadOk
  <2> QED  BY <2>11, <2>12, <2>13
<1>7. ASSUME ReadFails
      PROVE  Booleans' /\ Data' /\ Control'
  BY <1>7, <1>a, ConfigFacts DEF ReadFails, fileVars
<1>8. ASSUME RereadFails
      PROVE  Booleans' /\ Data' /\ Control'
  <2>1. ErrorStatuses \subseteq {404, 500}
    BY DEF ErrorStatuses
  <2> QED  BY <1>8, <1>a, <2>1 DEF RereadFails, Fail, End
<1>9. ASSUME OpenFails \/ WriteShort
      PROVE  Booleans' /\ Data' /\ Control'
  <2>11. Booleans'
    BY <1>9, <1>b DEF OpenFails, WriteShort, Fail
  <2>12. Data'
    <3>1. CASE OpenFails
      BY <1>a, <3>1 DEF OpenFails, Fail, End
    <3>2. CASE WriteShort
      BY <1>a, <3>2 DEF WriteShort, Fail, End
    <3> QED  BY <1>9, <3>1, <3>2
  <2>13. Control'
    <3>1. CASE OpenFails
      BY <1>a, <3>1 DEF OpenFails, Fail, End
    <3>2. CASE WriteShort
      BY <1>a, <3>2 DEF WriteShort, Fail, End
    <3> QED  BY <1>9, <3>1, <3>2
  <2> QED  BY <2>11, <2>12, <2>13
<1>10. ASSUME OpenTruncates
      PROVE  Booleans' /\ Data' /\ Control'
  BY <1>10, <1>a DEF OpenTruncates
<1>11. ASSUME WriteAll \/ CloseLosesData
      PROVE  Booleans' /\ Data' /\ Control'
  <2>11. Booleans'
    BY <1>11, <1>b DEF WriteAll, CloseLosesData, fileVars
  <2>12. Data'
    <3>1. CASE WriteAll
      BY <1>a, <3>1 DEF WriteAll, Written, End, fileVars
    <3>2. CASE CloseLosesData
      BY <1>a, <3>2 DEF CloseLosesData, Written, End, fileVars
    <3> QED  BY <1>11, <3>1, <3>2
  <2>13. Control'
    <3>1. CASE WriteAll
      BY <1>a, <3>1 DEF WriteAll, Written, End, fileVars
    <3>2. CASE CloseLosesData
      BY <1>a, <3>2 DEF CloseLosesData, Written, End, fileVars
    <3> QED  BY <1>11, <3>1, <3>2
  <2> QED  BY <2>11, <2>12, <2>13
<1>12. ASSUME NEW t \in Tokens, CheckLogin(t) PROVE Booleans' /\ Data' /\ Control'
  BY <1>12, <1>a DEF CheckLogin, End, fileVars
<1>13. ASSUME LoginRefused \/ WrongCurrent
      PROVE  Booleans' /\ Data' /\ Control'
  BY <1>13, <1>a DEF LoginRefused, WrongCurrent, End, fileVars
<1>14. ASSUME CheckChange
      PROVE  Booleans' /\ Data' /\ Control'
  <2>1. cfg \in Configs /\ op.new \in Passwords
    BY <1>14, <1>a, OpTypes DEF CheckChange, AInv, Checking
  <2>2. [cfg EXCEPT !.password = op.new] \in Configs
    BY <2>1 DEF Configs
  <2> QED  BY <1>14, <1>a, <2>2 DEF CheckChange, fileVars
<1>15. ASSUME TickCall \/ UNCHANGED authVars
      PROVE  Booleans' /\ Data' /\ Control'
  BY <1>15, <1>a DEF TickCall, opVars, fileVars, authVars
<1>16. ASSUME AuthRestart
      PROVE  Booleans' /\ Data' /\ Control'
  BY <1>16, <1>a DEF AuthRestart
<1> QED
  BY <1>0, <1>1, <1>2, <1>3, <1>4, <1>5, <1>6, <1>7, <1>8, <1>9, <1>10, <1>11,
     <1>12, <1>13, <1>14, <1>15, <1>16 DEF AuthNext, AuthTypeOK

-----------------------------------------------------------------------------
(* An operation from its first file access to its answer. *)

LEMMA AuthInitInv == AuthInit => AInv
<1> SUFFICES ASSUME AuthInit PROVE AInv
  OBVIOUS
<1>1. phase = "idle" /\ op = NoOp /\ NoOp.kind = "none"
  BY OpTypes DEF AuthInit
<1> QED
  BY <1>1, AuthTypeInit
  DEF AInv, Working, Loading, Checking, Saving, AnswerTellsStored

(* The steps that leave an operation under way as it is, or end it. *)
LEMMA WorkingNext ==
    ASSUME AInv, [AuthNext]_authVars
    PROVE  Working'
<1>0. Working
  BY DEF AInv
<1>1. ASSUME NEW username \in Usernames, NEW password \in Passwords,
             NEW remember_me \in BOOLEAN, Login(username, password, remember_me)
      PROVE  Working'
  BY <1>1 DEF Login, Begin, Working
<1>2. ASSUME NEW t \in Tokens, NEW current \in Passwords, NEW new \in Passwords,
             ChangePassword(t, current, new)
      PROVE  Working'
  BY <1>2 DEF ChangePassword, Begin, Working
<1>3. ASSUME NEW t \in Tokens \cup {NoToken},
             ChangeRefused(t) \/ LogoutCall(t)
      PROVE  Working'
  BY <1>3 DEF ChangeRefused, LogoutCall, Working
<1>4. ASSUME NEW t \in Tokens, NEW remember_me \in BOOLEAN,
             LoginBootstrap(remember_me, t)
      PROVE  Working'
  BY <1>4 DEF LoginBootstrap, Working
<1>5. CASE op' = op /\ (phase # "idle" \/ phase' = "idle")
  BY <1>0, <1>5 DEF Working
<1>6. io # "none" => phase # "idle"
  BY DEF AInv, AuthTypeOK
<1>7. CASE ReadOk \/ ReadFails \/ RereadFails \/ OpenFails \/ OpenTruncates
             \/ WriteAll \/ WriteShort \/ CloseLosesData
  <2>1. io # "none" /\ op' = op
    BY <1>7 DEF ReadOk, ReadFails, RereadFails, OpenFails, OpenTruncates,
                WriteAll, WriteShort, CloseLosesData, Fail
  <2> QED  BY <1>5, <1>6, <2>1
<1>8. ASSUME NEW t \in Tokens, CheckLogin(t) PROVE Working'
  BY <1>5, <1>8 DEF CheckLogin
<1>9. CASE LoginRefused \/ WrongCurrent \/ CheckChange
  BY <1>5, <1>9 DEF LoginRefused, WrongCurrent, CheckChange
<1>10. ASSUME NEW t \in Tokens \cup {NoToken}, VerifyCall(t) PROVE Working'
  BY <1>5, <1>10 DEF VerifyCall, opVars
<1>11. CASE TickCall \/ UNCHANGED authVars
  BY <1>5, <1>11 DEF TickCall, opVars, authVars
<1>12. CASE AuthRestart
  BY <1>12 DEF AuthRestart, Working
<1> QED
  BY <1>1, <1>2, <1>3, <1>4, <1>7, <1>8, <1>9, <1>10, <1>11, <1>12 DEF AuthNext

LEMMA LoadingNext ==
    ASSUME AInv, [AuthNext]_authVars
    PROVE  Loading' /\ Checking'
<1>0. /\ Loading /\ Checking
      /\ io = "none" <=> phase \in {"idle", "check"}
      /\ phase \in {"idle", "init", "load", "check", "save"}
      /\ phase = "save" => io \in {"open", "write"}
      /\ file \in Configs \cup {Unreadable}
  BY DEF AInv, AuthTypeOK
<1>1. ASSUME phase' \in {"idle", "save"} PROVE Loading' /\ Checking'
  BY <1>1 DEF Loading, Checking
<1>2. ASSUME UNCHANGED <<fileVars, opVars>> PROVE Loading' /\ Checking'
  BY <1>0, <1>2 DEF Loading, Checking, fileVars, opVars
<1>3. ASSUME NEW username \in Usernames, NEW password \in Passwords,
             NEW remember_me \in BOOLEAN, Login(username, password, remember_me)
      PROVE  Loading' /\ Checking'
  BY <1>3 DEF Login, Begin, Loading, Checking, fileVars
<1>4. ASSUME NEW t \in Tokens, NEW current \in Passwords, NEW new \in Passwords,
             ChangePassword(t, current, new)
      PROVE  Loading' /\ Checking'
  BY <1>4 DEF ChangePassword, Begin, Loading, Checking, fileVars
<1>5. ASSUME NEW t \in Tokens \cup {NoToken},
             ChangeRefused(t) \/ LogoutCall(t)
      PROVE  Loading' /\ Checking'
  BY <1>1, <1>5 DEF ChangeRefused, LogoutCall
<1>6. ASSUME NEW t \in Tokens, NEW remember_me \in BOOLEAN,
             LoginBootstrap(remember_me, t)
      PROVE  Loading' /\ Checking'
  BY <1>1, <1>6 DEF LoginBootstrap
<1>7. ASSUME ReadOk PROVE Loading' /\ Checking'
  <2>1. phase \in {"init", "load"} /\ phase' \in {"load", "check"}
        /\ io' \in {"read", "none"} /\ UNCHANGED <<file, before, faulted>>
    BY <1>0, <1>7 DEF ReadOk
  <2>2. Loading'
    BY <1>0, <2>1 DEF Loading
  <2>3. Checking'
    BY <1>0, <1>7, <2>1 DEF ReadOk, Checking
  <2> QED  BY <2>2, <2>3
<1>8. ASSUME ReadFails PROVE Loading' /\ Checking'
  BY <1>0, <1>8 DEF ReadFails, Loading, Checking, fileVars
<1>9. ASSUME RereadFails \/ OpenFails \/ WriteShort PROVE Loading' /\ Checking'
  BY <1>1, <1>9 DEF RereadFails, OpenFails, WriteShort, Fail, End
<1>10. ASSUME OpenTruncates PROVE Loading' /\ Checking'
  BY <1>0, <1>10 DEF OpenTruncates, Loading, Checking
<1>11. ASSUME WriteAll PROVE Loading' /\ Checking'
  <2>1. CASE phase = "save"
    BY <1>1, <1>11, <2>1 DEF WriteAll, Written, End
  <2>2. CASE phase # "save"
    BY <1>0, <1>11, <2>2 DEF WriteAll, Written, Loading, Checking
  <2> QED  BY <2>1, <2>2
<1>12. ASSUME CloseLosesData PROVE Loading' /\ Checking'
  <2>1. CASE phase = "save"
    BY <1>1, <1>12, <2>1 DEF CloseLosesData, Written, End
  <2>2. CASE phase # "save"
    BY <1>0, <1>12, <2>2
    DEF CloseLosesData, Written, Loading, Checking, fileVars
  <2> QED  BY <2>1, <2>2
<1>13. ASSUME NEW t \in Tokens, CheckLogin(t) PROVE Loading' /\ Checking'
  BY <1>1, <1>13 DEF CheckLogin, End
<1>14. ASSUME LoginRefused \/ WrongCurrent \/ CheckChange \/ AuthRestart
       PROVE  Loading' /\ Checking'
  BY <1>1, <1>14 DEF LoginRefused, WrongCurrent, CheckChange, AuthRestart, End
<1>15. ASSUME NEW t \in Tokens \cup {NoToken}, VerifyCall(t)
       PROVE  Loading' /\ Checking'
  BY <1>2, <1>15 DEF VerifyCall
<1>16. ASSUME TickCall \/ UNCHANGED authVars PROVE Loading' /\ Checking'
  BY <1>2, <1>16 DEF TickCall, fileVars, opVars, authVars
<1> QED
  BY <1>3, <1>4, <1>5, <1>6, <1>7, <1>8, <1>9, <1>10, <1>11, <1>12, <1>13,
     <1>14, <1>15, <1>16 DEF AuthNext

(* A password is written only after the check of the current one. *)
LEMMA SavingNext ==
    ASSUME AInv, [AuthNext]_authVars
    PROVE  Saving'
<1> SUFFICES ASSUME phase' = "save" PROVE Saving'
  BY DEF Saving
<1>0. /\ Saving /\ Loading /\ Checking
      /\ io = "none" <=> phase \in {"idle", "check"}
      /\ phase \in {"idle", "init", "load", "check", "save"}
      /\ op \in Ops
  BY DEF AInv, AuthTypeOK
<1>1. CASE CheckChange
  <2>1. /\ cfg \in Configs /\ cfg = file /\ cfg.password = op.current
        /\ op.new \in Passwords /\ op' = op /\ before' = before
        /\ faulted' = faulted /\ pending' = [cfg EXCEPT !.password = op.new]
    BY <1>0, <1>1, OpTypes DEF CheckChange, Checking
  <2>2. /\ pending' \in Configs /\ pending'.password = op.new
        /\ pending'.username = cfg.username
    BY <2>1 DEF Configs
  <2>3. file \in {before, Unreadable, DefaultConfig}
        /\ (before \in Configs /\ ~faulted => file = before)
    BY <1>0, <1>1 DEF CheckChange, Loading
  <2>4. Proves(op.current)
    BY <2>1, <2>3, ConfigFacts DEF Proves
  <2>5. file' = file /\ io' = "open"
    BY <1>1 DEF CheckChange, fileVars
  <2> QED  BY <2>1, <2>2, <2>3, <2>4, <2>5 DEF Saving, Proves
<1>2. CASE /\ UNCHANGED <<phase, op, pending, before, faulted>>
           /\ UNCHANGED <<file, io>> \/ file' = Unreadable
  BY <1>0, <1>2 DEF Saving, Proves
<1>3. \/ CheckChange
      \/ /\ UNCHANGED <<phase, op, pending, before, faulted>>
         /\ UNCHANGED <<file, io>> \/ file' = Unreadable
  <2>1. ASSUME NEW username \in Usernames, NEW password \in Passwords,
               NEW remember_me \in BOOLEAN, Login(username, password, remember_me)
        PROVE  FALSE
    BY <2>1 DEF Login, Begin
  <2>2. ASSUME NEW t \in Tokens, NEW current \in Passwords, NEW new \in Passwords,
               ChangePassword(t, current, new)
        PROVE  FALSE
    BY <2>2 DEF ChangePassword, Begin
  <2>3. ASSUME NEW t \in Tokens \cup {NoToken},
               ChangeRefused(t) \/ LogoutCall(t) \/ VerifyCall(t)
        PROVE  UNCHANGED <<phase, op, pending, before, faulted, file, io>>
    BY <2>3 DEF ChangeRefused, LogoutCall, VerifyCall, opVars, fileVars
  <2>4. ASSUME NEW t \in Tokens, NEW remember_me \in BOOLEAN,
               LoginBootstrap(remember_me, t)
        PROVE  FALSE
    BY <2>4 DEF LoginBootstrap
  <2>5. ASSUME NEW t \in Tokens, CheckLogin(t) PROVE FALSE
    BY <2>5 DEF CheckLogin, End
  <2>6. CASE RereadFails \/ OpenFails \/ WriteShort \/ LoginRefused
               \/ WrongCurrent \/ AuthRestart
    BY <2>6 DEF RereadFails, OpenFails, WriteShort, Fail, LoginRefused,
                WrongCurrent, AuthRestart, End
  <2>7. CASE ReadOk
    BY <1>0, <2>7 DEF ReadOk, Saving, AInv, AuthTypeOK
  <2>8. CASE ReadFails
    BY <1>0, <2>8 DEF ReadFails, AInv, AuthTypeOK
  <2>9. CASE WriteAll \/ CloseLosesData
    BY <2>9 DEF WriteAll, CloseLosesData, Written, End
  <2>10. CASE OpenTruncates \/ TickCall \/ UNCHANGED authVars
    BY <2>10 DEF OpenTruncates, TickCall, opVars, fileVars, authVars
  <2> QED
    BY <2>1, <2>2, <2>3, <2>4, <2>5, <2>6, <2>7, <2>8, <2>9, <2>10 DEF AuthNext
<1> QED  BY <1>1, <1>2, <1>3

(* Where the answer to a change of the password comes from. *)
LEMMA AnswerNext ==
    ASSUME AInv, [AuthNext]_authVars
    PROVE  AnswerTellsStored'
<1> SUFFICES ASSUME phase' = "idle", op'.kind = "change"
             PROVE  AnswerTellsStored'
  BY DEF AnswerTellsStored
<1>0. /\ Saving /\ Loading /\ Checking /\ AnswerTellsStored
      /\ io = "none" <=> phase \in {"idle", "check"}
      /\ phase \in {"idle", "init", "load", "check", "save"}
      /\ phase = "save" => io \in {"open", "write"}
      /\ before \in Configs \cup {Unreadable}
      /\ NoOp.kind = "none"
  BY OpTypes DEF AInv, AuthTypeOK
<1>1. CASE UNCHANGED <<fileVars, opVars>>
  BY <1>0, <1>1 DEF fileVars, opVars, AnswerTellsStored
<1>2. CASE WrongCurrent
  <2>1. /\ phase = "check" /\ reply' = 401
        /\ UNCHANGED <<file, before, faulted>>
    BY <1>2 DEF WrongCurrent, End, fileVars
  <2> QED  BY <1>0, <2>1 DEF Loading, AnswerTellsStored
<1>3. CASE RereadFails
  <2>1. /\ io = "reread" /\ file' = file /\ before' = before
        /\ reply' \in {404, 500}
    BY <1>3 DEF RereadFails, Fail, End, ErrorStatuses
  <2>2. faulted => faulted'
    BY <1>3 DEF RereadFails, Fail
  <2>3. /\ file \in {before, Unreadable, DefaultConfig}
        /\ before \notin Configs \/ faulted
    BY <1>0, <2>1 DEF Loading
  <2>4. faulted' \/ before' \notin Configs
    BY <2>1, <2>2, <2>3
  <2>5. reply' # 200
    BY <2>1
  <2> QED  BY <2>1, <2>3, <2>4, <2>5 DEF AnswerTellsStored
<1>4. CASE WriteAll
  <2>1. phase = "save"
    BY <1>0, <1>4 DEF WriteAll, Written
  <2> QED  BY <1>0, <1>4, <2>1 DEF WriteAll, Written, End, Saving, AnswerTellsStored
<1>5. CASE OpenFails \/ WriteShort
  <2>1. /\ io \in {"open", "write"} /\ reply' = 500
        /\ UNCHANGED <<file, before>> /\ faulted' = TRUE
    BY <1>5 DEF OpenFails, WriteShort, Fail, End
  <2>2. file \in {before, Unreadable, DefaultConfig}
    BY <1>0, <2>1 DEF Loading, Saving
  <2> QED  BY <2>1, <2>2 DEF AnswerTellsStored
<1>6. CASE CloseLosesData
  <2>1. phase = "save" /\ io = "write" /\ reply' = 200
        /\ file' = file /\ faulted' = TRUE
    BY <1>0, <1>6 DEF CloseLosesData, Written, End, fileVars
  <2> QED  BY <1>0, <2>1 DEF Saving, AnswerTellsStored
<1>7. ASSUME NEW t \in Tokens, NEW remember_me \in BOOLEAN,
             LoginBootstrap(remember_me, t)
      PROVE  FALSE
  BY <1>7 DEF LoginBootstrap
<1>8. ASSUME NEW username \in Usernames, NEW password \in Passwords,
             NEW remember_me \in BOOLEAN, Login(username, password, remember_me)
      PROVE  FALSE
  BY <1>8 DEF Login, Begin
<1>9. ASSUME NEW t \in Tokens, NEW current \in Passwords, NEW new \in Passwords,
             ChangePassword(t, current, new)
      PROVE  FALSE
  BY <1>9 DEF ChangePassword, Begin
<1>10. ASSUME NEW t \in Tokens \cup {NoToken},
             ChangeRefused(t) \/ LogoutCall(t)
      PROVE  FALSE
  BY <1>0, <1>10 DEF ChangeRefused, LogoutCall
<1>11. ASSUME NEW t \in Tokens, CheckLogin(t) PROVE FALSE
  BY <1>11 DEF CheckLogin
<1>12. CASE LoginRefused \/ AuthRestart
  BY <1>0, <1>12 DEF LoginRefused, AuthRestart
<1>13. CASE ReadOk \/ ReadFails \/ OpenTruncates \/ CheckChange
  BY <1>0, <1>13 DEF ReadOk, ReadFails, OpenTruncates, CheckChange
<1>14. ASSUME NEW t \in Tokens \cup {NoToken}, VerifyCall(t)
       PROVE  UNCHANGED <<fileVars, opVars>>
  BY <1>14 DEF VerifyCall
<1>15. CASE TickCall \/ UNCHANGED authVars
  BY <1>1, <1>15 DEF TickCall, fileVars, opVars, authVars
<1> QED
  BY <1>1, <1>2, <1>3, <1>4, <1>5, <1>6, <1>7, <1>8, <1>9, <1>10, <1>11,
     <1>12, <1>13, <1>14, <1>15 DEF AuthNext

-----------------------------------------------------------------------------
(* The theorems. *)

LEMMA AuthInvariance == AuthSpec => []AInv
<1>1. AInv /\ [AuthNext]_authVars => AInv'
  BY AuthTypeNext, WorkingNext, LoadingNext, SavingNext, AnswerNext DEF AInv
<1> QED  BY <1>1, AuthInitInv, PTL DEF AuthSpec

(* Every variable of the auth service keeps its type                       *)
(* (auth_service.c:36-381).                                                *)
THEOREM AuthTypeCorrect == AuthSpec => []AuthTypeOK
BY AuthInvariance, PTL DEF AInv

(* The answer to a change of the password tells what is stored: with every *)
(* file access failing, it lies only by a 200 for a file left without      *)
(* credentials (web_api.c:248-266).                                        *)
THEOREM AnswersAreTrue == AuthSpec => []AnswerTellsStored
BY AuthInvariance, PTL DEF AInv

(* Apart from admin/admin, a token is handed out only for the user admin   *)
(* and the password config.json holds (auth_service.c:316-329).            *)
THEOREM SessionsAreEarned == AuthSpec => SessionNeedsCredentials
<1> DEFINE Earned ==
       issued' # issued =>
          \/ phase = "idle" /\ op'.kind = "login"
                /\ op'.username = Admin /\ op'.password = DefaultPassword
          \/ /\ op.username = Admin
             /\ file = [username |-> Admin, password |-> op.password]
<1>1. ASSUME AInv, [AuthNext]_authVars PROVE Earned
  <2>1. ASSUME NEW t \in Tokens, NEW remember_me \in BOOLEAN,
               LoginBootstrap(remember_me, t)
        PROVE  Earned
    BY <2>1 DEF LoginBootstrap
  <2>2. ASSUME NEW t \in Tokens, CheckLogin(t) PROVE Earned
    <3>1. /\ op.username = Admin /\ file \in Configs
          /\ file.username = Admin /\ file.password = op.password
      BY <1>1, <2>2 DEF CheckLogin, AInv, Checking
    <3> QED  BY <3>1, ConfigFacts
  <2>3. ASSUME NEW t \in Tokens \cup {NoToken},
               ChangeRefused(t) \/ LogoutCall(t) \/ VerifyCall(t)
        PROVE  issued' = issued
    BY <2>3 DEF ChangeRefused, LogoutCall, VerifyCall, Logout, Verify
  <2>4. ASSUME NEW t \in Tokens, NEW current \in Passwords, NEW new \in Passwords,
               ChangePassword(t, current, new)
        PROVE  issued' = issued
    BY <2>4 DEF ChangePassword, Verify
  <2>5. ASSUME NEW username \in Usernames, NEW password \in Passwords,
               NEW remember_me \in BOOLEAN, Login(username, password, remember_me)
        PROVE  issued' = issued
    BY <2>5 DEF Login, tokenVars
  <2>6. CASE ReadOk \/ ReadFails \/ RereadFails \/ OpenFails \/ OpenTruncates
               \/ WriteAll \/ WriteShort \/ CloseLosesData \/ LoginRefused
               \/ CheckChange \/ WrongCurrent
    BY <2>6 DEF ReadOk, ReadFails, RereadFails, OpenFails, OpenTruncates,
                WriteAll, WriteShort, CloseLosesData, LoginRefused,
                CheckChange, WrongCurrent, tokenVars
  <2>7. CASE TickCall \/ AuthRestart \/ UNCHANGED authVars
    BY <2>7 DEF TickCall, Tick, AuthRestart, TokenRestart, authVars
  <2> QED
    BY <1>1, <2>1, <2>2, <2>3, <2>4, <2>5, <2>6, <2>7 DEF AuthNext
<1>2. AInv /\ [AuthNext]_authVars => [Earned]_authVars
  BY <1>1
<1> QED  BY <1>2, AuthInvariance, PTL DEF AuthSpec, SessionNeedsCredentials

(* Credentials are written only by a caller that knew the old ones, or are *)
(* the default after the file could not be read                            *)
(* (auth_service.c:219-233, 361-381).                                      *)
THEOREM PasswordsAreEarned == AuthSpec => PasswordNeedsKnowledge
<1> DEFINE Known ==
       file' # file /\ file' \in Configs =>
          \/ /\ op.kind = "change"
             /\ file'.password = op.new
             /\ Proves(op.current)
             /\ before \in Configs /\ ~faulted
                   => file'.username = before.username
          \/ /\ file' = DefaultConfig
             /\ before \notin Configs \/ faulted
<1>1. ASSUME AInv, [AuthNext]_authVars PROVE Known
  <2>0. /\ Saving /\ Loading
        /\ io = "none" <=> phase \in {"idle", "check"}
        /\ phase \in {"idle", "init", "load", "check", "save"}
        /\ phase = "save" => op.kind = "change"
    BY <1>1 DEF AInv, AuthTypeOK
  <2>1. CASE WriteAll
    <3>1. file' = pending /\ io = "write"
      BY <2>1 DEF WriteAll
    <3>2. CASE phase = "save"
      BY <2>0, <3>1, <3>2 DEF Saving
    <3>3. CASE phase # "save"
      BY <2>0, <3>1, <3>3 DEF Loading
    <3> QED  BY <3>2, <3>3
  <2>2. CASE OpenTruncates
    BY <2>2, ConfigFacts DEF OpenTruncates
  <2>3. ASSUME NEW t \in Tokens \cup {NoToken},
               ChangeRefused(t) \/ LogoutCall(t) \/ VerifyCall(t)
        PROVE  file' = file
    BY <2>3 DEF ChangeRefused, LogoutCall, VerifyCall, fileVars
  <2>4. ASSUME NEW t \in Tokens, NEW current \in Passwords, NEW new \in Passwords,
               ChangePassword(t, current, new)
        PROVE  file' = file
    BY <2>4 DEF ChangePassword, Begin, fileVars
  <2>5. ASSUME NEW username \in Usernames, NEW password \in Passwords,
               NEW remember_me \in BOOLEAN, Login(username, password, remember_me)
        PROVE  file' = file
    BY <2>5 DEF Login, Begin, fileVars
  <2>6. ASSUME NEW t \in Tokens, NEW remember_me \in BOOLEAN,
               LoginBootstrap(remember_me, t) \/ CheckLogin(t)
        PROVE  file' = file
    BY <2>6 DEF LoginBootstrap, CheckLogin, fileVars
  <2>7. CASE ReadOk \/ ReadFails \/ RereadFails \/ OpenFails \/ WriteShort
               \/ CloseLosesData \/ LoginRefused \/ CheckChange \/ WrongCurrent
    BY <2>7 DEF ReadOk, ReadFails, RereadFails, OpenFails, WriteShort,
                CloseLosesData, LoginRefused, CheckChange, WrongCurrent,
                fileVars
  <2>8. CASE TickCall \/ AuthRestart \/ UNCHANGED authVars
    BY <2>8 DEF TickCall, AuthRestart, fileVars, authVars
  <2> QED
    BY <1>1, <2>1, <2>2, <2>3, <2>4, <2>5, <2>6, <2>7, <2>8 DEF AuthNext
<1>2. AInv /\ [AuthNext]_authVars => [Known]_authVars
  BY <1>1
<1> QED  BY <1>2, AuthInvariance, PTL DEF AuthSpec, PasswordNeedsKnowledge

=============================================================================
