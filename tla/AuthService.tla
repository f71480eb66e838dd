----------------------------- MODULE AuthService -----------------------------
(***************************************************************************)
(* main/auth_service.c around its token table: the credentials in          *)
(* /spiffs/config.json and the operations login, logout, change_password   *)
(* and verify_token as web_api_task runs them (web_api.c:212-267).         *)
(*                                                                         *)
(* An operation that touches the file is a sequence of file accesses, any  *)
(* of which can fail, and the chip may restart between any two of them: a  *)
(* reboot_delayed_task of an earlier command calls esp_restart while       *)
(* web_api_task goes on, and the power may fail.  fopen(..., "wb")         *)
(* truncates the file, so a write that is cut short leaves no credentials. *)
(*                                                                         *)
(* Salt and hash are abstracted to the password they stand for.            *)
(***************************************************************************)
EXTENDS TokenTable

CONSTANTS
    Passwords,        \* the passwords users try and choose
    DefaultPassword,  \* AUTH_DEFAULT_PASSWORD
    Admin,            \* AUTH_USERNAME
    Usernames,        \* the user names in logins and in the flashed file
    FileFaults        \* can a file access fail?

ASSUME AuthServiceAssumption ==
    /\ DefaultPassword \in Passwords
    /\ Admin \in Usernames
    /\ FileFaults \in BOOLEAN

(* The contents of config.json that read_auth_config accepts. *)
Configs == [username : Usernames, password : Passwords]

(* What create_default_auth_config writes. *)
DefaultConfig == [username |-> Admin, password |-> DefaultPassword]

(* The file without credentials: it is absent, empty, cut short or not     *)
(* what read_auth_config looks for.                                        *)
Unreadable == [username |-> "none"]

NoOp == [kind |-> "none"]

Ops == {NoOp}
         \cup [kind : {"login"}, username : Usernames, password : Passwords,
               remember_me : BOOLEAN]
         \cup [kind : {"change"}, current : Passwords, new : Passwords]

VARIABLES
    file,         \* the contents of config.json
    initialized,  \* s_initialized
    op,           \* the operation web_api_task runs, or ran last
    phase,        \* where it is: init, load, check, save; idle if it is done
    io,           \* the file access that comes next
    cfg,          \* the configuration it has loaded
    pending,      \* the configuration it is writing
    reply,        \* the http_status of the last operation
    before,       \* history: the file when the operation began
    faulted       \* history: has a file access of the operation failed?

opVars   == <<op, phase, io, cfg, pending, reply, before, faulted>>
fileVars == <<file, initialized>>
authVars == <<slots, now, issued, verdict, file, initialized, op, phase, io,
              cfg, pending, reply, before, faulted>>

AuthInit ==
    /\ TokenInit
    /\ file \in Configs \cup {Unreadable}
    /\ initialized = FALSE
    /\ op = NoOp
    /\ phase = "idle"
    /\ io = "none"
    /\ cfg = Unreadable
    /\ pending = Unreadable
    /\ reply = 0
    /\ before = file
    /\ faulted = FALSE

-----------------------------------------------------------------------------
(* Beginning and ending an operation. *)

(* auth_service_init does nothing when it has succeeded before; then the   *)
(* configuration is loaded afresh.                                         *)
Begin(o) ==
    /\ phase = "idle"
    /\ op' = o
    /\ phase' = IF initialized THEN "load" ELSE "init"
    /\ io' = "read"
    /\ before' = file
    /\ faulted' = FALSE
    /\ UNCHANGED <<fileVars, cfg, pending, reply>>

End(http) ==
    /\ phase' = "idle"
    /\ io' = "none"
    /\ cfg' = Unreadable
    /\ pending' = Unreadable
    /\ reply' = http

(* Mutant: ESP_ERR_NO_MEM itself becomes the http_status. *)
RawError == {257}

(* The answers to an error in reading the file back: a change of the       *)
(* password tells a file that is not there from one it cannot read.        *)
ErrorStatuses == IF op.kind = "change" THEN {404, 500} ELSE {500}

Fail(fault, http) ==
    /\ End(http)
    /\ faulted' = (faulted \/ fault)
    /\ UNCHANGED <<initialized, op, before>>

(* admin/admin is let in before config.json is looked at. *)
LoginBootstrap(remember_me, t) ==
    /\ phase = "idle"
    /\ IssueToken(remember_me, t)
    /\ op' = [kind |-> "login", username |-> Admin,
              password |-> DefaultPassword, remember_me |-> remember_me]
    /\ reply' = 200
    /\ before' = file
    /\ faulted' = FALSE
    /\ UNCHANGED <<fileVars, phase, io, cfg, pending>>

Login(username, password, remember_me) ==
    /\ username # Admin \/ password # DefaultPassword
    /\ Begin([kind |-> "login", username |-> username, password |-> password,
              remember_me |-> remember_me])
    /\ UNCHANGED tokenVars

(* web_api_task verifies the token before it changes the password. *)
ChangePassword(t, current, new) ==
    /\ Verifies(t)
    /\ Verify(t)
    /\ Begin([kind |-> "change", current |-> current, new |-> new])

(* The token is refused, or the new password is empty. *)
ChangeRefused(t) ==
    /\ phase = "idle"
    /\ Verify(t)
    /\ op' = NoOp
    /\ reply' = IF Verifies(t) THEN 400 ELSE 401
    /\ UNCHANGED <<fileVars, phase, io, cfg, pending, before, faulted>>

LogoutCall(t) ==
    /\ phase = "idle"
    /\ Logout(t)
    /\ op' = NoOp
    /\ reply' = 200
    /\ UNCHANGED <<fileVars, phase, io, cfg, pending, before, faulted>>

-----------------------------------------------------------------------------
(* load_or_create_auth_config, within auth_service_init and after it. *)

ReadOk ==
    /\ io \in {"read", "reread"}
    /\ file \in Configs
    /\ IF phase = "init"
       THEN /\ initialized' = TRUE
            /\ phase' = "load"
            /\ io' = "read"
            /\ UNCHANGED cfg
       ELSE /\ phase' = "check"
            /\ io' = "none"
            /\ cfg' = file
            /\ UNCHANGED initialized
    /\ UNCHANGED <<tokenVars, file, op, pending, reply, before, faulted>>

(* Any error makes the default configuration: a file that is missing or    *)
(* damaged, and just as well a calloc or fread that fails this once.       *)
ReadFails ==
    /\ io = "read"
    /\ file \notin Configs \/ FileFaults
    /\ io' = "open"
    /\ pending' = DefaultConfig
    /\ faulted' = (faulted \/ file \in Configs)
    /\ UNCHANGED <<tokenVars, fileVars, op, phase, cfg, reply, before>>

RereadFails ==
    /\ io = "reread"
    /\ file \notin Configs \/ FileFaults
    /\ \E http \in ErrorStatuses : Fail(file \in Configs, http)
    /\ UNCHANGED <<tokenVars, file>>

-----------------------------------------------------------------------------
(* write_auth_config. *)

OpenFails ==
    /\ io = "open"
    /\ FileFaults
    /\ Fail(TRUE, 500)
    /\ UNCHANGED <<tokenVars, file>>

OpenTruncates ==
    /\ io = "open"
    /\ file' = Unreadable
    /\ io' = "write"
    /\ UNCHANGED <<tokenVars, initialized, op, phase, cfg, pending, reply,
                   before, faulted>>

(* write_auth_config returns ESP_OK. *)
Written ==
    IF phase = "save"
    THEN End(200)
    ELSE /\ io' = "reread"
         /\ UNCHANGED <<phase, cfg, pending, reply>>

(* Mutant: the configuration that was loaded is written back. *)
WriteLoaded ==
    /\ io = "write"
    /\ file' = IF phase = "save" THEN cfg ELSE pending
    /\ Written
    /\ UNCHANGED <<tokenVars, initialized, op, before, faulted>>

WriteAll ==
    /\ io = "write"
    /\ file' = pending
    /\ Written
    /\ UNCHANGED <<tokenVars, initialized, op, before, faulted>>

WriteShort ==
    /\ io = "write"
    /\ FileFaults
    /\ Fail(TRUE, 500)
    /\ UNCHANGED <<tokenVars, file>>

(* fwrite buffers; the error of the flush in fclose is not looked at. *)
CloseLosesData ==
    /\ io = "write"
    /\ FileFaults
    /\ Written
    /\ faulted' = TRUE
    /\ UNCHANGED <<tokenVars, fileVars, op, before>>

-----------------------------------------------------------------------------
(* What the operation does with the configuration it has loaded. *)

(* Mutant: the user name of the file is not compared. *)
CheckPasswordOnly(t) ==
    /\ phase = "check"
    /\ op.kind = "login"
    /\ op.username = Admin
    /\ cfg.password = op.password
    /\ IssueToken(op.remember_me, t)
    /\ End(200)
    /\ UNCHANGED <<fileVars, op, before, faulted>>

CheckLogin(t) ==
    /\ phase = "check"
    /\ op.kind = "login"
    /\ op.username = Admin
    /\ cfg.username = Admin
    /\ cfg.password = op.password
    /\ IssueToken(op.remember_me, t)
    /\ End(200)
    /\ UNCHANGED <<fileVars, op, before, faulted>>

LoginRefused ==
    /\ phase = "check"
    /\ op.kind = "login"
    /\ \/ op.username # Admin
       \/ cfg.username # Admin
       \/ cfg.password # op.password
    /\ End(401)
    /\ UNCHANGED <<tokenVars, fileVars, op, before, faulted>>

(* Mutant: the current password is not compared. *)
ChangeUnchecked ==
    /\ phase = "check"
    /\ op.kind = "change"
    /\ pending' = [cfg EXCEPT !.password = op.new]
    /\ phase' = "save"
    /\ io' = "open"
    /\ UNCHANGED <<tokenVars, fileVars, op, cfg, reply, before, faulted>>

(* The new password goes into the configuration that was loaded: its user  *)
(* name stays.                                                             *)
CheckChange ==
    /\ phase = "check"
    /\ op.kind = "change"
    /\ cfg.password = op.current
    /\ pending' = [cfg EXCEPT !.password = op.new]
    /\ phase' = "save"
    /\ io' = "open"
    /\ UNCHANGED <<tokenVars, fileVars, op, cfg, reply, before, faulted>>

WrongCurrent ==
    /\ phase = "check"
    /\ op.kind = "change"
    /\ cfg.password # op.current
    /\ End(401)
    /\ UNCHANGED <<tokenVars, fileVars, op, before, faulted>>

-----------------------------------------------------------------------------
(* The other tasks, the time and restarts. *)

(* ensure_authorized in the task of the HTTPS server, at any time. *)
VerifyCall(t) ==
    /\ Verify(t)
    /\ UNCHANGED <<opVars, fileVars>>

TickCall ==
    /\ Tick
    /\ UNCHANGED <<opVars, fileVars>>

(* The file stays as it is; what the static variables held is gone. *)
AuthRestart ==
    /\ TokenRestart
    /\ initialized' = FALSE
    /\ op' = NoOp
    /\ phase' = "idle"
    /\ io' = "none"
    /\ cfg' = Unreadable
    /\ pending' = Unreadable
    /\ reply' = 0
    /\ before' = file
    /\ faulted' = FALSE
    /\ UNCHANGED file

AuthNext ==
    \/ \E remember_me \in BOOLEAN, t \in Tokens : LoginBootstrap(remember_me, t)
    \/ \E username \in Usernames, password \in Passwords,
          remember_me \in BOOLEAN : Login(username, password, remember_me)
    \/ \E t \in Tokens, current \in Passwords, new \in Passwords :
          ChangePassword(t, current, new)
    \/ \E t \in Tokens \cup {NoToken} :
          ChangeRefused(t) \/ LogoutCall(t) \/ VerifyCall(t)
    \/ ReadOk
    \/ ReadFails
    \/ RereadFails
    \/ OpenFails
    \/ OpenTruncates
    \/ WriteAll
    \/ WriteShort
    \/ CloseLosesData
    \/ \E t \in Tokens : CheckLogin(t)
    \/ LoginRefused
    \/ CheckChange
    \/ WrongCurrent
    \/ TickCall
    \/ AuthRestart

AuthSpec == AuthInit /\ [][AuthNext]_authVars

-----------------------------------------------------------------------------

AuthTypeOK ==
    /\ TokenTypeOK
    /\ file \in Configs \cup {Unreadable}
    /\ initialized \in BOOLEAN
    /\ op \in Ops
    /\ phase \in {"idle", "init", "load", "check", "save"}
    /\ io \in {"none", "read", "open", "write", "reread"}
    /\ cfg \in Configs \cup {Unreadable}
    /\ pending \in Configs \cup {Unreadable}
    /\ reply \in {0, 200, 400, 401, 404, 500}
    /\ before \in Configs \cup {Unreadable}
    /\ faulted \in BOOLEAN
    /\ io = "none" <=> phase \in {"idle", "check"}
    /\ phase = "save" => op.kind = "change" /\ io \in {"open", "write"}

-----------------------------------------------------------------------------
(* Properties. *)

(* The password an operation must prove to know: that of the file when it  *)
(* began, or the default if there was none to read.                        *)
Proves(password) ==
    IF before \in Configs /\ ~faulted
    THEN password = before.password
    ELSE password \in {DefaultPassword} \cup
                         (IF before \in Configs THEN {before.password} ELSE {})

(* Apart from admin/admin, a token is handed out only for the user admin   *)
(* and only for the password that config.json holds at that moment         *)
(* (auth_service.c:316-329), whatever failed or restarted before.          *)
SessionNeedsCredentials ==
    [][issued' # issued =>
          \/ phase = "idle" /\ op'.kind = "login"
                /\ op'.username = Admin /\ op'.password = DefaultPassword
          \/ /\ op.username = Admin
             /\ file = [username |-> Admin, password |-> op.password]
      ]_authVars

(* Credentials written to config.json are either the new password of a     *)
(* caller that knew the old one, under the same user name, or the default, *)
(* and the latter only when the file could not be read                     *)
(* (auth_service.c:219-233, 361-381).                                      *)
PasswordNeedsKnowledge ==
    [][file' # file /\ file' \in Configs =>
          \/ /\ op.kind = "change"
             /\ file'.password = op.new
             /\ Proves(op.current)
             /\ before \in Configs /\ ~faulted
                   => file'.username = before.username
          \/ /\ file' = DefaultConfig
             /\ before \notin Configs \/ faulted
      ]_authVars

(* The answer to a change of the password against what is stored           *)
(* (web_api.c:248-266).  After 200 it is the new password, or none if a    *)
(* file access failed (fclose lost it).  After any other status it is what *)
(* was there before, and only when an access failed, or there was nothing  *)
(* to read, no password or the default one.                                *)
AnswerTellsStored ==
    phase = "idle" /\ op.kind = "change" =>
       IF reply = 200
       THEN \/ file \in Configs /\ file.password = op.new
            \/ file = Unreadable /\ faulted
       ELSE \/ file = before
            \/ /\ file \in {Unreadable, DefaultConfig}
               /\ faulted \/ before \notin Configs

=============================================================================
