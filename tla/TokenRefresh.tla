----------------------------- MODULE TokenRefresh -----------------------------
(***************************************************************************)
(* The owner token of the solar gateway: the timed program that renews it  *)
(* (host-services/enphase_token_refresh.py) and the start of the bridge    *)
(* that uses it (host-services/enphase_bridge.py), which systemd starts    *)
(* again whenever it ends.  The two share the token file and nothing else. *)
(*                                                                         *)
(* A run of the program logs in, fetches a token, writes it beside the     *)
(* file, puts it in the file's place and restarts the bridge.  Whatever    *)
(* fails ends the run, the next begins half a day later; and a run may be  *)
(* cut short at any step.  systemd has one run at a time.                  *)
(*                                                                         *)
(* Tokens are numbered in the order the portal issues them.                *)
(***************************************************************************)
EXTENDS Integers

CONSTANT MaxTokens   \* bound of what the portal issues

VARIABLES
    renewal,       \* the last step that is done: Resting, "login", "fetch", "write", "replace"
    issued,        \* the newest token of the portal
    beside, token, \* the temporary file and the token file
    carried,       \* the token the bridge sends, Down when it does not run
    expired,       \* the newest token the gateway refuses
    shown,         \* the status the bridge publishes
    missed         \* a run was cut short, or its restart failed, after the replacement

tokenVars == <<renewal, issued, beside, token, carried, expired, shown, missed>>

Resting == "resting"
NoToken == 0
Torn == -1        \* a file whose writing was cut short
Down == -2

(***************************************************************************)
(* A run of the program.  The answers of the portal are read first: a page *)
(* without a session, or a token too short to be one, is a failure.        *)
(***************************************************************************)
LoginEntrez ==
    /\ renewal = Resting /\ renewal' = "login"
    /\ UNCHANGED <<issued, beside, token, carried, expired, shown, missed>>

FetchToken ==
    /\ renewal = "login" /\ renewal' = "fetch"
    /\ issued < MaxTokens /\ issued' = issued + 1
    /\ UNCHANGED <<beside, token, carried, expired, shown, missed>>

WriteBeside ==
    /\ renewal = "fetch" /\ renewal' = "write"
    /\ beside' = issued
    /\ UNCHANGED <<issued, token, carried, expired, shown, missed>>

Replace ==
    /\ renewal = "write" /\ renewal' = "replace"
    /\ token' = beside /\ beside' = NoToken
    /\ UNCHANGED <<issued, carried, expired, shown, missed>>

RestartService ==
    /\ renewal = "replace" /\ renewal' = Resting
    /\ carried' = token /\ missed' = FALSE
    /\ UNCHANGED <<issued, beside, token, expired, shown>>

\* The portal, the group of the file or systemctl says no.
RunFails ==
    /\ renewal # Resting /\ renewal' = Resting
    /\ missed' = (missed \/ (renewal = "replace" /\ carried # token))
    /\ UNCHANGED <<issued, beside, token, carried, expired, shown>>

\* Mutant: the token is written in its place.
CutShortInPlace ==
    /\ renewal # Resting /\ renewal' = Resting
    /\ \/ renewal = "fetch" /\ token' = Torn
       \/ UNCHANGED token
    /\ missed' = (missed \/ (renewal = "replace" /\ carried # token))
    /\ UNCHANGED <<issued, beside, carried, expired, shown>>

CutShort ==
    /\ renewal # Resting /\ renewal' = Resting
    /\ \/ renewal = "fetch" /\ beside' = Torn
       \/ UNCHANGED beside
    /\ missed' = (missed \/ (renewal = "replace" /\ carried # token))
    /\ UNCHANGED <<issued, token, carried, expired, shown>>

(***************************************************************************)
(* The bridge: it ends without a token, and keeps the one it began with.   *)
(***************************************************************************)
ReadEnphaseToken ==
    /\ carried = Down
    /\ token # NoToken
    /\ carried' = token /\ missed' = FALSE
    /\ UNCHANGED <<renewal, issued, beside, token, expired, shown>>

BridgeEnds ==
    /\ carried # Down /\ carried' = Down /\ shown' = "error"
    /\ UNCHANGED <<renewal, issued, beside, token, expired, missed>>

\* A refused token is told and used again.
GetJson ==
    /\ carried # Down
    /\ shown' = IF carried > expired THEN "online" ELSE "error"
    /\ UNCHANGED <<renewal, issued, beside, token, carried, expired, missed>>

TokenExpires ==
    /\ expired < issued /\ expired' = expired + 1
    /\ UNCHANGED <<renewal, issued, beside, token, carried, shown, missed>>

TokenInit ==
    /\ renewal = Resting /\ issued = NoToken
    /\ beside = NoToken /\ token = NoToken
    /\ carried = Down /\ expired = NoToken
    /\ shown = "error" /\ missed = FALSE

TokenNext ==
    \/ LoginEntrez \/ FetchToken \/ WriteBeside \/ Replace \/ RestartService
    \/ RunFails \/ CutShort
    \/ ReadEnphaseToken \/ BridgeEnds \/ GetJson \/ TokenExpires

TokenSpec == TokenInit /\ [][TokenNext]_tokenVars

(***************************************************************************)
(* Properties.                                                             *)
(***************************************************************************)

\* Wherever a run ends, the token file has a whole token or none, so that
\* the bridge can start with it, and a bridge that is refused is refused for
\* a token that is no worse than the file's: only between the replacement
\* and the restart, or after one that failed or never came, is there a
\* better one that it does not use (enphase_token_refresh.py:178, :192).
TokenIsUsed ==
    /\ token \in NoToken..issued
    /\ carried # Down => carried \in 1..issued
    /\ carried # Down /\ carried # token => carried < token /\ (renewal = "replace" \/ missed)
=============================================================================
