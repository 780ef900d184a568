---------------------------- MODULE PrivateReader ----------------------------
(* The read-only reader of the Kraken account (kraken_private_read.py):     *)
(* which mode and which credentials get a reader, what a request is allowed  *)
(* to ask, the nonce that is on disk before a request leaves, and what is    *)
(* made of an answer.  Callers share one reader; the process may die, the    *)
(* wall clock may be set, a request may arrive after its caller gave up.     *)
(* Kraken takes a request only if its nonce is above all it has seen.        *)
EXTENDS Integers, Sequences, SequencesExt, FiniteSetsExt

CONSTANTS
    Callers,
    Modes,              \* the modes asked for
    Requests,           \* [endpoint, parameters]: parameters maps a name to a kind of value
    Answers(_),         \* what Kraken can answer to an endpoint
    Environments,       \* [environ, file]: where credentials are found
    WallReadings,              \* the values of the wall clock
    MAX_NONCE, MaxReaderFaults

VARIABLES
    reader,     \* [mode, locked_by], or the reason there is none
    nonce_file, \* NoFile, Corrupt, or the last nonce
    wall,
    caller,     \* [at, request, nonce, answer, result]
    request_lock,   \* the callers inside the lock: at most one
    wire,       \* nonces of requests on their way
    seen,       \* the highest nonce Kraken has taken
    environment, reader_faults
readerVars == <<reader, nonce_file, wall, caller, request_lock, wire, seen, environment, reader_faults>>

NoFile == -1
Corrupt == -2
NotOpen == [mode |-> "none", locked_by |-> "no"]
Waiting == [at |-> "idle", request |-> <<>>, nonce |-> 0, answer |-> <<>>, result |-> "none"]

-----------------------------------------------------------------------------
(* The modes in their order, and the one from which the account may be read. *)
TradingMode == <<"ANALYSIS_ONLY", "RETROSPECTIVE", "PAPER", "SHADOW_LIVE",
                 "MICRO_LIVE", "CONSTRAINED_LIVE", "APPROVED_ENVELOPE">>
rank(mode) == CHOOSE i \in DOMAIN TradingMode : TradingMode[i] = mode
allows_private_reads(mode) == mode \in Range(TradingMode) /\ rank(mode) >= rank("SHADOW_LIVE")

(* Credentials: both variables, or else the file; a value is "good",         *)
(* "empty", "bad" (not a key, not base64) or "absent".                       *)
credentials_from_values(key, secret) ==
    CASE "malformed" \in {key, secret} -> "credentials_malformed"
      [] "empty" \in {key, secret} -> "credentials_empty"
      [] key = "bad" -> "api_key_malformed"
      [] secret = "bad" -> "api_secret_not_base64"
      [] OTHER -> "good"

load_credentials(e) ==
    LET given == {e.environ.key, e.environ.secret} \ {"absent"}
        in_file == {e.file.key, e.file.secret}
    IN CASE given # {} /\ "absent" \in {e.environ.key, e.environ.secret} -> "credentials_incomplete"
         [] given # {} /\ "absent" \notin {e.environ.key, e.environ.secret} ->
              credentials_from_values(e.environ.key, e.environ.secret)
         [] given = {} /\ e.file.state # "readable" -> e.file.state
         [] given = {} /\ e.file.state = "readable" /\ "absent" \in in_file -> "credentials_incomplete"
         [] OTHER -> credentials_from_values(e.file.key, e.file.secret)

(* The only factory: the mode, the credentials, a look at the nonce file.    *)
open_private_reader(mode) ==
    /\ reader.mode = "none"
    /\ allows_private_reads(mode)
    /\ load_credentials(environment) = "good"
    /\ nonce_file # Corrupt
    /\ reader' = [mode |-> mode, locked_by |-> "no"]
    /\ UNCHANGED <<nonce_file, wall, caller, request_lock, wire, seen, environment, reader_faults>>

-----------------------------------------------------------------------------
(* What may be asked.                                                        *)
OrderFilters == [trades |-> "bool", userref |-> "int32", cl_ord_id |-> "name"]
PARAMETER_ALLOWLIST ==
    [Balance |-> <<>>,
     TradeBalance |-> [asset |-> "name"],
     TradeVolume |-> [pair |-> "names"],
     OpenOrders |-> OrderFilters,
     ClosedOrders |-> [trades |-> "bool", userref |-> "int32", cl_ord_id |-> "name", start |-> "time",
                       end |-> "time", ofs |-> "offset", closetime |-> "word"],
     QueryOrders |-> [txid |-> "txids", trades |-> "bool", userref |-> "int32"]]
REQUIRED_PARAMETERS(endpoint) == IF endpoint = "QueryOrders" THEN {"txid"} ELSE {}

(* Kraken refuses a nonce for one reason: it has taken a higher one.  The     *)
(* wall clock counts from an epoch in the past.                              *)
ASSUME ReaderAssumption ==
    /\ WallReadings \subseteq Nat
    /\ \A endpoint \in DOMAIN PARAMETER_ALLOWLIST : \A a \in Answers(endpoint) : "INVALID_NONCE" \notin a.errors

resolve_endpoint(name) == name \in DOMAIN PARAMETER_ALLOWLIST
encode_parameters(endpoint, given) ==
    LET allowed == PARAMETER_ALLOWLIST[endpoint]
    IN /\ \A name \in DOMAIN given : name \in DOMAIN allowed /\ given[name] = allowed[name]
       /\ REQUIRED_PARAMETERS(endpoint) \subseteq DOMAIN given

(* What a result must hold.  Money is a decimal in a string ("text"), never  *)
(* a JSON number; a field that may be absent is then None.                   *)
Money(names) == [n \in names |-> "text"]
Fields(endpoint) ==
    LET order == [status |-> "status", side |-> "side", pair |-> "name", ordertype |-> "name", opentm |-> "number",
                  price |-> "text", vol |-> "text", vol_exec |-> "text", cost |-> "text", fee |-> "text"]
        maybe == [closetm |-> "number", userref |-> "number", cl_ord_id |-> "name", trades |-> "names", average |-> "text"]
    IN CASE endpoint = "Balance" -> [must |-> Money({"amount"}), may |-> <<>>]
         [] endpoint = "TradeBalance" ->
              [must |-> Money({"eb", "tb"}), may |-> Money({"m", "n", "c", "v", "e", "mf", "ml", "uv"})]
         [] endpoint = "TradeVolume" ->
              [must |-> [currency |-> "name", volume |-> "text", fee |-> "text"],
               may |-> Money({"maker_fee", "minfee", "maxfee", "nextfee", "nextvolume", "tiervolume"})]
         [] endpoint = "ClosedOrders" ->
              [must |-> [n \in DOMAIN order \cup {"count"} |-> IF n = "count" THEN "number" ELSE order[n]], may |-> maybe]
         [] OTHER -> [must |-> order, may |-> maybe]

interpret(endpoint, result) ==
    LET f == Fields(endpoint)
    IN /\ \A n \in DOMAIN f.must : n \in DOMAIN result /\ result[n] = f.must[n]
       /\ \A n \in DOMAIN f.may : n \in DOMAIN result => result[n] = f.may[n]

AUTH_ERROR_CODES == {"INVALID_KEY", "INVALID_SIGNATURE", "INVALID_NONCE", "PERMISSION_DENIED"}
ERROR_PRECEDENCE == <<"INVALID_KEY", "INVALID_SIGNATURE", "INVALID_NONCE", "PERMISSION_DENIED",
                      "RATE_LIMITED", "SERVICE_UNAVAILABLE", "EXCHANGE_ERROR">>
classify_kraken_errors(errors) ==
    LET found == {i \in DOMAIN ERROR_PRECEDENCE : ERROR_PRECEDENCE[i] \in errors \ {"WARNING"}}
    IN IF found = {} THEN "none" ELSE ERROR_PRECEDENCE[Min(found)]

(* The order in which an answer is judged.                                   *)
judge(endpoint, a) ==
    IF a.status \in 300..399 THEN "REDIRECT_REFUSED"
    ELSE IF a.status # 200 THEN "HTTP_STATUS"
    ELSE IF a.size > 1 THEN "TOO_LARGE"
    ELSE IF a.body = "text" THEN "NOT_JSON"
    ELSE IF a.body # "object" THEN "MALFORMED_RESPONSE"
    ELSE IF classify_kraken_errors(a.errors) # "none" THEN classify_kraken_errors(a.errors)
    ELSE IF interpret(endpoint, a.result) THEN "ok" ELSE "MALFORMED_RESPONSE"

-----------------------------------------------------------------------------
Set(c, at) == caller' = [caller EXCEPT ![c].at = at]
Done(c, result) == caller' = [caller EXCEPT ![c] = [Waiting EXCEPT !.result = result]]

(* read: nothing is reserved or sent for what is not allowed.                *)
read(c, q) ==
    /\ reader.mode # "none"
    /\ caller[c].at = "idle"
    /\ IF ~resolve_endpoint(q.endpoint) THEN Done(c, "ENDPOINT_REFUSED")
       ELSE IF ~encode_parameters(q.endpoint, q.parameters) THEN Done(c, "PARAMETER_REFUSED")
       ELSE caller' = [caller EXCEPT ![c] = [Waiting EXCEPT !.at = "lock", !.request = <<q.endpoint>>]]
    /\ UNCHANGED <<reader, nonce_file, wall, request_lock, wire, seen, environment, reader_faults>>

acquire(c) ==
    /\ caller[c].at = "lock"
    /\ request_lock = {}
    /\ IF reader.locked_by # "no" THEN Done(c, "LOCKED") /\ UNCHANGED request_lock
       ELSE Set(c, "reserve") /\ request_lock' = {c}
    /\ UNCHANGED <<reader, nonce_file, wall, wire, seen, environment, reader_faults>>

Unreserved(c) ==
    /\ Done(c, "UNAVAILABLE") /\ request_lock' = {}
    /\ UNCHANGED <<reader, nonce_file, wall, wire, seen, environment, reader_faults>>

(* The nonce is on disk before the request leaves; a nonce that cannot be    *)
(* read, is past its limit, or cannot be written, sends nothing.             *)
last == IF nonce_file = NoFile THEN 0 ELSE nonce_file

(* Mutant: the nonce is the clock alone.                                     *)
next_nonce_Clock == wall

next_nonce == Max({last + 1, wall})
write(value) == nonce_file' = value      \* a temporary file, synced, that replaces the old one
reserve(c) ==
    /\ caller[c].at = "reserve"
    /\ \/ Unreserved(c)
       \/ /\ nonce_file # Corrupt
          /\ next_nonce <= MAX_NONCE
          /\ write(next_nonce)
          /\ caller' = [caller EXCEPT ![c].at = "send", ![c].nonce = next_nonce]
          /\ UNCHANGED <<reader, wall, request_lock, wire, seen, environment, reader_faults>>

send(c) ==
    /\ caller[c].at = "send"
    /\ wire' = wire \cup {caller[c].nonce}
    /\ Set(c, "wait")
    /\ UNCHANGED <<reader, nonce_file, wall, request_lock, seen, environment, reader_faults>>

(* Kraken takes requests in the order they arrive.                           *)
Arrive(n) ==
    /\ n \in wire
    /\ wire' = wire \ {n}
    /\ seen' = Max({seen, n})
    /\ \/ \E c \in Callers :
            /\ caller[c].at = "wait" /\ caller[c].nonce = n
            /\ \E a \in Answers(caller[c].request[1]) :
                 caller' = [caller EXCEPT ![c].at = "answered",
                   ![c].answer = <<IF n > seen THEN a ELSE [a EXCEPT !.status = 200, !.errors = {"INVALID_NONCE"}]>>]
       \/ /\ \A c \in Callers : caller[c].at # "wait" \/ caller[c].nonce # n
          /\ UNCHANGED caller
    /\ UNCHANGED <<reader, nonce_file, wall, request_lock, environment, reader_faults>>

(* The transport gives up: the request may still be on its way.              *)
transport_failure(c, code) ==
    /\ caller[c].at = "wait"
    /\ Done(c, code) /\ request_lock' = {}
    /\ UNCHANGED <<reader, nonce_file, wall, wire, seen, environment, reader_faults>>

answer(c) ==
    /\ caller[c].at = "answered"
    /\ LET code == judge(caller[c].request[1], caller[c].answer[1])
       IN /\ reader' = [reader EXCEPT !.locked_by = IF code \in AUTH_ERROR_CODES THEN code ELSE @]
          /\ Done(c, code)
    /\ request_lock' = {}
    /\ UNCHANGED <<nonce_file, wall, wire, seen, environment, reader_faults>>

(* The process ends; the clock is set; the nonce file is damaged.            *)
ReaderFault == reader_faults < MaxReaderFaults /\ reader_faults' = reader_faults + 1
ProcessEnds ==
    /\ reader.mode # "none" /\ ReaderFault
    /\ reader' = NotOpen
    /\ caller' = [c \in Callers |-> Waiting]
    /\ request_lock' = {}
    /\ UNCHANGED <<nonce_file, wall, wire, seen, environment>>
SetClock(t) ==
    /\ t # wall /\ ReaderFault
    /\ wall' = t
    /\ UNCHANGED <<reader, nonce_file, caller, request_lock, wire, seen, environment>>
Damage ==
    /\ nonce_file >= 0 /\ ReaderFault
    /\ nonce_file' = Corrupt
    /\ UNCHANGED <<reader, wall, caller, request_lock, wire, seen, environment>>

ReaderInit ==
    /\ reader = NotOpen
    /\ nonce_file = NoFile
    /\ wall \in WallReadings
    /\ caller = [c \in Callers |-> Waiting]
    /\ request_lock = {} /\ wire = {} /\ seen = 0
    /\ environment \in Environments
    /\ reader_faults = 0

ReaderNext ==
    \/ \E mode \in Modes : open_private_reader(mode)
    \/ \E c \in Callers :
         \/ \E q \in Requests : read(c, q)
         \/ acquire(c) \/ reserve(c) \/ send(c) \/ answer(c)
         \/ \E code \in {"TIMEOUT", "TRANSPORT_FAILED"} : transport_failure(c, code)
    \/ \E n \in wire : Arrive(n)
    \/ ProcessEnds \/ Damage
    \/ \E t \in WallReadings : SetClock(t)

ReaderSpec == ReaderInit /\ [][ReaderNext]_readerVars

-----------------------------------------------------------------------------
(* Only this program uses the key.  Then Kraken never refuses a nonce that a *)
(* caller waits for, whatever the clock does and however often the process   *)
(* dies; what is on the wire or was taken is never above the nonce on disk;  *)
(* and a reader that Kraken refused sends nothing more.                      *)
NonceInStep ==
    /\ reader.locked_by # "INVALID_NONCE"
    /\ nonce_file # Corrupt => \A n \in wire \cup {seen} : n <= last
    /\ \A c \in Callers : caller[c].at \in {"reserve", "send", "wait", "answered"} =>
                             request_lock = {c} /\ reader.locked_by = "no"

(* No reader below SHADOW_LIVE, and none without good credentials.           *)
ReaderAllowed ==
    reader.mode # "none" => rank(reader.mode) >= 4 /\ load_credentials(environment) = "good"

(* The reader of the real account (NonceStore.reserve, read,                 *)
(* open_private_reader): its nonces are in step with Kraken across crashes,  *)
(* a clock set back and answers that never came; one request is under way at *)
(* a time; and it exists only in a mode that allows it.                      *)
ReaderInv == NonceInStep /\ ReaderAllowed
=============================================================================
