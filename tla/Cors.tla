-------------------------------- MODULE Cors --------------------------------
(***************************************************************************)
(* The CORS checks of server-utils: which origin and which headers of a    *)
(* request are allowed, and what the response says about them.             *)
(***************************************************************************)
EXTENDS Hosts

(* Header names every client may send, in lower case. *)
ALWAYS_ALLOWED_HEADERS ==
  {"accept", "accept-language", "access-control-allow-origin", "access-control-request-headers",
   "content-language", "content-type", "host", "origin", "content-length", "connection",
   "user-agent"}

(* AllowCors: what is put into the response, if anything. *)
NotRequired == [cors |-> "NotRequired", value |-> None]
Invalid == [cors |-> "Invalid", value |-> None]
Ok(value) == [cors |-> "Ok", value |-> value]

(* AccessControlAllowOrigin: the wildcards, or an origin's text. *)
AnyOrigin == <<"*">>
NullOrigin == <<"null">>

(***************************************************************************)
(* Origin::parse, printed by to_string: the protocol in lower case, http   *)
(* when there is none, and the host as Host::parse normalises it.          *)
(***************************************************************************)
parse_origin(data) ==
  LET proto == IF Occurs("://", data) THEN to_lowercase(Before(data, "://")) ELSE <<"http">>
      hostname == IF Occurs("://", data) THEN Before(After(data, "://"), "://") ELSE data
  IN  proto \o <<"://">> \o parse(hostname)

(* The host of a parsed origin. *)
host_of(origin) == After(parse_origin(origin), "://")

(* An entry of the list of allowed origins, from the text it is configured with. *)
allow_origin_from(s) ==
  CASE s \in {<<"all">>, <<"*">>, <<"any">>} -> AnyOrigin
    [] s = <<"null">> -> NullOrigin
    [] OTHER -> parse_origin(s)

(***************************************************************************)
(* A request of the server's own pages: the origin ends with the Host      *)
(* header and, parsed, has exactly that host.                              *)
(***************************************************************************)
SameOrigin(origin, host) ==
  /\ host # None
  /\ Len(host) <= Len(origin)
  /\ SubSeq(origin, Len(origin) - Len(host) + 1, Len(origin)) = host
  /\ host_of(origin) = host

(***************************************************************************)
(* get_cors_allow_origin: the null origin has to be listed as such, any    *)
(* other has to match an entry and is answered with its own text.          *)
(***************************************************************************)
get_cors_allow_origin(origin, host, allowed) ==
  CASE origin = None -> NotRequired
    [] origin # None /\ SameOrigin(origin, host) -> NotRequired
    [] OTHER ->
         LET answer == IF origin = NullOrigin THEN NullOrigin ELSE parse_origin(origin)
             listed == IF origin = NullOrigin THEN NullOrigin \in allowed
                       ELSE \E a \in allowed : a = AnyOrigin \/ (a # NullOrigin /\ matches(a, origin))
         IN  IF allowed = None \/ listed THEN Ok(answer) ELSE Invalid

(***************************************************************************)
(* get_cors_allow_headers: with a list (only, else None) every header that *)
(* was sent must be on it; of those the client asks for, the listed ones   *)
(* are answered, and asking only for others is an error.                   *)
(***************************************************************************)
get_cors_allow_headers(headers, requested_headers, only) ==
  LET allowed(name) ==
        \/ only = None
        \/ Lower(name) \in {Lower(h) : h \in only} \cup ALWAYS_ALLOWED_HEADERS
      kept == {name \in requested_headers : allowed(name)}
  IN  IF (\E name \in headers : ~allowed(name)) \/ (kept = {} /\ requested_headers # {})
      THEN Invalid
      ELSE IF kept # {} THEN Ok(kept) ELSE NotRequired
=============================================================================
