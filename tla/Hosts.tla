------------------------------- MODULE Hosts --------------------------------
(***************************************************************************)
(* Host headers and the patterns they are matched with, in server-utils.   *)
(*                                                                         *)
(* A text is the sequence of its tokens: the separators the code splits at *)
(* ("://", "/", ":") and what is between them, with a token of its own for *)
(* every label of a name.  A Host is compared, matched and printed as its  *)
(* text, so here it is that text.                                          *)
(***************************************************************************)
EXTENDS Naturals, Sequences, FiniteSetsExt

CONSTANTS
  Lowercase,   \* function: tokens with capitals |-> the same in lower case
  PortNumber,  \* function: tokens that parse as u16 |-> how that number is printed
  None         \* an absent header, an absent list

Lower(token) == IF token \in DOMAIN Lowercase THEN Lowercase[token] ELSE token

to_lowercase(text) == [i \in DOMAIN text |-> Lower(text[i])]

Occurs(token, text) == \E i \in DOMAIN text : text[i] = token

(* The first part of a text split at sep, and what follows that separator. *)
Before(text, sep) ==
  IF Occurs(sep, text) THEN SubSeq(text, 1, Min({i \in DOMAIN text : text[i] = sep}) - 1) ELSE text

After(text, sep) == SubSeq(text, Len(Before(text, sep)) + 2, Len(text))

(***************************************************************************)
(* pre_process: no protocol, no path, lower case.                          *)
(***************************************************************************)
pre_process(host) ==
  LET data == IF Occurs("://", host) THEN Before(After(host, "://"), "://") ELSE host
  IN  to_lowercase(Before(data, "/"))

(***************************************************************************)
(* Host::parse and Host::new: a port that is a number is printed as one,   *)
(* any other stays the pattern it is.  A second colon ends the port.       *)
(***************************************************************************)
parse(text) ==
  LET hostname == pre_process(text)
      port == Before(After(hostname, ":"), ":")
  IN  IF ~Occurs(":", hostname) THEN hostname
      ELSE pre_process(Before(hostname, ":")) \o <<":">>
             \o (IF Len(port) = 1 /\ port[1] \in DOMAIN PortNumber
                 THEN <<PortNumber[port[1]]>> ELSE port)

(***************************************************************************)
(* Matcher: "*" stands for any tokens, letters match in either case.  What *)
(* is no valid glob, here an open bracket, is compared as it is.           *)
(***************************************************************************)
matches(pattern, text) ==
  LET p == to_lowercase(pattern)
      t == to_lowercase(text)
      glob[i \in 0 .. Len(p), j \in 0 .. Len(t)] ==
        CASE i = 0 -> j = 0
          [] i > 0 /\ p[i] = "*" -> glob[i - 1, j] \/ (j > 0 /\ glob[i, j - 1])
          [] OTHER -> j > 0 /\ p[i] = t[j] /\ glob[i - 1, j - 1]
  IN  IF Occurs("[", p) THEN p = t ELSE glob[Len(p), Len(t)]

(***************************************************************************)
(* is_host_valid: without a list every host is, with one a header must be  *)
(* there and match.                                                        *)
(***************************************************************************)
is_host_valid(host, allowed_hosts) ==
  \/ allowed_hosts = None
  \/ host # None /\ \E h \in allowed_hosts : matches(h, host)

(***************************************************************************)
(* update: the address the server listens on is allowed, and so are the    *)
(* other names of an unspecified or local one.                             *)
(***************************************************************************)
update(hosts, address) ==
  LET called(name) == <<name>> \o Tail(address)
      names == CASE address[1] = "0.0.0.0" -> {"0.0.0.0", "127.0.0.1", "localhost"}
                 [] address[1] = "127.0.0.1" -> {"127.0.0.1", "localhost"}
                 [] OTHER -> {address[1]}
  IN  IF hosts = None THEN None ELSE hosts \cup {parse(called(n)) : n \in names}
=============================================================================
