----------------------------- MODULE RateLimitKey ------------------------------
(***************************************************************************)
(* Whose requests are counted together (app/main.py, get_limiter_key).     *)
(* Every proxy appends the peer it has been called by to X-Forwarded-For,  *)
(* and what is left of that is whatever the client has sent.  An entry is  *)
(* an address; entries that are blank are dropped when the header is split *)
(* at its commas, and are not in parts.                                    *)
(***************************************************************************)
EXTENDS Integers, Sequences

(* The hops-th entry from the right, the first one if there are fewer, and *)
(* the peer of the socket if there is none or no proxy is trusted.         *)
LimiterKey(hops, parts, peer) ==
  IF hops > 0 /\ parts # << >>
  THEN LET idx == Len(parts) - hops
       IN  parts[1 + (IF idx > 0 THEN idx ELSE 0)]
  ELSE peer
===============================================================================
