---------------------------- MODULE MCRequestScope ----------------------------
(* Small instances of RequestScope for TLC. *)
EXTENDS RequestScope, TLC

CONSTANTS home, cabin

(* One skill for each way of being activated; the first two come late and  *)
(* go before those that are already in the prompt.                         *)
MCTriggers ==
    1 :> {"tool_error"} @@ 2 :> {"entity_lookup", "entity_unresolved"}
    @@ 3 :> {"multi_site_request", "phrase"}
MCChannels ==
    1 :> {"voice", "telegram"} @@ 2 :> {"voice"} @@ 3 :> {"voice", "telegram"}
=============================================================================
