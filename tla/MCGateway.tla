------------------------------- MODULE MCGateway -------------------------------
(* Backends that answer 200 or 503, or a code without a name; every method, *)
(* path and body with a good key, and every combination of credentials on   *)
(* one path.                                                                *)
EXTENDS Gateway

CONSTANT none

MCKnownCodes == {200, 503}

MCRequests ==
  {r \in Request :
     /\ r.headers \in {{}, {"cookie", "te", "host", "accept"}}
     /\ \/ r.authorization = "key" /\ r.xApiKey = None
        \/ /\ r.command = "POST" /\ r.path = "other" /\ r.body = "json"
           /\ r.headers # {}}

MCQuotas == {"minute", "day"}
===============================================================================
