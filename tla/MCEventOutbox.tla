--------------------------- MODULE MCEventOutbox ---------------------------
(* EventOutbox with two webhooks for one event, or with one.               *)
EXTENDS EventOutbox

CONSTANTS e1, s1, s2

TwoWebhooks == {<<e1, s1>>, <<e1, s2>>}
OneWebhook == {<<e1, s1>>}
=============================================================================
