------------------------- MODULE MCNotificationManager -------------------------
(* Small instances of NotificationManager for TLC. *)
EXTENDS NotificationManager

\* Delayed retries on, one webhook.
OneWebhook == {[later |-> TRUE, enabled |-> {"generic_webhook"}]}

\* The default configuration: no delayed retries.
ImmediateOnly == {[later |-> FALSE, enabled |-> {"windows", "generic_webhook"}]}

\* The user turns off delayed retries, or the webhook.
Changing == {[later |-> TRUE, enabled |-> {"generic_webhook"}],
             [later |-> FALSE, enabled |-> {"generic_webhook"}],
             [later |-> TRUE, enabled |-> {}]}

\* The user moves from one webhook to the other.
OneOfTwoWebhooks == {[later |-> TRUE, enabled |-> {"teams_webhook"}],
                     [later |-> TRUE, enabled |-> {"generic_webhook"}]}

\* That move made once, in a process that goes on: for what may wait for ever.
Moved ==
    /\ Next /\ accepting'
    /\ "teams_webhook" \in settings'.enabled => "generic_webhook" \notin settings.enabled
MovedSpec == Init /\ [][Moved]_vars /\ Fairness
================================================================================
