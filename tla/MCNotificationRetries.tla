----------------------- MODULE MCNotificationRetries -----------------------
(* Small instances of NotificationRetries for TLC. *)
EXTENDS NotificationRetries

OneEach == {1}
TheOther == {2}

TwoProviders == {"smtp", "telegram"}

Twice == [providers |-> {"smtp", "telegram"}, max |-> 2, backoff |-> <<1, 2>>]
Thrice == [providers |-> {"smtp"}, max |-> 3, backoff |-> <<1>>]
TwoConfigurations == {Twice, Thrice}

AllEvents == {"reload", "crash", "store_error"}
=============================================================================
