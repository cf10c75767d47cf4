----------------------------- MODULE MCDelivery ------------------------------
(***************************************************************************)
(* A campaign of each way to choose a source: FTP with its greeting and a  *)
(* request that ends the session, DTLS with a timeout for two and for      *)
(* three retransmissions, SIP, DICOM, SSH and a protocol without keepalive;*)
(* SIP and DICOM again with a timeout too short for a timer to be cut      *)
(* below it and for a delay of half of it, and no polling time.            *)
(* Hints of each kind, alone and together, with a class the seed has, one  *)
(* it lacks, and none.                                                     *)
(***************************************************************************)
EXTENDS Delivery

Hints(gap, mask, preferred) ==
    [NoHints EXCEPT !.gap = gap, !.mask = mask, !.preferred = preferred]

\* Hints about a class of the protocol.
Entries(class) ==
    {NoHints, Hints(0, {"retry"}, class), Hints(2, {"retry", "silence"}, NoClass),
     Hints(1000, {}, class), Hints(-3, {"keepalive", "silence"}, NoClass),
     Hints(2, {"retry", "keepalive"}, class)}

Feedbacks(class) == {Hints(2, {}, class), Hints(0, {"keepalive"}, NoClass)}

Campaign(protocol, exec_tmout, seeds, class) ==
    [protocol |-> protocol, exec_tmout |-> exec_tmout, poll_wait_msecs |-> 1,
     seeds |-> seeds, entries |-> Entries(class), feedbacks |-> Feedbacks(class)]

MCCampaigns ==
    {Campaign("ftp", 1000, {<<"user", "pass", "quit">>, <<"user", "", "noop">>}, "user"),
     Campaign("dtls12", 3500, {<<"clienthello", "", "clienthello">>}, "heartbeat"),
     Campaign("dtls12", 8000, {<<"clienthello">>, <<"", "finished">>}, "clienthello"),
     Campaign("sip", 1000, {<<"register", "invite">>, <<"invite", "bye">>}, "register"),
     Campaign("dicom", 1000, {<<"associate_rq", "pdata_tf", "release_rq">>, <<"">>}, "pdata_tf"),
     Campaign("ssh", 1000, {<<"identification", "kexinit">>}, "ignore"),
     [Campaign("sip", 200, {<<"invite", "bye">>}, "invite") EXCEPT !.poll_wait_msecs = 0],
     [Campaign("dicom", 5, {<<"pdata_tf", "pdata_tf">>}, "pdata_tf") EXCEPT !.poll_wait_msecs = 0],
     Campaign("daap", 1000, {<<"get", "get">>}, "get")}
=============================================================================
