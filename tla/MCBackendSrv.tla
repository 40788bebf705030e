---------------------------- MODULE MCBackendSrv ----------------------------
(***************************************************************************)
(* Four data requests, one api request and one auth check for two slots,   *)
(* each with a subscriber of its own; two of the data requests have the    *)
(* same requestId.                                                         *)
(*                                                                         *)
(* And, without 401s, seven data requests and an api request for four      *)
(* slots: one subscriber has two requests, another three.  The first of    *)
(* each may be cancelled by a request with its requestId.                  *)
(***************************************************************************)
EXTENDS BackendSrv

MCRequests == 1..6
MCDataRequests == 1..4
MCAuthRequests == {6}
MCRequestIdOf == <<"a", None, "a", None, None, None>>
MCConsumerOf == [r \in MCRequests |-> r]

GroupRequests == 1..8
GroupDataRequests == 1..7
GroupRequestIdOf == <<"a", "a", None, "b", None, None, None, "b">>
GroupConsumerOf == <<1, 2, 1, 4, 4, 4, 7, 8>>

=============================================================================
