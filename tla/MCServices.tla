------------------------------ MODULE MCServices ------------------------------
(***************************************************************************)
(* Three services that share nothing: the downloader, the chat route and   *)
(* the update poller.  A behaviour is one of them; the others rest in      *)
(* their initial states, in which nothing they are fair to is enabled.     *)
(*                                                                         *)
(* The downloader has a file of three chunks in two versions: long enough  *)
(* for a resume in the middle, one at the end and a mix of two versions.   *)
(* The route has three exchanges: one streaming, one queued, one arriving. *)
(* The poller is started twice; the first start checks up to three times,  *)
(* enough for a release to be found, withdrawn and found again.            *)
(***************************************************************************)
EXTENDS Downloader, Gateway, UpdatePoller

CONSTANTS p1, p2

VARIABLE part

allVars == <<part, downloadVars, vars, pollVars>>

MaxPollsDef == [p \in Poller |-> IF p = p1 THEN 3 ELSE 1]

ServicesInit ==
  /\ part \in {"download", "gateway", "poller"}
  /\ DownloadInit /\ (part # "download" => served = Expected)
  /\ Init /\ PollInit

ServicesNext ==
  \/ part = "download" /\ DownloadNext /\ UNCHANGED <<part, vars, pollVars>>
  \/ part = "gateway" /\ Next /\ UNCHANGED <<part, downloadVars, pollVars>>
  \/ part = "poller" /\ PollNext /\ UNCHANGED <<part, downloadVars, vars>>

ServicesSpec ==
  /\ ServicesInit /\ [][ServicesNext]_allVars
  /\ DownloadFairness /\ GatewayFairness /\ PollFairness
=============================================================================
