-------------------------- MODULE EngineDownloads --------------------------
(***************************************************************************)
(* The download handshake of the headless engine                           *)
(* (evreos-engine-headless/src/lib.rs, DownloadEvent of evreos-engine): a  *)
(* download is announced under a token, the shell accepts it with an id of *)
(* its own and a destination or rejects it, and hears of it by events it   *)
(* polls.  Accepting runs the whole script of the download at once, so     *)
(* that what the shell hears may be long past.                             *)
(*                                                                         *)
(* The shell answers a token whenever it likes and as often as it likes,   *)
(* accepts with an id it has not used, and cancels a download it has       *)
(* accepted and not heard the end of.  A destination is the id's; names,   *)
(* sizes and causes are left out.                                          *)
(*                                                                         *)
(* The file system may refuse to write a file, which is then not there or  *)
(* there in part, and to remove one.  The engine ignores either refusal    *)
(* and says what it would have said: unwritten and unremoved remember the  *)
(* refusals.                                                               *)
(***************************************************************************)
EXTENDS Naturals, Sequences, SequencesExt

CONSTANTS
  Scripts,    \* the steps a download can be announced with
  MaxTokens,  \* bound on the downloads announced in a run
  NoId        \* the download has not been accepted

Steps == {"Progress", "Finished", "Failed"}
Outcomes == {"Finished", "Failed", "Cancelled"}
Tokens == 1..MaxTokens
Ids == 1..MaxTokens

ASSUME DownloadsAssumption ==
  /\ MaxTokens \in Nat
  /\ Scripts \subseteq Seq(Steps)
  /\ NoId \notin Nat

VARIABLES
  downloads,  \* active_downloads, by token
  events,     \* download_events
  files,      \* the ids whose destination holds a file
  heard,      \* what the shell has polled (history)
  unwritten,  \* the ids whose file was refused when it was written (history)
  unremoved   \* the ids whose file was refused to be removed (history)

refusals == <<unwritten, unremoved>>
handshakeVars == <<downloads, events, files, heard, refusals>>

Download == [steps : Scripts, accepted : Ids \cup {NoId}, rejected : BOOLEAN, cancelled : BOOLEAN]

\* A Requested event carries the token, every other the id.
Event == [kind : {"Requested", "Progress"} \cup Outcomes, of : Tokens]

HandshakeTypeOK ==
  /\ downloads \in Seq(Download) /\ Len(downloads) <= MaxTokens
  /\ events \in Seq(Event)
  /\ heard \in Seq(Event)
  /\ files \subseteq Ids /\ unwritten \subseteq Ids /\ unremoved \subseteq Ids

HandshakeInit ==
  /\ downloads = <<>> /\ events = <<>> /\ heard = <<>>
  /\ files = {} /\ unwritten = {} /\ unremoved = {}

Event1(kind, of) == [kind |-> kind, of |-> of]
UsedIds == {downloads[t].accepted : t \in DOMAIN downloads} \ {NoId}
CancelledIds == {downloads[t].accepted : t \in {d \in DOMAIN downloads : downloads[d].cancelled}}
Heard(id) == {heard[i].kind : i \in {j \in DOMAIN heard : heard[j].of = id}} \ {"Requested"}

\* Vec::retain of all but e: Remove of SequencesExt, as a recursive function.
Without(s, e) ==
  LET upTo[n \in 0..Len(s)] ==
        IF n = 0 THEN <<>>
        ELSE IF s[n] = e THEN upTo[n - 1]
        ELSE Append(upTo[n - 1], s[n])
  IN upTo[Len(s)]

\* A script that says nothing is a whole transfer.
StepsOf(download) == IF download.steps = <<>> THEN <<"Progress", "Finished">> ELSE download.steps

\* trigger_download_sequence, from a test or a navigation to a download's address
Trigger(steps) ==
  /\ Len(downloads) < MaxTokens
  /\ downloads' = Append(downloads, [steps |-> steps, accepted |-> NoId,
                                     rejected |-> FALSE, cancelled |-> FALSE])
  /\ events' = Append(events, Event1("Requested", Len(downloads) + 1))
  /\ UNCHANGED <<files, heard, refusals>>

Answered(token) == downloads[token].accepted # NoId \/ downloads[token].rejected

\* create_dir_all and write, whose refusal is ignored.
WriteFile(id) ==
  \/ files' = files \cup {id} /\ UNCHANGED unwritten
  \/ files' \in {files, files \cup {id}} /\ unwritten' = unwritten \cup {id}

\* remove_file, whose refusal is ignored.
RemoveFile(id) ==
  \/ files' = files \ {id} /\ UNCHANGED unremoved
  \/ id \in files /\ UNCHANGED files /\ unremoved' = unremoved \cup {id}

\* Mutant: the file is written when the shell hears of it, or never.
AcceptUnwritten(token, id) ==
  /\ ~Answered(token)
  /\ downloads' = [downloads EXCEPT ![token].accepted = id]
  /\ events' = events \o [i \in DOMAIN StepsOf(downloads[token]) |->
                            Event1(StepsOf(downloads[token])[i], id)]
  /\ UNCHANGED <<files, heard, refusals>>

\* Mutant: an accepted token is accepted again.
AcceptAgain(token, id) ==
  LET steps == StepsOf(downloads[token])
  IN /\ ~downloads[token].rejected
     /\ downloads' = [downloads EXCEPT ![token].accepted = id]
     /\ events' = events \o [i \in DOMAIN steps |-> Event1(steps[i], id)]
     /\ IF Contains(steps, "Finished") THEN WriteFile(id) ELSE UNCHANGED <<files, unwritten>>
     /\ UNCHANGED <<heard, unremoved>>

\* accept_download, which returns early on a token already rejected or accepted
Accept(token, id) ==
  LET steps == StepsOf(downloads[token])
  IN \/ Answered(token) /\ UNCHANGED handshakeVars
     \/ /\ ~Answered(token)
        /\ downloads' = [downloads EXCEPT ![token].accepted = id]
        /\ events' = events \o [i \in DOMAIN steps |-> Event1(steps[i], id)]
        /\ IF Contains(steps, "Finished") THEN WriteFile(id) ELSE UNCHANGED <<files, unwritten>>
        /\ UNCHANGED <<heard, unremoved>>

\* reject_download
Reject(token) ==
  /\ downloads' = [downloads EXCEPT ![token].rejected = TRUE]
  /\ events' = Without(events, Event1("Requested", token))
  /\ UNCHANGED <<files, heard, refusals>>

\* Mutant: a finish that waits to be polled is left there.
CancelLate(id) ==
  /\ downloads' = [t \in DOMAIN downloads |->
       [downloads[t] EXCEPT !.cancelled = @ \/ downloads[t].accepted = id]]
  /\ events' = Append(events, Event1("Cancelled", id))
  /\ RemoveFile(id)
  /\ UNCHANGED <<heard, unwritten>>

\* cancel_download, which says so whatever has happened and then takes the file
Cancel(id) ==
  /\ downloads' = [t \in DOMAIN downloads |->
       [downloads[t] EXCEPT !.cancelled = @ \/ downloads[t].accepted = id]]
  /\ events' = Append(Without(events, Event1("Finished", id)), Event1("Cancelled", id))
  /\ RemoveFile(id)
  /\ UNCHANGED <<heard, unwritten>>

\* poll_download_event
Poll ==
  /\ events # <<>>
  /\ heard' = Append(heard, Head(events))
  /\ events' = Tail(events)
  /\ UNCHANGED <<downloads, files, refusals>>

ShellAnswers(token) ==
  \/ Reject(token)
  \/ \E id \in Ids \ UsedIds : Accept(token, id)

ShellCancels(id) ==
  /\ id \in UsedIds \ CancelledIds
  /\ Heard(id) \cap Outcomes = {}
  /\ Cancel(id)

HandshakeNext ==
  \/ \E steps \in Scripts : Trigger(steps)
  \/ \E token \in DOMAIN downloads : ShellAnswers(token)
  \/ \E id \in Ids : ShellCancels(id)
  \/ Poll

HandshakeSpec == HandshakeInit /\ [][HandshakeNext]_handshakeVars

(***************************************************************************)
(* Properties                                                              *)
(***************************************************************************)

\* All the shell will have heard if nothing further happens.
Told == heard \o events

\* What is said last of a download is that it was cancelled.
EndsCancelled(told, id) ==
  \E i \in DOMAIN told :
    /\ told[i] = Event1("Cancelled", id)
    /\ \A j \in DOMAIN told : j > i /\ told[j].of = id => told[j].kind = "Requested"

FinishedIn(told) == {id \in Ids : \E i \in DOMAIN told : told[i] = Event1("Finished", id)}

(* A cancelled download never reports that it finished and is not spoken   *)
(* of after it has said Cancelled (conformance, 16), not even when it had  *)
(* finished before the shell cancelled, which had not heard of it; and it  *)
(* leaves no file unless the file system refused to remove it.             *)
CancelledIsFinal ==
  \A id \in CancelledIds :
    /\ EndsCancelled(Told, id) /\ id \notin FinishedIn(Told)
    /\ id \in files => id \in unremoved

(* A destination holds a file only if the shell has been told of its       *)
(* download that it finished, or will be, or if a cancelled file was not   *)
(* to be removed; and what is said to have finished is there, unless the   *)
(* file system refused it, which nobody is told.                           *)
FileMeansFinished ==
  /\ files \subseteq FinishedIn(Told) \cup unremoved
  /\ FinishedIn(Told) \subseteq files \cup unwritten

(* Of a download the shell has not accepted it hears that it is requested  *)
(* and nothing more, once it was rejected not even that; and what else it  *)
(* hears goes by the one id it accepted the download with, however often   *)
(* it answered.                                                            *)
OnlyTheAcceptedSpeak ==
  /\ \A i \in DOMAIN events : events[i].kind = "Requested" => ~downloads[events[i].of].rejected
  /\ \A i \in DOMAIN Told : Told[i].kind # "Requested" => Told[i].of \in UsedIds
=============================================================================
