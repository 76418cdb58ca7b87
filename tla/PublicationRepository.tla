----------------------- MODULE PublicationRepository -----------------------
(* One document, its publisher P and a subscriber S                         *)
(* (openpeer/stack/cpp: stack_PublicationRepository.cpp,                    *)
(* stack_Publication.cpp, and the choice of what a message carries in       *)
(* stack/message/cpp/stack_message_MessageHelper.cpp).                      *)
(*                                                                          *)
(* P keeps the document with the differences between its versions, and what *)
(* it believes S to hold.  S keeps the document as it was last told of it,  *)
(* fetches it, one fetch at a time, and has what it holds brought up to     *)
(* date by differences.  Messages arrive in order; those on their way are   *)
(* lost with the connection.  "text" is the version whose text a document   *)
(* has, and Torn that of one made by a difference from another version.     *)
EXTENDS Integers, Sequences, FiniteSets, FiniteSetsExt

CONSTANTS
  MaxVersion,      (* bound: versions of the document                       *)
  MaxFetches,      (* bound: fetches by S                                   *)
  MaxDisconnects,  (* bound: connections lost                               *)
  MaxNotices       (* bound: messages to S under way when P publishes       *)

VARIABLES
  source,          (* the document at P, the same object in its cache       *)
  believed,        (* PeerCache: the version that S is believed to hold     *)
  incoming,        (* P has a subscription of S                             *)
  held,            (* mCachedRemotePublications of S                        *)
  expires,         (* the ends whose entries for the other one expire       *)
  pending,         (* mPendingFetchers of S                                 *)
  fetched,         (* history: what each fetch ended with                   *)
  told,            (* the version the subscriber at S was last told of      *)
  toP, toS,        (* messages on their way                                 *)
  link,            (* the connection, and the ends that heard of its loss   *)
  disconnects      (* bounded                                               *)

publisherVars == <<source, believed, incoming>>
subscriberVars == <<held, pending, fetched, told>>
netVars == <<toP, toS>>
linkVars == <<expires, link, disconnects>>
publicationVars == <<publisherVars, subscriberVars, netVars, linkVars>>

NoDocument == [version |-> 0, text |-> 0]
Torn == -1

Ended(f, outcome, document) == [wanted |-> f.wanted, outcome |-> outcome, document |-> document]

-----------------------------------------------------------------------------
(* What a message carries *)

(* getDiffs: the difference from a version on, or the whole document when   *)
(* not every step of it is known.                                           *)
Carried(from) ==
  [from |-> IF from # 0 /\ from..source.version \subseteq source.diffs /\ from <= source.version
            THEN from ELSE 0,
   to |-> source.version]

MetaDataOnly == [from |-> -1, to |-> source.version]

(* getNextVersionToNotifyAboutAndMarkNotified: what there is room for is    *)
(* counted as received.                                                     *)
NextToNotify(fits) ==
  IF ~fits \/ (believed # 0 /\ believed >= source.version) THEN MetaDataOnly
  ELSE Carried(IF believed = 0 THEN 0 ELSE believed + 1)

BelievedAfter(document) ==
  IF document.from = -1 THEN believed ELSE document.to

Send(channel, message) == IF link.up THEN Append(channel, message) ELSE channel

-----------------------------------------------------------------------------
(* P *)

(* IPublication::update with a whole document, or with a difference, which  *)
(* is kept only in a row with the ones before it.                           *)
Update(diff) ==
  /\ source.version < MaxVersion
  /\ LET v == source.version + 1 IN
     source' = [source EXCEPT
       !.version = v,
       !.diffs = IF ~diff THEN {} ELSE IF source.version \in @ THEN @ \cup {v} ELSE {v}]
  /\ UNCHANGED <<believed, incoming, subscriberVars, netVars, linkVars>>

(* PeerSubscriptionIncoming::notifyUpdated *)
Notified(channel, fits) ==
  LET document == NextToNotify(fits) IN
  /\ believed' = BelievedAfter(document)
  /\ toS' = Send(channel, [kind |-> "notify", f |-> 0, document |-> document])

(* publish() of a document whose place is here *)
Publish ==
  /\ Len(toS) < MaxNotices
  /\ source' = [source EXCEPT !.published = TRUE]
  /\ IF incoming THEN \E fits \in BOOLEAN : Notified(toS, fits)
     ELSE UNCHANGED <<believed, toS>>
  /\ UNCHANGED <<incoming, subscriberVars, toP, linkVars>>

(* PeerSubscribeRequest, and its answer *)
OnSubscribe ==
  /\ toP # << >> /\ Head(toP).kind = "subscribe"
  /\ toP' = Tail(toP)
  /\ incoming' = TRUE
  /\ IF source.published THEN \E fits \in BOOLEAN : Notified(toS, fits)
     ELSE UNCHANGED <<believed, toS>>
  /\ UNCHANGED <<source, subscriberVars, linkVars>>

(* PeerGetRequest: no answer when there is no such document. *)
OnGet ==
  /\ toP # << >> /\ Head(toP).kind = "get"
  /\ toP' = Tail(toP)
  /\ IF source.published
     THEN /\ believed' = source.version
          /\ toS' = Send(toS, [kind |-> "result", f |-> Head(toP).f,
                               document |-> Carried(IF Head(toP).version = 0 THEN 0
                                                    ELSE Head(toP).version + 1)])
     ELSE UNCHANGED <<believed, toS>>
  /\ UNCHANGED <<source, incoming, subscriberVars, linkVars>>

-----------------------------------------------------------------------------
(* S *)

(* the mutant of Mismatch: the version the difference starts from is the    *)
(* one that is held                                                         *)
MutantMismatch(document) == document.from > 0 /\ document.from > held.version + 1

(* updateFromFetchedPublication throws VersionMismatch. *)
Mismatch(document) == document.from > 0 /\ document.from # held.version + 1

Updated(document) ==
  [version |-> document.to,
   text |-> IF document.from = 0 THEN document.to
            ELSE IF held.text = document.from - 1 THEN document.to ELSE Torn]

(* activateFetcher with the version in the data it is given, fetches ps that *)
(* wait and the document c that is held: those that are served from the     *)
(* cache end, each activating the next with its own data, and the next one  *)
(* asks for what has changed.                                               *)
Served(c, version, ps) ==
  IF c = NoDocument THEN 0
  ELSE Max({k \in 0..Len(ps) :
              \A i \in 1..k : (IF i = 1 THEN version ELSE ps[i - 1].version) <= c.version})

Activate(c, version, ps, ended) ==
  LET k == Served(c, version, ps)
      rest == SubSeq(ps, k + 1, Len(ps))
  IN /\ fetched' = ended \o [i \in 1..k |-> Ended(ps[i], "fetched", c)]
     /\ pending' = IF rest = << >> THEN rest ELSE [rest EXCEPT ![1].active = TRUE]
     /\ toP' = IF rest = << >> THEN toP
               ELSE Send(toP, [kind |-> "get", f |-> rest[1].id, version |-> c.version])

(* fetch(): the first to wait has the version in its own data replaced.     *)
Fetch ==
  /\ told # 0 /\ Len(pending) + Len(fetched) < MaxFetches
  /\ LET f == [id |-> Len(pending) + Len(fetched) + 1, wanted |-> told,
               version |-> told, active |-> FALSE]
     IN IF pending # << >> THEN /\ pending' = Append(pending, f)
                                /\ UNCHANGED <<fetched, toP>>
        ELSE Activate(held, told, <<IF held.version >= told THEN f
                                    ELSE [f EXCEPT !.version = held.version]>>, fetched)
  /\ UNCHANGED <<publisherVars, held, told, toS, linkVars>>

(* the mutant of FetchEnds: the next fetch is left for another time *)
MutantFetchEnds(c, outcome, document) ==
  /\ fetched' = Append(fetched, Ended(Head(pending), outcome, document))
  /\ pending' = Tail(pending)
  /\ UNCHANGED toP

(* Fetcher::cancel() and notifyFetcherCancelled *)
FetchEnds(c, outcome, document) ==
  Activate(c, Head(pending).version, Tail(pending),
           Append(fetched, Ended(Head(pending), outcome, document)))

(* PeerGetResult for the fetch that waits for it, and notifyFetched: a      *)
(* difference that does not fit is what the fetcher is left with.           *)
OnGetResult ==
  /\ toS # << >> /\ Head(toS).kind = "result"
  /\ toS' = Tail(toS)
  /\ LET document == Head(toS).document
         raw == [version |-> document.to,
                 text |-> IF document.from = 0 THEN document.to ELSE Torn]
     IN IF pending = << >> \/ Head(pending).id # Head(toS).f
        THEN UNCHANGED <<held, pending, fetched, toP>>
        ELSE IF held = NoDocument THEN held' = raw /\ FetchEnds(raw, "fetched", raw)
        ELSE IF Mismatch(document) THEN UNCHANGED held /\ FetchEnds(held, "fetched", raw)
        ELSE held' = Updated(document) /\ FetchEnds(Updated(document), "fetched", Updated(document))
  /\ UNCHANGED <<publisherVars, told, linkVars>>

(* The monitor of the fetch times out, or its owner cancels it. *)
OnMessageMonitorTimedOut ==
  /\ pending # << >>
  /\ FetchEnds(held, "cancelled", NoDocument)
  /\ UNCHANGED <<publisherVars, held, told, toS, linkVars>>

(* PeerPublishNotifyRequest: a document that is not held is not made of a   *)
(* difference.  The subscriber is told of the version in any case.          *)
OnPublishNotify ==
  /\ toS # << >> /\ Head(toS).kind = "notify"
  /\ toS' = Tail(toS)
  /\ told' = Head(toS).document.to
  /\ LET document == Head(toS).document IN
     held' = IF document.from = -1 \/ (held = NoDocument /\ document.from # 0)
                \/ (held # NoDocument /\ Mismatch(document))
             THEN held ELSE Updated(document)
  /\ UNCHANGED <<publisherVars, pending, fetched, toP, linkVars>>

-----------------------------------------------------------------------------
(* The connection *)

Connect ==
  /\ ~link.up /\ link.heard = {"P", "S"}
  /\ link' = [up |-> TRUE, heard |-> {}]
  /\ expires' = {}
  /\ toP' = <<[kind |-> "subscribe", f |-> 0, version |-> 0]>>
  /\ UNCHANGED <<publisherVars, subscriberVars, toS, disconnects>>

Disconnect ==
  /\ link.up /\ disconnects < MaxDisconnects
  /\ link' = [link EXCEPT !.up = FALSE]
  /\ disconnects' = disconnects + 1
  /\ toP' = << >> /\ toS' = << >>
  /\ UNCHANGED <<publisherVars, subscriberVars, expires>>

(* onPeerSubscriptionLocationConnectionStateChanged at either end *)
OnDisconnected(e) ==
  /\ ~link.up /\ e \notin link.heard
  /\ link' = [link EXCEPT !.heard = @ \cup {e}]
  /\ expires' = expires \cup {e}
  /\ incoming' = (incoming /\ e # "P")
  /\ UNCHANGED <<source, believed, subscriberVars, netVars, disconnects>>

(* onTimer at either end: what is kept of the other one is dropped. *)
OnTimer(e) ==
  /\ e \in expires
  /\ expires' = expires \ {e}
  /\ IF e = "P" THEN believed' = 0 /\ UNCHANGED held
     ELSE held' = NoDocument /\ UNCHANGED believed
  /\ UNCHANGED <<source, incoming, pending, fetched, told, netVars, link, disconnects>>

PublicationInit ==
  /\ source = [version |-> 1, diffs |-> {}, published |-> FALSE]
  /\ believed = 0
  /\ incoming = FALSE
  /\ held = NoDocument
  /\ expires = {}
  /\ pending = << >>
  /\ fetched = << >>
  /\ told = 0
  /\ toP = << >> /\ toS = << >>
  /\ link = [up |-> FALSE, heard |-> {"P", "S"}]
  /\ disconnects = 0

PublicationNext ==
  \/ \E diff \in BOOLEAN : Update(diff)
  \/ Publish \/ OnSubscribe \/ OnGet
  \/ Fetch \/ OnGetResult \/ OnMessageMonitorTimedOut \/ OnPublishNotify
  \/ Connect \/ Disconnect
  \/ \E e \in {"P", "S"} : OnDisconnected(e) \/ OnTimer(e)

PublicationSpec == PublicationInit /\ [][PublicationNext]_publicationVars
-----------------------------------------------------------------------------
(* Properties. *)

(* The variables have their types. *)
PublicationTypeOK ==
  LET Document == [version : 0..MaxVersion, text : {Torn} \cup 0..MaxVersion]
      Content == [from : -1..MaxVersion, to : 1..MaxVersion]
  IN /\ source \in [version : 1..MaxVersion, diffs : SUBSET (2..MaxVersion), published : BOOLEAN]
     /\ believed \in 0..MaxVersion
     /\ incoming \in BOOLEAN
     /\ held \in Document
     /\ expires \in SUBSET {"P", "S"}
     /\ pending \in Seq([id : 1..MaxFetches, wanted : 1..MaxVersion,
                        version : 0..MaxVersion, active : BOOLEAN])
     /\ fetched \in Seq([wanted : 1..MaxVersion, outcome : {"fetched", "cancelled"},
                        document : Document])
     /\ told \in 0..MaxVersion
     /\ toP \in Seq([kind : {"subscribe", "get"}, f : 0..MaxFetches, version : 0..MaxVersion])
     /\ toS \in Seq([kind : {"notify", "result"}, f : 0..MaxFetches, document : Content])
     /\ link \in [up : BOOLEAN, heard : SUBSET {"P", "S"}]
     /\ disconnects \in 0..MaxDisconnects

(* What S holds is the document of the version it claims: no difference is  *)
(* ever applied to another version than the one it was made from, however   *)
(* notices, answers, lost connections and expiry interleave.                *)
HeldIsTrue == held # NoDocument => held.text = held.version

(* Whenever fetches wait, the first one of them has asked: the end of one,  *)
(* by an answer, a timeout or the cache, activates the next, so that none   *)
(* waits for a request that nobody makes; and only the first one has.       *)
OneFetchActive == \A i \in 1..Len(pending) : pending[i].active <=> i = 1

(* A fetch that succeeds hands out the document, whole, at least as new as  *)
(* the version it was asked for.                                            *)
FetchedIsWanted ==
  \A i \in 1..Len(fetched) :
    fetched[i].outcome = "fetched" =>
      /\ fetched[i].document.text = fetched[i].document.version
      /\ fetched[i].document.version >= fetched[i].wanted
=============================================================================
