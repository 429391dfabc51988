-------------------------------- MODULE Relay --------------------------------
(***************************************************************************)
(* Voice, with what it is for: the track of each voice user, and to whom   *)
(* ForwardTrack hands it on.  It runs once per track, in a goroutine that  *)
(* pion starts when the first packet arrives, and walks the roster of the  *)
(* channel the join captured while it holds its lock.  A peer connection   *)
(* has one offer open at a time: who has yet to answer one is passed over. *)
(* The walk is one step: nobody enters or leaves during it.                *)
(***************************************************************************)
EXTENDS Voice

VARIABLES
  track,      \* of each voice user: "none", "arrived", or "forwarded"
  unanswered, \* voice users that were offered a track and have not answered
  hears,      \* pairs of a voice user and one whose track it was offered
  passed,     \* pairs of a voice user and one whose track found it unanswered
  down        \* a panic outside of a handler ended the process

offers == <<unanswered, hears, passed>>
relayVars == <<vars, track, offers, down>>

Others(o) == {roster[home[o]][u] : u \in UserIds \ {Id(o)}} \ {None}

\* The first packet came, and pion starts a goroutine.
OnTrack(o) ==
  /\ rtc[o] = "live" /\ track[o] = "none"
  /\ track' = [track EXCEPT ![o] = "arrived"]
  /\ UNCHANGED <<vars, offers, down>>

\* Everybody else on the roster gets a local track and an offer.  A peer connection that
\* is closed takes no track, one with an unanswered offer, that of its join or another's
\* track, no description, and one that was set to nil panics.
ForwardTrack(o) ==
  /\ track[o] = "arrived"
  /\ track' = [track EXCEPT ![o] = "forwarded"]
  /\ LET joined == {p \in Others(o) : rtc[p] \in {"live", "down"}}
         told == joined \ unanswered
     IN \/ /\ \A p \in Others(o) : media[p]
           /\ hears' = hears \cup told \X {o}
           /\ unanswered' = unanswered \cup told
           /\ passed' = passed \cup (joined \cap unanswered) \X {o}
           /\ UNCHANGED down
        \/ /\ \E p \in Others(o) : ~media[p]
           /\ down' = TRUE /\ UNCHANGED offers
  /\ UNCHANGED vars

\* handleAnswer, to the offer of a track.
AnswerTrack(c) ==
  /\ At(c, "ready") /\ HasMedia(c)
  /\ Voice(c) \in unanswered /\ rtc[Voice(c)] # "closed"
  /\ unanswered' = unanswered \ {Voice(c)}
  /\ UNCHANGED <<vars, track, hears, passed, down>>

RelayInit ==
  /\ Init
  /\ track = [o \in Objs |-> "none"] /\ down = FALSE
  /\ unanswered = {} /\ hears = {} /\ passed = {}

RelayNext ==
  /\ ~down
  /\ \/ Next /\ UNCHANGED <<track, offers, down>>
     \/ \E o \in Objs : OnTrack(o) \/ ForwardTrack(o)
     \/ \E c \in Conns : AnswerTrack(c)

RelaySpec == RelayInit /\ [][RelayNext]_relayVars

-----------------------------------------------------------------------------
\* Of two who are listed with an open connection and whose tracks were both forwarded
\* one at least was offered the other's, or was passed over because it had not answered
\* the offer of a third one's.
SomebodyHears ==
  ~down => \A o, p \in Objs :
    /\ Listed(o) /\ rtc[o] # "closed" /\ track[o] = "forwarded"
    /\ Listed(p) /\ rtc[p] # "closed" /\ track[p] = "forwarded"
    /\ home[o] = home[p] /\ Id(o) # Id(p)
    => <<o, p>> \in hears \cup passed \/ <<p, o>> \in hears \cup passed

\* A track is offered to other accounts in its channel only, whatever became of them.
OffersStayInTheChannel ==
  \A o, p \in Objs : <<p, o>> \in hears => home[p] = home[o] /\ Id(p) # Id(o)

\* ForwardTrack runs in a goroutine of pion's, where a nil Media ends the process: that
\* takes a channel that was deleted (ListedHaveMedia).
CrashNeedsDeletion == down => deleted # {}

-----------------------------------------------------------------------------
\* Nothing is left to do: no handler runs, no callback is due, every offer has been
\* answered, and the track of whoever is connected has arrived and been forwarded.
Settled ==
  /\ unanswered = {}
  /\ \A c \in Conns : pc[c] \notin Handling
  /\ \A o \in Objs : /\ callback[o] = "idle" /\ track[o] # "arrived"
                     /\ rtc[o] = "live" => track[o] = "forwarded"

\* On the roster, and connected.
Talks(o) == Listed(o) /\ rtc[o] = "live"

\* README.md:83: the SFU relays voice to the other participants of a channel, in both
\* directions and whoever of them came first.
ParticipantsAreHeard ==
  Settled => \A o, p \in Objs :
    (Talks(o) /\ Talks(p) /\ home[o] = home[p] /\ Id(o) # Id(p)) => <<p, o>> \in hears
=============================================================================
