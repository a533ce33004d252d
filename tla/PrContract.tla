----------------------------- MODULE PrContract ------------------------------
(***************************************************************************)
(* What the proxy promises of the server of a pull request, without the    *)
(* loop, the requests and the locks.  A server is asked for, offered to    *)
(* players on a port of its own, withdrawn and forgotten.  What is offered *)
(* is an image that exists, of the commit that was asked for, and it is    *)
(* not changed while it is on offer.  A restart brings back what was left  *)
(* deployed, under the commit of the row: no more is promised of the two   *)
(* than that each was built for this PR.                                   *)
(* PrLifecycle implements this, for the PRs no two /start have raced for.  *)
(***************************************************************************)

CONSTANTS PRs, Commits, Ports, None

VARIABLES
  serving,  \* the proxy listens
  built,    \* the images there are, as <<pr, commit>>
  server    \* of each PR: where its server is, for which commit, at which port players
            \* reach it, the commit under which a restart would bring it back, and the
            \* commit whose image is deployed

Absent(row, image) ==
  [stage |-> "absent", commit |-> None, port |-> None, row |-> row, image |-> image]

\* A server of which nothing is promised any more.
Void == [stage |-> "void", commit |-> None, port |-> None, row |-> None, image |-> None]

Init ==
  /\ serving = FALSE
  /\ built = {}
  /\ server = [pr \in PRs |-> Absent(None, None)]

Become(pr, s) ==
  /\ server' = [server EXCEPT ![pr] = s]
  /\ UNCHANGED <<serving, built>>

\* The port leads to no server that is offered.
Unused(port) == \A pr \in PRs : server[pr].port # port

Start(pr, commit) ==
  /\ serving
  /\ server[pr].stage = "absent"
  /\ Become(pr, [stage |-> "wanted", commit |-> commit, port |-> None,
                  row |-> server[pr].row, image |-> server[pr].image])

\* What was left deployed goes, and what is wanted comes.
Deploy(pr, image) ==
  /\ serving
  /\ server[pr].stage = "wanted"
  /\ \/ image = None
     \/ image = server[pr].commit /\ <<pr, image>> \in built
  /\ Become(pr, [server[pr] EXCEPT !.image = image])

Offer(pr, port) ==
  /\ serving
  /\ server[pr].stage = "wanted"
  /\ server[pr].image = server[pr].commit
  /\ <<pr, server[pr].commit>> \in built
  /\ Unused(port)
  /\ Become(pr, [stage |-> "offered", commit |-> server[pr].commit, port |-> port,
                  row |-> server[pr].row, image |-> server[pr].image])

\* What is on offer becomes what a restart brings back.
Note(pr) ==
  /\ serving
  /\ server[pr].stage = "offered"
  /\ Become(pr, [server[pr] EXCEPT !.row = server[pr].commit])

Withdraw(pr) ==
  /\ serving
  /\ server[pr].stage = "offered"
  /\ Become(pr, [stage |-> "leaving", commit |-> server[pr].commit, port |-> None,
                  row |-> server[pr].row, image |-> server[pr].image])

\* What is given up may have been deployed all the same.
GiveUp(pr, image) ==
  /\ serving
  /\ server[pr].stage = "wanted"
  /\ \/ image = server[pr].image
     \/ image = server[pr].commit /\ <<pr, image>> \in built
  /\ Become(pr, [stage |-> "leaving", commit |-> server[pr].commit, port |-> None,
                  row |-> server[pr].row, image |-> image])

Remove(pr) ==
  /\ serving
  /\ server[pr].stage = "leaving"
  /\ Become(pr, [server[pr] EXCEPT !.image = None])

\* What is forgotten may stay deployed.
Forget(pr, image) ==
  /\ serving
  /\ server[pr].stage = "leaving"
  /\ image \in {None, server[pr].image}
  /\ Become(pr, Absent(server[pr].row, image))

\* A request is served although there is a server.
Spoil(pr) ==
  /\ serving
  /\ server[pr].stage \in {"wanted", "offered", "leaving"}
  /\ Become(pr, Void)

Publish(build) ==
  /\ built' = built \cup {build}
  /\ UNCHANGED <<serving, server>>

Restart ==
  /\ serving' = FALSE
  /\ server' = [pr \in PRs |->
        IF server[pr] = Void THEN Void ELSE Absent(server[pr].row, server[pr].image)]
  /\ UNCHANGED built

BringBack(pr, port) ==
  /\ ~serving
  /\ server[pr].stage = "absent"
  /\ {<<pr, server[pr].row>>, <<pr, server[pr].image>>} \subseteq built
  /\ Unused(port)
  /\ Become(pr, [stage |-> "offered", commit |-> server[pr].row, port |-> port,
                  row |-> server[pr].row, image |-> server[pr].image])

\* What cannot be brought back may be struck out.
Erase(pr) ==
  /\ ~serving
  /\ server[pr].stage = "absent"
  /\ Become(pr, Absent(None, server[pr].image))

Listen ==
  /\ ~serving
  /\ serving' = TRUE
  /\ UNCHANGED <<built, server>>

Life(pr) ==
  \/ \E commit \in Commits : Start(pr, commit)
  \/ \E image \in Commits \cup {None} :
        Deploy(pr, image) \/ GiveUp(pr, image) \/ Forget(pr, image)
  \/ \E port \in Ports : Offer(pr, port) \/ BringBack(pr, port)
  \/ Note(pr) \/ Withdraw(pr) \/ Remove(pr) \/ Spoil(pr) \/ Erase(pr)

Next ==
  \/ \E pr \in PRs : Life(pr)
  \/ \E build \in PRs \X Commits : Publish(build)
  \/ Restart
  \/ Listen

vars == <<serving, built, server>>

Spec == Init /\ [][Next]_vars
=============================================================================
