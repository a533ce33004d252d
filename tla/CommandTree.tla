----------------------------- MODULE CommandTree -----------------------------
(***************************************************************************)
(* The command tree the proxy shows to a client in place of the backend's  *)
(* (build_commands), what a player can enter with it, and what the proxy   *)
(* does with a command it receives (handle_client_packet).                 *)
(***************************************************************************)
EXTENDS Naturals, Sequences

Node(name, children, executable) ==
  [name |-> name, children |-> children, executable |-> executable]

\* Mutation: the second child of the root is the argument of /server.
NodesMisnumbered == [i \in 0..6 |->
  IF i = 0 THEN Node("root", {1, 2, 5}, FALSE) ELSE
  CASE i = 1 -> Node("server", {2}, TRUE)
    [] i = 2 -> Node("server_name", {}, TRUE)
    [] i = 3 -> Node("start", {4}, FALSE)
    [] i = 4 -> Node("pr_number", {}, TRUE)
    [] i = 5 -> Node("status", {6}, FALSE)
    [] i = 6 -> Node("pr_number", {}, TRUE)]

\* build_commands: nodes refer to one another by their index in the vector.
Nodes == [i \in 0..6 |->
  CASE i = 0 -> Node("root", {1, 3, 5}, FALSE)
    [] i = 1 -> Node("server", {2}, TRUE)
    [] i = 2 -> Node("server_name", {}, TRUE)
    [] i = 3 -> Node("start", {4}, FALSE)
    [] i = 4 -> Node("pr_number", {}, TRUE)
    [] i = 5 -> Node("status", {6}, FALSE)
    [] i = 6 -> Node("pr_number", {}, TRUE)]

\* What the client lets a player complete and enter: the names along a path from
\* the root to an executable node.  No node of the tree is deeper than two.
Offered ==
  LET first == Nodes[0].children IN
  {<<Nodes[i].name>> : i \in {j \in first : Nodes[j].executable}} \cup
  UNION {{<<Nodes[i].name, Nodes[k].name>> :
            k \in {j \in Nodes[i].children : Nodes[j].executable}} : i \in first}

\* parse_command_from_payload and handle_client_packet: "server" alone lists the
\* servers; "server ", "start " and "status " take an argument; anything else is the
\* backend's.
Meaning(command) ==
  CASE command = <<"server">> -> "list"
    [] Len(command) = 2 /\ command[1] = "server" -> "switch"
    [] Len(command) = 2 /\ command[1] = "start" -> "start"
    [] Len(command) = 2 /\ command[1] = "status" -> "status"
    [] OTHER -> "forward"

=============================================================================
