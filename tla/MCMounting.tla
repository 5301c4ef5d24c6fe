----------------------------- MODULE MCMounting -----------------------------
(***************************************************************************)
(* Cubes for TLC: a working system of a few of the repository's cubes, in  *)
(* two load orders, and what a change of one part of one cube, or one more *)
(* cube, makes of it.                                                      *)
(***************************************************************************)
EXTENDS Mounting, TLC

Id(p, n) == [parent |-> p, name |-> n]
Top(n) == Id(<<>>, <<n>>)
Kid(n) == Id(<<"booktags">>, <<n>>)
Perm(i, act) == [cube |-> i, act |-> act]

End(n, p, method) == [name |-> n, prefix |-> p, method |-> method, last |-> n, auth |-> TRUE, has403 |-> TRUE]

Bare(i, plugin) ==
  [id |-> i, plugin |-> plugin, deep |-> FALSE, clean |-> TRUE, loads |-> TRUE, group |-> i,
   m |-> [name |-> i.name, parent |-> i.parent, wellFormed |-> TRUE, tables |-> {}, entity |-> None,
          version |-> None, shape |-> 0, relation |-> None, required |-> FALSE, requiresAuth |-> TRUE,
          agent |-> FALSE, holds |-> {}, provides |-> {}, uses |-> {}, permissions |-> {}, routes |-> <<>>],
   ends |-> <<>>, commands |-> <<>>, returns |-> {}]

(* A cube with a list and a create route under prefix p, and a command.    *)
Data(i, plugin, p, entity) ==
  [Bare(i, plugin) EXCEPT
     !.m.tables = {entity}, !.m.entity = entity,
     !.m.permissions = {Perm(i, "read"), Perm(i, "write")},
     !.m.routes = [n \in {"create"} |-> Perm(i, "write")],
     !.ends = <<End("list", p, "GET"), End("create", p, "POST")>>,
     !.commands = <<[cube |-> i, name |-> <<i, "do">>, permission |-> Perm(i, "read"), maxArgs |-> 0]>>]

auth == [Bare(Top("auth"), None) EXCEPT
           !.m.requiresAuth = FALSE, !.m.required = TRUE, !.m.uses = {"credentials"},
           !.ends = <<[End("login", <<"auth">>, "POST") EXCEPT !.auth = FALSE]>>]
account == [Data(Top("account"), None, <<"account">>, "Account") EXCEPT
              !.m.required = TRUE, !.m.version = 1,
              !.m.provides = {"credentials", "identities"}, !.returns = {"credentials", "identities"}]
notes == [Data(Top("notes"), None, <<"notes">>, "Note") EXCEPT
            !.m.version = 1, !.m.uses = {"permissions"}]
booktags == Bare(Top("booktags"), "example")
tags == Data(Kid("tags"), "example", <<"tags">>, "Tag")
slides == Data(Top("slides"), "other", <<"slides">>, "Slide")

Good == <<account, auth, notes, booktags, tags>>
Last5(c) == [Good EXCEPT ![5] = c]
AndAlso(c) == Append(Good, c)

Agent(i, p, more) ==
  [Data(i, "example", p, "Tag") EXCEPT
     !.m.agent = TRUE,
     !.m.routes = [n \in {"create", "health", "context", "goals", "trace"} |-> Perm(i, "write")],
     !.ends = @ \o <<End("health", p, "GET"), End("context", p, "GET"), End("goals", p, "POST")>> \o more]

(* The same with another part, cube by cube.                               *)
Changed ==
  {Last5([tags EXCEPT !.deep = TRUE]), Last5([tags EXCEPT !.clean = FALSE]), Last5([tags EXCEPT !.loads = FALSE]),
   Last5([tags EXCEPT !.m.name = <<"stickers">>]), Last5([tags EXCEPT !.m.parent = <<>>]),
   Last5([tags EXCEPT !.m.wellFormed = FALSE]), Last5([tags EXCEPT !.m.tables = {}]),
   Last5([tags EXCEPT !.m.permissions = @ \cup {Perm(Top("notes"), "read")}]),
   Last5([tags EXCEPT !.m.tables = {"Note"}]),
   Last5([tags EXCEPT !.m.permissions = {Perm(Kid("tags"), "write")}, !.commands = <<>>]),
   Last5([tags EXCEPT !.m.permissions = {Perm(Kid("tags"), "read")}]),
   Last5([tags EXCEPT !.m.routes = <<>>]),
   Last5([tags EXCEPT !.m.routes = [n \in {"create"} |-> None]]),
   Last5([tags EXCEPT !.m.routes = [n \in {"create", "list"} |-> None]]),
   Last5([tags EXCEPT !.m.routes = [n \in {"create", "gone"} |-> None]]),
   Last5([tags EXCEPT !.ends[1].auth = FALSE]), Last5([tags EXCEPT !.ends[1].has403 = FALSE]),
   Last5([tags EXCEPT !.ends[2].has403 = FALSE]),
   Last5([tags EXCEPT !.ends[2].auth = FALSE, !.m.routes = <<>>]),
   Last5([tags EXCEPT !.ends[2].prefix = <<"notes">>]),
   Last5([tags EXCEPT !.ends[2].prefix = <<"booktags", "tags">>]),
   Last5([tags EXCEPT !.commands[1].cube = Top("notes")]),
   Last5([tags EXCEPT !.commands = @ \o @]),
   Last5([tags EXCEPT !.m.uses = {"identities"}, !.m.relation = Top("notes"), !.m.version = 1]),
   Last5([tags EXCEPT !.m.provides = {"permissions"}]),
   Last5(Agent(Kid("tags"), <<"tags">>, <<End("trace", <<"tags">>, "GET")>>)),
   Last5(Agent(Kid("tags"), <<"booktags", "tags">>, <<End("trace", <<"tags">>, "GET")>>))}

More ==
  {AndAlso(slides), AndAlso(notes), AndAlso([slides EXCEPT !.clean = FALSE]),
   AndAlso([slides EXCEPT !.plugin = "example", !.clean = FALSE]),
   AndAlso([slides EXCEPT !.group = Top("notes")]), AndAlso([slides EXCEPT !.m.entity = "Account"]),
   AndAlso([slides EXCEPT !.m.provides = {"permissions"}, !.returns = {"permissions"}]),
   AndAlso([slides EXCEPT !.m.provides = {"credentials"}, !.returns = {"credentials"}]),
   AndAlso([slides EXCEPT !.m.uses = {"credentials"}]),
   AndAlso([slides EXCEPT !.m.holds = {"managesCubes"}]),
   [AndAlso([slides EXCEPT !.m.holds = {"managesCubes"}]) EXCEPT ![3].m.holds = {"managesCubes"}],
   AndAlso(Data(Kid("notes"), "example", <<"notes">>, "Mark")),
   AndAlso(Data(Kid("notes"), "example", <<"booktags", "notes">>, "Mark")),
   AndAlso(Data(Id(<<>>, <<"booktags", "tags">>), "other", <<"booktags", "tags">>, "Mark")),
   <<account, notes, booktags, tags>>, <<notes, booktags, tags>>,
   <<auth, account, booktags, tags, notes>>}

Layout == {Good} \cup Changed \cup More

Link == {[from |-> Top("notes"), to |-> "Account"], [from |-> Kid("tags"), to |-> "Note"]}

ShippedRecords ==
  [i \in {Top("auth"), Top("account"), Top("notes"), Top("booktags"), Top("slides"), Kid("tags"), Kid("notes"),
          Id(<<>>, <<"booktags", "tags">>)} |->
     IF i = Top("notes")
     THEN [version |-> 1, hash |-> [shape |-> 0, relation |-> Top("account"), searchable |-> TRUE]]
     ELSE None]

MountedValues == {Everything, {Top("auth"), Top("account"), Kid("tags")}, {Top("auth"), Top("nowhere")}}
=============================================================================
