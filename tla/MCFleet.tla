------------------------------ MODULE MCFleet ------------------------------
(* A small Fleet: a machine, a compose file linked to two projects, and      *)
(* another, global one, in a directory of its own or in the same one.        *)
EXTENDS FleetOperations

CONSTANTS o1, o2, n1, a, b, k, s1, s2, d1, d2, here, sibling, plain, absent

m1 == 11
f1 == 21
f2 == 22
f3 == 23

\* One document declares the key in both services, the other asks for it.
Declares == [services |-> {s1, s2}, placeholders |-> {},
             environment |-> [s \in {s1, s2} |-> [x \in {k} |->
                                IF s = s1 THEN a ELSE b]]]
Asks == [services |-> {s1}, placeholders |-> {k},
         environment |-> [s \in {s1, s2} |-> [x \in {k} |-> NoValue]]]
MCContent == {Declares, Asks}

MCProject == {1, 2}

\* The slugs of f1 and f3 are one.
MCDeployDir == [x \in Setting \X FileId |-> IF x[2] = f2 THEN d2 ELSE d1]

\* docker-compose.yml, ../d2/docker-compose.yml, and another file.
MCJoined ==
    [x \in Directory \X Target |->
        CASE x[2] = here -> x[1] [] x[2] = sibling -> d2 [] x[2] = plain -> NoValue]

\* b has a placeholder for which there is no variable.
MCMentions == [x \in Value |-> IF x = a THEN {} ELSE {absent}]

MCFollows == [c \in Stream |-> o1]

OneFile ==
    [machines |-> {NewMachine(m1, n1, CHOOSE s \in Setting : TRUE, "local",
                              CHOOSE c \in Credential : TRUE)},
     files |-> {[id |-> f1, isGlobal |-> FALSE, content |-> Asks]},
     networks |-> Network, volumes |-> {},
     networkLinks |-> {f1} \X Network, volumeLinks |-> {},
     projectLinks |-> {f1} \X MCProject,
     variables |-> {},
     spent |-> {m1, f1}]

Var(id, f, t, x, path) ==
    [id |-> id, file |-> f, key |-> k, type |-> t, value |-> x,
     secretRef |-> NoValue, target |-> path]
\* Two compose files, with variables of key k.
TwoFiles(f, variables) ==
    [OneFile EXCEPT
        !.files = @ \cup {[id |-> f, isGlobal |-> TRUE, content |-> Declares]},
        !.variables = variables,
        !.spent = @ \cup {f} \cup VariableId]

Deploy(f) == [status |-> "queued", file |-> f, machine |-> m1,
              type |-> "deploy", exitCode |-> NoValue]

\* Two deploys that wait, and no request.
TwoDeploys(f, variables) ==
    [db |-> TwoFiles(f, variables), requests |-> {},
     operations |-> [o \in OperationId |-> Deploy(IF o = o1 THEN f1 ELSE f)]]

\* Two requests and nothing queued yet; or deploys into two directories or one,
\* where the global variable is overridden, or where a variable of either file
\* is written to a docker-compose.yml.
MCInitialState ==
    {[db |-> OneFile, operations |-> [o \in OperationId |-> NoOperation],
      requests |-> Request],
     TwoDeploys(f2, {Var(31, f1, "env", a, NoValue), Var(32, f2, "env", b, NoValue)}),
     TwoDeploys(f3, {Var(31, f1, "kv", a, NoValue), Var(32, f3, "env", b, NoValue)}),
     TwoDeploys(f2, {Var(31, f1, "file_template", a, sibling)}),
     TwoDeploys(f2, {Var(32, f2, "file_template", a, here)})}

=============================================================================
