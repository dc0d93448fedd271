---------------------------- MODULE LoggerRegistry ---------------------------
(***************************************************************************)
(* What the assignment, swap and copy of loggers promise to the threads    *)
(* that use them: each is one step on the table of which logger writes     *)
(* through which internal logger, and an internal logger that is in the    *)
(* table exists.                                                           *)
(***************************************************************************)
CONSTANTS Loggers, Inners,
          None      \* the entry of a logger that is not constructed

VARIABLES target,   \* what each logger refers to
          gone      \* the internal loggers that are destroyed

registryVars == <<target, gone>>

RegistryInit == target \in [Loggers -> Inners \cup {None}] /\ gone = {}

\* operator= and the copy constructor: x refers to what y refers to.
Redirect(x, y) == /\ target[y] # None
                  /\ target' = [target EXCEPT ![x] = target[y]]

Exchange(x, y) == /\ target[x] # None /\ target[y] # None
                  /\ target' = [target EXCEPT ![x] = target[y], ![y] = target[x]]

\* The default constructor takes the shared empty logger, the destructor its entry away.
Construct(x, i) == target[x] = None /\ target' = [target EXCEPT ![x] = i]
Remove(x) == target[x] # None /\ target' = [target EXCEPT ![x] = None]

\* An internal logger goes with its last reference.
Collect == /\ gone \subseteq gone'
           /\ gone' \cap {target'[x] : x \in Loggers} = {}

Change == \E x, y \in Loggers : \/ Redirect(x, y) \/ Exchange(x, y) \/ Remove(x)
                                \/ \E i \in Inners : Construct(x, i)

RegistryNext == (Change \/ UNCHANGED target) /\ Collect

RegistrySpec == RegistryInit /\ [][RegistryNext]_registryVars
==============================================================================
