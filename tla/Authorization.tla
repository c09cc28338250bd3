--------------------------- MODULE Authorization ---------------------------
(***************************************************************************)
(* The permissions of accounts and the links from actions to permissions   *)
(* (authorization_manager.cpp, eosio_contract.cpp).                        *)
(*                                                                         *)
(* A transaction is a sequence of actions.  The authorization of all of    *)
(* them is checked before the first is applied; one that fails undoes the  *)
(* whole transaction.  Keys and signatures are in AuthorityChecker: here   *)
(* the declared permission of an action is one that has been satisfied.    *)
(***************************************************************************)
EXTENDS Integers, Sequences, FiniteSetsExt, SequencesExt

CONSTANTS
    AccountNames,   \* accounts that may exist
    FirstAccounts,  \* accounts there are at the start
    OtherNames,     \* names of permissions besides owner and active
    Codes,          \* contracts whose actions may be linked
    Types,          \* names of their actions
    Sizes,          \* billable sizes of authorities
    MaxPermissions, \* bound on permissions ever created
    MaxActions      \* bound on the actions of a transaction

AuthorizationAssumption ==
    /\ FirstAccounts \subseteq AccountNames
    /\ Codes \cup FirstAccounts # {}
    /\ Sizes \subseteq Nat /\ MaxPermissions \in Nat /\ MaxActions \in Nat

Owner  == "owner"
Active == "active"
AnyName == "eosio.any"
All    == ""                  \* the action name of a contract-wide link
PermissionNames == {Owner, Active} \cup OtherNames

PermissionSize == 3           \* billable_size_v, in units of Sizes
LinkSize == 1
AccountSize == 2              \* overhead_per_account_ram_bytes
NoParent == 0

VARIABLES
    db          \* permission_index, permission_link_index, ids and RAM used

----------------------------------------------------------------------------
(* Looking things up *)

Accounts(d) == {p.owner : p \in d.perms}

find_permission(d, account, name) ==
    {p \in d.perms : p.owner = account /\ p.name = name}

has_permission(d, account, name) == find_permission(d, account, name) # {}

get_permission(d, account, name) ==
    CHOOSE p \in d.perms : p.owner = account /\ p.name = name

\* The ids on the way from a permission to the root, itself included.
ancestors(d, p) ==
    LET parents(ids) == {q.parent : q \in {x \in d.perms : x.id \in ids}}
        up(ids)      == ids \cup parents(ids)
        A[n \in 0..MaxPermissions] == IF n = 0 THEN {p.id} ELSE up(A[n - 1])
    IN  A[MaxPermissions] \ {NoParent}

satisfies(d, p, other) == p.owner = other.owner /\ p.id \in ancestors(d, other)

links_of(d, account, code, type) ==
    {l \in d.links : l.account = account /\ l.code = code /\ l.type = type}

\* lookup_linked_permission: the link of the action, else of the contract
linked(d, account, code, type) ==
    IF links_of(d, account, code, type) # {}
    THEN links_of(d, account, code, type) ELSE links_of(d, account, code, All)

lookup_minimum_permission(d, account, code, type) ==
    IF linked(d, account, code, type) = {} THEN Active
    ELSE (CHOOSE l \in linked(d, account, code, type) : TRUE).permission

----------------------------------------------------------------------------
(* Checking: check_authorization *)

\* The declared permission satisfies the named one, which must exist.
by_satisfies(d, a, name) ==
    /\ has_permission(d, a.account, name)
    /\ satisfies(d, get_permission(d, a.account, a.by),
                    get_permission(d, a.account, name))

check_updateauth(d, a) ==
    by_satisfies(d, a, IF has_permission(d, a.account, a.permission)
                       THEN a.permission ELSE a.parent)

check_deleteauth(d, a) == by_satisfies(d, a, a.permission)

minimum_satisfied(d, a, code, type) ==
    LET name == lookup_minimum_permission(d, a.account, code, type)
    IN  name = AnyName \/ by_satisfies(d, a, name)

check_linkauth(d, a) ==
    minimum_satisfied(d, a, a.code, a.type)

check_unlinkauth(d, a) ==
    /\ linked(d, a.account, a.code, a.type) # {}
    /\ check_linkauth(d, a)

\* An action that is not one of the four above.
check_newaccount(d, a) == minimum_satisfied(d, a, "eosio", "newaccount")

authorized(d, a) ==
    /\ has_permission(d, a.account, a.by)
    /\ CASE a.kind = "updateauth" -> check_updateauth(d, a)
         [] a.kind = "deleteauth" -> check_deleteauth(d, a)
         [] a.kind = "linkauth"   -> check_linkauth(d, a)
         [] a.kind = "unlinkauth" -> check_unlinkauth(d, a)
         [] a.kind = "newaccount" -> check_newaccount(d, a)

----------------------------------------------------------------------------
(* Applying.  Each operator returns the databases the action can lead to:   *)
(* one, or none when an assertion fails.                                    *)

create_permission(d, account, name, parent, size) ==
    [d EXCEPT !.perms = @ \cup {[id |-> d.next, owner |-> account,
                                 name |-> name, parent |-> parent,
                                 size |-> size]},
              !.next = @ + 1,
              !.ram[account] = @ + PermissionSize + size]

modify_permission(d, p, size) ==
    [d EXCEPT !.perms = (@ \ {p}) \cup {[p EXCEPT !.size = size]},
              !.ram[p.owner] = @ + size - p.size]

legal_parent(name, parent) ==
    /\ name # parent
    /\ name = Active => parent = Owner
    /\ (name = Owner) = (parent = "")

apply_updateauth(d, a) ==
    LET old == find_permission(d, a.account, a.permission)
        id  == IF a.permission = Owner THEN NoParent
               ELSE get_permission(d, a.account, a.parent).id
    IN  IF \/ ~legal_parent(a.permission, a.parent)
           \/ a.permission # Owner /\ ~has_permission(d, a.account, a.parent)
           \/ old = {} /\ d.next > MaxPermissions
        THEN {}
        ELSE IF old = {}
        THEN {create_permission(d, a.account, a.permission, id, a.size)}
        ELSE {modify_permission(d, p, a.size) : p \in {o \in old : o.parent = id}}

remove_permission_with_children(d, p) ==
    {[d EXCEPT !.perms = @ \ {p}, !.ram[p.owner] = @ - PermissionSize - p.size]}

remove_permission(d, p) ==
    IF \E q \in d.perms : q.parent = p.id THEN {}
    ELSE {[d EXCEPT !.perms = @ \ {p},
                    !.ram[p.owner] = @ - PermissionSize - p.size]}

apply_deleteauth(d, a) ==
    IF \/ a.permission \in {Owner, Active}
       \/ \E l \in d.links : l.account = a.account /\ l.permission = a.permission
       \/ ~has_permission(d, a.account, a.permission)
    THEN {}
    ELSE remove_permission(d, get_permission(d, a.account, a.permission))

\* The required permission is looked up by its name alone.
requirement_exists(d, a) ==
    a.permission = AnyName \/ \E p \in d.perms : p.name = a.permission

\* held is history: whether the account had the permission itself.
apply_linkauth(d, a) ==
    LET old == links_of(d, a.account, a.code, a.type)
        new == [account |-> a.account, code |-> a.code, type |-> a.type,
                permission |-> a.permission,
                held |-> has_permission(d, a.account, a.permission)]
    IN  IF \/ ~requirement_exists(d, a)
           \/ \E l \in old : l.permission = a.permission
        THEN {}
        ELSE {[d EXCEPT !.links = (@ \ old) \cup {new},
                        !.ram[a.account] = @ + IF old = {} THEN LinkSize ELSE 0]}

apply_unlinkauth(d, a) ==
    {[d EXCEPT !.links = @ \ {l}, !.ram[a.account] = @ - LinkSize] :
        l \in links_of(d, a.account, a.code, a.type)}

apply_newaccount(d, a) ==
    IF a.name \in Accounts(d) \/ d.next + 1 > MaxPermissions THEN {}
    ELSE LET billed == [d EXCEPT !.ram[a.name] = @ + AccountSize]
             owner  == create_permission(billed, a.name, Owner, NoParent, a.size)
         IN  {create_permission(owner, a.name, Active, d.next, a.size)}

apply(d, a) ==
    CASE a.kind = "updateauth" -> apply_updateauth(d, a)
      [] a.kind = "deleteauth" -> apply_deleteauth(d, a)
      [] a.kind = "linkauth"   -> apply_linkauth(d, a)
      [] a.kind = "unlinkauth" -> apply_unlinkauth(d, a)
      [] a.kind = "newaccount" -> apply_newaccount(d, a)

----------------------------------------------------------------------------
(* Transactions *)

Actions ==
    [kind : {"updateauth"}, account : AccountNames, by : PermissionNames,
     permission : PermissionNames, parent : PermissionNames \cup {""}, size : Sizes]
    \cup
    [kind : {"deleteauth"}, account : AccountNames, by : PermissionNames,
     permission : PermissionNames]
    \cup
    [kind : {"linkauth"}, account : AccountNames, by : PermissionNames, code : Codes,
     type : Types \cup {All}, permission : PermissionNames \cup {AnyName}]
    \cup
    [kind : {"unlinkauth"}, account : AccountNames, by : PermissionNames, code : Codes,
     type : Types \cup {All}]
    \cup
    [kind : {"newaccount"}, account : AccountNames, by : PermissionNames,
     name : AccountNames, size : Sizes]

run(acts) ==
    FoldLeft(LAMBDA ds, a : UNION {apply(d, a) : d \in ds}, {db}, acts)

Transact ==
    LET allowed == {a \in Actions : authorized(db, a)}
    IN  \E n \in 1..MaxActions : \E acts \in [1..n -> allowed] : db' \in run(acts)

Init ==
    \E ids \in [FirstAccounts -> {2 * i - 1 : i \in 1..Cardinality(FirstAccounts)}],
       size \in Sizes :
       /\ \A a, b \in FirstAccounts : a # b => ids[a] # ids[b]
       /\ db = [perms |->
                   {[id |-> ids[a], owner |-> a, name |-> Owner,
                     parent |-> NoParent, size |-> size] : a \in FirstAccounts}
                   \cup
                   {[id |-> ids[a] + 1, owner |-> a, name |-> Active,
                     parent |-> ids[a], size |-> size] : a \in FirstAccounts},
                links |-> {},
                next |-> 2 * Cardinality(FirstAccounts) + 1,
                ram |-> [a \in AccountNames |->
                            IF a \in FirstAccounts
                            THEN AccountSize + 2 * (PermissionSize + size) ELSE 0]]

Next == Transact

Spec == Init /\ [][Next]_db

----------------------------------------------------------------------------
(* Properties *)

\* The permissions of an account are a tree under its owner permission, with
\* parents that exist, so that the walk of satisfies() is defined and ends at
\* owner, whatever is deleted and created again (remove_permission, updateauth).
TreeUnderOwner ==
    \A p \in db.perms :
       /\ (p.name = Owner) = (p.parent = NoParent)
       /\ p.parent # NoParent =>
             \E q \in db.perms : q.id = p.parent /\ q.owner = p.owner
       /\ \E q \in db.perms : q.name = Owner /\ satisfies(db, q, p)

\* What an account is billed is what it, its permissions and its links take
\* up (add_ram_usage in the five native actions).
BilledForWhatThereIs ==
    \A a \in AccountNames :
       db.ram[a] =
          (IF a \in Accounts(db) THEN AccountSize ELSE 0)
          + MapThenSumSet(LAMBDA p : PermissionSize + p.size,
                          {p \in db.perms : p.owner = a})
          + LinkSize * Cardinality({l \in db.links : l.account = a})

\* A permission that an account had when it linked an action to it is there as
\* long as the link, so that the action can be authorized and the link changed
\* or removed, whatever is deleted and created again.  A link to a permission
\* that only another account had is not promised that
\* (apply_eosio_linkauth, apply_eosio_deleteauth).
LinkedPermissionKept ==
    \A l \in db.links : l.held => has_permission(db, l.account, l.permission)
=============================================================================
