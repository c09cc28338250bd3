---------------------------- MODULE WalletManager ----------------------------
(***************************************************************************)
(* wallet_manager and soft_wallet: named wallets in memory, locked or not, *)
(* each with its encrypted file; all of them are locked at the first call  *)
(* after too long a pause.  Files can disappear and writes can fail.       *)
(*                                                                         *)
(* A private key stands for its pair, encryption keeps the keys with the   *)
(* password that opens them, and passwords are numbered as create hands    *)
(* them out.                                                               *)
(***************************************************************************)
EXTENDS Naturals, FiniteSets

CONSTANTS
    Name, Key,
    Timeout,       \* unlock-timeout at the start
    NewTimeouts,   \* what set_timeout may be called with
    Huge,          \* a timeout that overflows the clock
    MaxTime,       \* bound: the clock
    MaxPasswords   \* bound: wallets created

WalletAssumption ==
    /\ Timeout \in Nat \ {0} /\ NewTimeouts \subseteq Nat /\ Huge \in Nat
    /\ MaxTime \in Nat /\ MaxPasswords \in Nat

VARIABLES
    now,           \* the clock
    timer,         \* timeout and timeout_time
    wallets,       \* name to soft_wallet, or none
    files,         \* name to what the file holds, or none
    passwords,     \* handed out so far
    promised,      \* history, per name: the password and the keys of calls that
                   \* succeeded, the keys of calls that failed, file removed
    call           \* history: time of the last call, its pause and its timeout,
                   \* and the wallets that it unlocked

vars == <<now, timer, wallets, files, passwords, promised, call>>

None == [none |-> TRUE]
NoPromise == [pw |-> 0, keys |-> {}, unsure |-> {}, removed |-> FALSE]

(* chrono addition wraps around for a huge timeout.                        *)
Add(time, t) == IF t = Huge THEN 0 ELSE time + t

Init ==
    /\ now = 1
    /\ timer = [timeout |-> Timeout, time |-> Add(1, Timeout)]
    /\ wallets = [n \in Name |-> None] /\ files = [n \in Name |-> None]
    /\ passwords = 0
    /\ promised = [n \in Name |-> NoPromise]
    /\ call = [at |-> 1, pause |-> 0, limit |-> Timeout, unlocks |-> {}]
-----------------------------------------------------------------------------
(* soft_wallet.  The checksum is the hash of the password, zero if locked. *)
is_locked(w) == w.checksum = 0
encrypt_keys(w) ==
    IF is_locked(w) THEN w
    ELSE [w EXCEPT !.cipher = [keys |-> w.keys, pw |-> w.checksum]]
lock(w) == [encrypt_keys(w) EXCEPT !.keys = {}, !.checksum = 0]
opens(w, pw) == w.cipher.pw = pw
unlock(w, pw) == [w EXCEPT !.keys = w.cipher.keys, !.checksum = pw]
load_wallet_file(n) == [cipher |-> files[n], keys |-> {}, checksum |-> 0]

(* What save_wallet_file writes, and what it leaves when it cannot.        *)
save_without_encrypt(w) == w
save_wallet_file(w) == encrypt_keys(w)
-----------------------------------------------------------------------------
(* wallet_manager::check_timeout, the first thing that a call does: the    *)
(* wallets afterwards, and the timer.                                      *)
lock_all(ws) ==
    [n \in Name |-> IF ws[n] = None \/ is_locked(ws[n]) THEN ws[n] ELSE lock(ws[n])]

expired == now >= timer.time
Checked == IF expired THEN lock_all(wallets) ELSE wallets

(* A call: the wallets afterwards, and those that it unlocks.              *)
Call(ws, unlocks) ==
    /\ wallets' = ws
    /\ timer' = [timer EXCEPT !.time = Add(now, timer.timeout)]
    /\ call' = [at |-> now, pause |-> now - call.at, limit |-> timer.timeout,
                unlocks |-> unlocks]
    /\ UNCHANGED now

Throws == Call(Checked, {}) /\ UNCHANGED <<files, passwords, promised>>
Open(n) == Checked[n] # None
Unlocked(n) == Open(n) /\ ~ is_locked(Checked[n])

Put(ws, n, w) == [ws EXCEPT ![n] = w]

create(n) ==
    LET pw == passwords + 1
        w  == [cipher |-> [keys |-> {}, pw |-> pw], keys |-> {}, checksum |-> pw]
    IN  /\ passwords < MaxPasswords
        /\ IF files[n] # None THEN Throws
           ELSE \/ Throws   \* the file cannot be written
                \/ /\ files' = [files EXCEPT ![n] = save_wallet_file(w).cipher]
                   /\ Call(Put(Checked, n, w), {n})
                   /\ passwords' = pw
                   /\ promised' = [promised EXCEPT ![n] = [NoPromise EXCEPT !.pw = pw]]

open(n) ==
    IF files[n] = None THEN Throws
    ELSE /\ Call(Put(Checked, n, load_wallet_file(n)), {})
         /\ UNCHANGED <<files, passwords, promised>>

Lock(n) ==
    /\ Open(n)
    /\ Call([Checked EXCEPT ![n] = IF is_locked(@) THEN @ ELSE lock(@)], {})
    /\ UNCHANGED <<files, passwords, promised>>

(* unlock opens the wallet if it is not open.                              *)
Unlock(n, pw) ==
    LET w == IF Open(n) THEN Checked[n] ELSE load_wallet_file(n)
    IN  IF ~ Open(n) /\ files[n] = None THEN Throws
        ELSE /\ Call(Put(Checked, n, IF is_locked(w) /\ opens(w, pw)
                                     THEN unlock(w, pw) ELSE w), {n})
             /\ UNCHANGED <<files, passwords, promised>>

(* import_key, create_key and remove_key change the keys and then save;    *)
(* when the file cannot be written they throw with the keys changed.       *)
Change(n, keys, k) ==
    LET w == save_wallet_file([Checked[n] EXCEPT !.keys = keys])
    IN  /\ Call(Put(Checked, n, w), {})
        /\ \/ /\ files' = [files EXCEPT ![n] = w.cipher]
              /\ promised' = [promised EXCEPT ![n].keys =
                                 IF k \in keys THEN @ \cup {k} ELSE @ \ {k},
                                              ![n].unsure = @ \ {k}]
           \/ /\ UNCHANGED files
              /\ promised' = [promised EXCEPT ![n].unsure = @ \cup {k}]
        /\ UNCHANGED passwords

import_key(n, k) ==
    IF Unlocked(n) /\ k \notin Checked[n].keys
    THEN Change(n, Checked[n].keys \cup {k}, k) ELSE Throws

remove_key(n, pw, k) ==
    IF Unlocked(n) /\ opens(Checked[n], pw) /\ k \in Checked[n].keys
    THEN Change(n, Checked[n].keys \ {k}, k) ELSE Throws

(* list_wallets, list_keys, get_public_keys, sign_transaction, sign_digest *)
(* and the calls that throw do no more than check the timeout.             *)
Query == Throws

LockAll ==
    /\ wallets' = lock_all(wallets)
    /\ UNCHANGED <<now, timer, files, passwords, promised, call>>

(* The new timeout is in force even when set_timeout throws for overflow.  *)
set_timeout(t) ==
    /\ timer' = [timeout |-> t, time |-> Add(now, t)]
    /\ call' = [at |-> now, pause |-> now - call.at, limit |-> timer.timeout,
                unlocks |-> {}]
    /\ UNCHANGED <<now, wallets, files, passwords, promised>>
-----------------------------------------------------------------------------
Tick == now < MaxTime /\ now' = now + 1
        /\ UNCHANGED <<timer, wallets, files, passwords, promised, call>>

(* Someone removes a file while the program runs.                          *)
FileRemoved(n) ==
    /\ files[n] # None
    /\ files' = [files EXCEPT ![n] = None]
    /\ promised' = [promised EXCEPT ![n].removed = TRUE]
    /\ UNCHANGED <<now, timer, wallets, passwords, call>>

Restart ==
    /\ wallets' = [n \in Name |-> None]
    /\ timer' = [timeout |-> Timeout, time |-> Add(now, Timeout)]
    /\ call' = [at |-> now, pause |-> 0, limit |-> Timeout, unlocks |-> {}]
    /\ UNCHANGED <<now, files, passwords, promised>>

Next ==
    \/ \E n \in Name : create(n) \/ open(n) \/ Lock(n)
    \/ \E n \in Name, pw \in 1 .. passwords : Unlock(n, pw)
    \/ \E n \in Name, k \in Key : import_key(n, k)
    \/ \E n \in Name, pw \in 1 .. passwords, k \in Key : remove_key(n, pw, k)
    \/ Query
    \/ LockAll
    \/ \E t \in NewTimeouts : set_timeout(t)
    \/ Tick
    \/ \E n \in Name : FileRemoved(n)
    \/ Restart

Spec == Init /\ [][Next]_vars
-----------------------------------------------------------------------------
Cipher == [keys : SUBSET Key, pw : 1 .. MaxPasswords]
TypeOK ==
    /\ now \in 1 .. MaxTime /\ passwords \in 0 .. MaxPasswords
    /\ files \in [Name -> Cipher \cup {None}]
    /\ wallets \in [Name -> [cipher : Cipher, keys : SUBSET Key,
                             checksum : 0 .. MaxPasswords] \cup {None}]

(* The file of a wallet that nobody removed holds every key that a call    *)
(* acknowledged, and none that a call removed; only keys of calls that     *)
(* failed may or may not be there.                                         *)
KeysKept ==
    \A n \in Name :
        LET p == promised[n]
        IN p.pw # 0 /\ ~ p.removed
              => /\ p.keys \ p.unsure \subseteq files[n].keys
                 /\ files[n].keys \subseteq p.keys \cup p.unsure

(* The password that create returned last opens the wallet, in the file    *)
(* and in memory, whatever was created, removed or opened before.          *)
PasswordOpens ==
    \A n \in Name :
        promised[n].pw # 0 /\ ~ promised[n].removed
           => /\ opens([cipher |-> files[n]], promised[n].pw)
              /\ wallets[n] # None => opens(wallets[n], promised[n].pw)

(* After a pause as long as the timeout, whatever call ends it, no wallet  *)
(* is unlocked but one that this call unlocks.                             *)
IdleLocks ==
    call.pause >= call.limit
       => \A n \in Name \ call.unlocks : wallets[n] = None \/ is_locked(wallets[n])
=============================================================================
