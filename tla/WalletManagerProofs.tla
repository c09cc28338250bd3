------------------------ MODULE WalletManagerProofs ------------------------
(***************************************************************************)
(* Proofs about WalletManager for any names, keys, timeouts and times: the *)
(* files hold the keys that calls acknowledged, the last password opens    *)
(* them, and a pause as long as the timeout locks the wallets.             *)
(*                                                                         *)
(* A key is kept in up to three places: the file, the encrypted copy in    *)
(* memory and, while the wallet is unlocked, the keys in the clear.  Each  *)
(* of them must agree with what was promised, because any of them can be   *)
(* the one that the next call makes the others from.                       *)
(***************************************************************************)
EXTENDS WalletManager, TLAPS

Ciphers == [keys : SUBSET Key, pw : Nat]
SoftWallets == [cipher : Ciphers, keys : SUBSET Key, checksum : Nat]
Promises == [pw : Nat, keys : SUBSET Key, unsure : SUBSET Key, removed : BOOLEAN]

Types ==
    /\ wallets \in [Name -> SoftWallets \cup {None}]
    /\ files \in [Name -> Ciphers \cup {None}]
    /\ passwords \in Nat
    /\ promised \in [Name -> Promises]

(* Keys that agree with what was promised.                                 *)
Honours(p, keys) == p.keys \ p.unsure \subseteq keys /\ keys \subseteq p.keys \cup p.unsure

FileHonours(p, f) == f # None /\ f.pw = p.pw /\ Honours(p, f.keys)

WalletHonours(p, w) ==
    w # None => /\ w.cipher.pw = p.pw /\ Honours(p, w.cipher.keys)
                /\ w.checksum # 0 => w.checksum = p.pw /\ Honours(p, w.keys)

(* The part of the inductive invariant about one name.                     *)
Sound(p, f, w) ==
    /\ p.pw = 0 => f = None /\ w = None
    /\ p.pw # 0 /\ ~ p.removed => FileHonours(p, f) /\ WalletHonours(p, w)

WalletInv == Types /\ \A n \in Name : Sound(promised[n], files[n], wallets[n])
-----------------------------------------------------------------------------
(* Locking keeps what a wallet holds.                                      *)
LEMMA LockKeeps ==
    ASSUME NEW p \in Promises, NEW w \in SoftWallets, WalletHonours(p, w)
    PROVE  WalletHonours(p, lock(w))
  BY DEF WalletHonours, lock, encrypt_keys, is_locked, SoftWallets, Ciphers, None

LEMMA LockTyped ==
    ASSUME NEW w \in SoftWallets
    PROVE  lock(w) \in SoftWallets /\ lock(w).checksum = 0 /\ lock(w) # None
  BY DEF lock, encrypt_keys, is_locked, SoftWallets, Ciphers, None

LEMMA NoneIsNoWallet ==
    None \notin SoftWallets /\ None \notin Ciphers
  BY DEF None, SoftWallets, Ciphers

LEMMA LockAllKeeps ==
    ASSUME NEW ws \in [Name -> SoftWallets \cup {None}], NEW n \in Name
    PROVE  /\ lock_all(ws) \in [Name -> SoftWallets \cup {None}]
           /\ lock_all(ws)[n] = None <=> ws[n] = None
           /\ lock_all(ws)[n] = None \/ is_locked(lock_all(ws)[n])
           /\ \A p \in Promises : WalletHonours(p, ws[n]) => WalletHonours(p, lock_all(ws)[n])
  <1>1. \A m \in Name : ws[m] # None => lock(ws[m]) \in SoftWallets
    BY LockTyped
  <1>2. lock_all(ws) \in [Name -> SoftWallets \cup {None}]
    BY <1>1 DEF lock_all
  <1>3. CASE ws[n] = None \/ is_locked(ws[n])
    <2>1. lock_all(ws)[n] = ws[n] BY <1>3 DEF lock_all
    <2> QED BY <1>2, <1>3, <2>1
  <1>4. CASE ~ (ws[n] = None \/ is_locked(ws[n]))
    <2>1. lock_all(ws)[n] = lock(ws[n]) BY <1>4 DEF lock_all
    <2>2. ws[n] \in SoftWallets BY <1>4
    <2>3. \A p \in Promises : WalletHonours(p, ws[n]) => WalletHonours(p, lock(ws[n]))
      BY <2>2, LockKeeps
    <2> QED BY <1>2, <1>4, <2>1, <2>2, <2>3, LockTyped DEF is_locked
  <1> QED BY <1>3, <1>4

(* What check_timeout leaves is as good as what it found.                  *)
LEMMA CheckedGood ==
    ASSUME WalletInv
    PROVE  /\ Checked \in [Name -> SoftWallets \cup {None}]
           /\ \A n \in Name : Sound(promised[n], files[n], Checked[n])
  <1>1. wallets \in [Name -> SoftWallets \cup {None}] BY DEF WalletInv, Types
  <1>2. CASE expired
    <2>1. Checked = lock_all(wallets) BY <1>2 DEF Checked
    <2>2. \A n \in Name : promised[n] \in Promises BY DEF WalletInv, Types
    <2>3. ASSUME NEW n \in Name PROVE Sound(promised[n], files[n], Checked[n])
      BY <1>1, <2>1, <2>2, LockAllKeeps DEF WalletInv, Sound
    <2> HIDE DEF Checked
    <2>4. ASSUME Name = {} PROVE lock_all(wallets) \in [Name -> SoftWallets \cup {None}]
      BY <2>4 DEF lock_all
    <2>5. ASSUME NEW n \in Name PROVE lock_all(wallets) \in [Name -> SoftWallets \cup {None}]
      BY <1>1, LockAllKeeps
    <2> QED BY <2>1, <2>3, <2>4, <2>5
  <1>3. CASE ~ expired
    BY <1>1, <1>3 DEF Checked, WalletInv
  <1> QED BY <1>2, <1>3

LEMMA InitGood == Init => WalletInv
  BY DEF Init, WalletInv, Types, Sound, NoPromise, Promises, SoftWallets, Ciphers

(* A call that throws leaves what check_timeout leaves.                    *)
LEMMA ThrowsGood == WalletInv /\ Throws => WalletInv'
  <1> SUFFICES ASSUME WalletInv, Throws PROVE WalletInv' OBVIOUS
  <1>1. /\ Checked \in [Name -> SoftWallets \cup {None}]
        /\ \A n \in Name : Sound(promised[n], files[n], Checked[n])
    BY CheckedGood
  <1>2. /\ wallets' = Checked /\ files' = files /\ passwords' = passwords
        /\ promised' = promised
    BY DEF Throws, Call
  <1> QED BY <1>1, <1>2 DEF WalletInv, Types

(* A call that changes one wallet.                                         *)
LEMMA PutGood ==
    ASSUME WalletInv, NEW n \in Name, NEW w \in SoftWallets \cup {None},
           NEW f \in Ciphers \cup {None}, NEW p \in Promises,
           wallets' = [Checked EXCEPT ![n] = w], files' = [files EXCEPT ![n] = f],
           promised' = [promised EXCEPT ![n] = p], passwords' \in Nat,
           Sound(p, f, w)
    PROVE  WalletInv'
  <1>1. /\ Checked \in [Name -> SoftWallets \cup {None}]
        /\ \A m \in Name : Sound(promised[m], files[m], Checked[m])
    BY CheckedGood
  <1>2. Types' BY <1>1 DEF WalletInv, Types
  <1>3. ASSUME NEW m \in Name PROVE Sound(promised'[m], files'[m], wallets'[m])
    <2>1. CASE m = n
      <3>1. promised'[m] = p /\ files'[m] = f /\ wallets'[m] = w
        BY <1>1, <2>1 DEF WalletInv, Types
      <3> QED BY <3>1
    <2>2. CASE m # n
      <3>1. promised'[m] = promised[m] /\ files'[m] = files[m] /\ wallets'[m] = Checked[m]
        BY <1>1, <2>2 DEF WalletInv, Types
      <3> QED BY <1>1, <3>1
    <2> QED BY <2>1, <2>2
  <1> QED BY <1>2, <1>3 DEF WalletInv

(* The same when only the wallet changes.                                  *)
LEMMA OnlyWalletGood ==
    ASSUME WalletInv, NEW n \in Name, NEW w \in SoftWallets \cup {None},
           wallets' = [Checked EXCEPT ![n] = w],
           UNCHANGED <<files, passwords, promised>>,
           Sound(promised[n], files[n], w)
    PROVE  WalletInv'
  <1>1. files' = [files EXCEPT ![n] = files[n]] BY DEF WalletInv, Types
  <1>2. promised' = [promised EXCEPT ![n] = promised[n]] BY DEF WalletInv, Types
  <1>3. files[n] \in Ciphers \cup {None} /\ promised[n] \in Promises /\ passwords' \in Nat
    BY DEF WalletInv, Types
  <1> QED BY <1>1, <1>2, <1>3, PutGood

LEMMA CreateGood ==
    ASSUME WalletInv, NEW n \in Name, create(n)
    PROVE  WalletInv'
  <1> DEFINE pw == passwords + 1
             w == [cipher |-> [keys |-> {}, pw |-> pw], keys |-> {}, checksum |-> pw]
             p == [NoPromise EXCEPT !.pw = pw]
  <1>1. CASE Throws BY <1>1, ThrowsGood
  <1>2. CASE ~ Throws
    <2>1. /\ files' = [files EXCEPT ![n] = save_wallet_file(w).cipher]
          /\ wallets' = [Checked EXCEPT ![n] = w] /\ passwords' = pw
          /\ promised' = [promised EXCEPT ![n] = p]
      BY <1>2 DEF create, Call, Put
    <2>2. pw \in Nat \ {0} BY DEF WalletInv, Types
    <2>3. w \in SoftWallets /\ p \in Promises
      BY <2>2 DEF SoftWallets, Ciphers, Promises, NoPromise
    <2>4. save_wallet_file(w).cipher = w.cipher /\ w.cipher \in Ciphers
      BY <2>2 DEF save_wallet_file, encrypt_keys, is_locked, Ciphers
    <2>5. Sound(p, w.cipher, w)
      BY <2>2, <2>3, <2>4, NoneIsNoWallet
      DEF Sound, FileHonours, WalletHonours, Honours, NoPromise
    <2> HIDE DEF w, p, pw
    <2> QED BY <2>1, <2>2, <2>3, <2>4, <2>5, PutGood
  <1> QED BY <1>1, <1>2

(* A wallet that is read from its file.                                    *)
LEMMA LoadGood ==
    ASSUME WalletInv, NEW n \in Name, files[n] # None
    PROVE  /\ load_wallet_file(n) \in SoftWallets
           /\ Sound(promised[n], files[n], load_wallet_file(n))
  <1>1. files[n] \in Ciphers /\ promised[n] \in Promises
    BY DEF WalletInv, Types
  <1>2. load_wallet_file(n) \in SoftWallets
    BY <1>1 DEF load_wallet_file, SoftWallets
  <1>3. Sound(promised[n], files[n], wallets[n]) BY DEF WalletInv
  <1> QED BY <1>1, <1>2, <1>3
      DEF load_wallet_file, Sound, FileHonours, WalletHonours

LEMMA OpenGood ==
    ASSUME WalletInv, NEW n \in Name, open(n)
    PROVE  WalletInv'
  <1>1. CASE files[n] = None BY <1>1, ThrowsGood DEF open
  <1>2. CASE files[n] # None
    <2>1. /\ wallets' = [Checked EXCEPT ![n] = load_wallet_file(n)]
          /\ UNCHANGED <<files, passwords, promised>>
      BY <1>2 DEF open, Call, Put
    <2> QED BY <1>2, <2>1, LoadGood, OnlyWalletGood
  <1> QED BY <1>1, <1>2

LEMMA LockGood ==
    ASSUME WalletInv, NEW n \in Name, Lock(n)
    PROVE  WalletInv'
  <1> DEFINE w == Checked[n]
             v == IF is_locked(w) THEN w ELSE lock(w)
  <1>1. /\ Checked \in [Name -> SoftWallets \cup {None}]
        /\ Sound(promised[n], files[n], w)
    BY CheckedGood
  <1>2. w \in SoftWallets /\ promised[n] \in Promises
    BY <1>1 DEF Lock, Open, WalletInv, Types
  <1>3. /\ wallets' = [Checked EXCEPT ![n] = v]
        /\ UNCHANGED <<files, passwords, promised>>
    BY <1>1 DEF Lock, Call
  <1>4. v \in SoftWallets BY <1>2, LockTyped
  <1>5. WalletHonours(promised[n], w) => WalletHonours(promised[n], v)
    BY <1>2, LockKeeps
  <1>6. Sound(promised[n], files[n], v)
    BY <1>1, <1>2, <1>5, NoneIsNoWallet DEF Sound
  <1> HIDE DEF v
  <1> QED BY <1>3, <1>4, <1>6, OnlyWalletGood

LEMMA UnlockGood ==
    ASSUME WalletInv, NEW n \in Name, NEW pw \in 1 .. passwords, Unlock(n, pw)
    PROVE  WalletInv'
  <1> DEFINE w == IF Open(n) THEN Checked[n] ELSE load_wallet_file(n)
             v == IF is_locked(w) /\ opens(w, pw) THEN unlock(w, pw) ELSE w
  <1>1. CASE ~ Open(n) /\ files[n] = None
    BY <1>1, ThrowsGood DEF Unlock
  <1>2. CASE ~ (~ Open(n) /\ files[n] = None)
    <2>1. /\ wallets' = [Checked EXCEPT ![n] = v]
          /\ UNCHANGED <<files, passwords, promised>>
      BY <1>2 DEF Unlock, Call, Put
    <2>2. w \in SoftWallets /\ Sound(promised[n], files[n], w)
      BY <1>2, CheckedGood, LoadGood DEF Open
    <2>3. pw \in Nat BY DEF WalletInv, Types
    <2>4. v \in SoftWallets
      BY <2>2, <2>3 DEF unlock, SoftWallets, Ciphers
    <2>5. v.cipher = w.cipher /\ v # None /\ w # None
      BY <2>2, <2>4, NoneIsNoWallet DEF unlock, SoftWallets
    <2>6. \/ v = w
          \/ v.keys = w.cipher.keys /\ v.checksum = w.cipher.pw
      BY <2>2 DEF unlock, opens, SoftWallets
    <2> HIDE DEF v, w
    <2>7. Sound(promised[n], files[n], v)
      BY <2>2, <2>5, <2>6 DEF Sound, WalletHonours
    <2> QED BY <2>1, <2>4, <2>7, OnlyWalletGood
  <1> QED BY <1>1, <1>2

(* import_key and remove_key: keys is what the wallet shall hold.          *)
LEMMA ChangeGood ==
    ASSUME WalletInv, NEW n \in Name, NEW k \in Key, Unlocked(n),
           NEW keys, keys = Checked[n].keys \cup {k} \/ keys = Checked[n].keys \ {k},
           Change(n, keys, k)
    PROVE  WalletInv'
  <1> DEFINE u == Checked[n]
             w == save_wallet_file([u EXCEPT !.keys = keys])
             p == promised[n]
             done == [p EXCEPT !.keys = IF k \in keys THEN @ \cup {k} ELSE @ \ {k},
                               !.unsure = @ \ {k}]
             failed == [p EXCEPT !.unsure = @ \cup {k}]
  <1>1. /\ u \in SoftWallets /\ p \in Promises /\ Sound(p, files[n], u)
        /\ files[n] \in Ciphers \cup {None} /\ passwords \in Nat
    BY CheckedGood DEF Unlocked, Open, WalletInv, Types
  <1>2. u.checksum # 0 BY DEF Unlocked, is_locked
  <1>3. keys \in SUBSET Key BY <1>1 DEF SoftWallets
  <1>4. /\ w.keys = keys /\ w.checksum = u.checksum
        /\ w.cipher = [keys |-> keys, pw |-> u.checksum]
        /\ w \in SoftWallets
    BY <1>1, <1>2, <1>3
    DEF save_wallet_file, encrypt_keys, is_locked, SoftWallets, Ciphers
  <1>5. wallets' = [Checked EXCEPT ![n] = w] /\ passwords' = passwords
    BY DEF Change, Call, Put
  <1>6. w.cipher \in Ciphers BY <1>4 DEF SoftWallets
  <1> HIDE DEF w
  <1>7. u # None BY <1>1, NoneIsNoWallet
  <1>8. p.pw # 0 BY <1>1, <1>7 DEF Sound
  <1>9. p.removed \/ (u.checksum = p.pw /\ Honours(p, u.keys) /\ FileHonours(p, files[n]))
    BY <1>1, <1>2, <1>7, <1>8 DEF Sound, WalletHonours
  <1>10. CASE /\ files' = [files EXCEPT ![n] = w.cipher]
              /\ promised' = [promised EXCEPT ![n] = done]
    <2>1. /\ done \in Promises /\ done.pw = p.pw /\ done.removed = p.removed
          /\ done.keys = (IF k \in keys THEN p.keys \cup {k} ELSE p.keys \ {k})
          /\ done.unsure = p.unsure \ {k}
      BY <1>1 DEF Promises
    <2> HIDE DEF done
    <2>2. Honours(p, u.keys) => Honours(done, keys)
      BY <2>1 DEF Honours
    <2>3. Sound(done, w.cipher, w)
      BY <1>4, <1>6, <1>8, <1>9, <2>1, <2>2, NoneIsNoWallet
      DEF Sound, FileHonours, WalletHonours
    <2> QED BY <1>1, <1>4, <1>5, <1>6, <1>10, <2>1, <2>3, PutGood
  <1>11. CASE files' = files /\ promised' = [promised EXCEPT ![n] = failed]
    <2>1. /\ failed \in Promises /\ failed.pw = p.pw /\ failed.removed = p.removed
          /\ failed.keys = p.keys /\ failed.unsure = p.unsure \cup {k}
      BY <1>1 DEF Promises
    <2> HIDE DEF failed
    <2>2. /\ Honours(p, u.keys) => Honours(failed, keys)
          /\ FileHonours(p, files[n]) => FileHonours(failed, files[n])
      BY <2>1 DEF Honours, FileHonours
    <2>3. Sound(failed, files[n], w)
      BY <1>4, <1>6, <1>8, <1>9, <2>1, <2>2, NoneIsNoWallet
      DEF Sound, WalletHonours
    <2>4. files' = [files EXCEPT ![n] = files[n]] BY <1>11 DEF WalletInv, Types
    <2> QED BY <1>1, <1>4, <1>5, <1>11, <2>1, <2>3, <2>4, PutGood
  <1>12. /\ [promised EXCEPT ![n].keys = IF k \in keys THEN @ \cup {k} ELSE @ \ {k},
                           ![n].unsure = @ \ {k}]
              = [promised EXCEPT ![n] = done]
         /\ [promised EXCEPT ![n].unsure = @ \cup {k}] = [promised EXCEPT ![n] = failed]
    BY DEF WalletInv, Types, Promises
  <1> HIDE DEF done, failed
  <1>13. \/ /\ files' = [files EXCEPT ![n] = w.cipher]
            /\ promised' = [promised EXCEPT ![n] = done]
         \/ files' = files /\ promised' = [promised EXCEPT ![n] = failed]
    BY <1>12 DEF Change, w
  <1> QED BY <1>10, <1>11, <1>13

LEMMA RestGood ==
    ASSUME WalletInv,
           \/ LockAll \/ Tick \/ Restart \/ UNCHANGED vars
           \/ \E t \in NewTimeouts : set_timeout(t)
           \/ \E n \in Name : FileRemoved(n)
    PROVE  WalletInv'
  <1>1. CASE LockAll
    <2>1. /\ wallets' = lock_all(wallets) /\ files' = files /\ passwords' = passwords
          /\ promised' = promised
      BY <1>1 DEF LockAll
    <2>2. wallets \in [Name -> SoftWallets \cup {None}] BY DEF WalletInv, Types
    <2>3. \A m \in Name : wallets[m] # None => lock(wallets[m]) \in SoftWallets
      BY <2>2, LockTyped
    <2>4. Types' BY <2>1, <2>2, <2>3 DEF WalletInv, Types, lock_all
    <2>5. ASSUME NEW n \in Name PROVE Sound(promised[n], files[n], lock_all(wallets)[n])
      <3>1. promised[n] \in Promises BY DEF WalletInv, Types
      <3> QED BY <2>2, <3>1, LockAllKeeps DEF WalletInv, Sound
    <2> QED BY <2>1, <2>4, <2>5 DEF WalletInv
  <1>2. CASE Restart
    <2>1. /\ wallets' = [n \in Name |-> None] /\ files' = files
          /\ passwords' = passwords /\ promised' = promised
      BY <1>2 DEF Restart
    <2>2. \A n \in Name : Sound(promised[n], files[n], None)
      BY DEF WalletInv, Sound, WalletHonours
    <2> QED BY <2>1, <2>2 DEF WalletInv, Types
  <1>3. CASE Tick \/ UNCHANGED vars \/ \E t \in NewTimeouts : set_timeout(t)
    BY <1>3 DEF Tick, vars, set_timeout, WalletInv, Types
  <1>4. ASSUME NEW n \in Name, FileRemoved(n) PROVE WalletInv'
    <2> DEFINE p == [promised[n] EXCEPT !.removed = TRUE]
    <2>1. /\ files' = [files EXCEPT ![n] = None] /\ wallets' = wallets
          /\ promised' = [promised EXCEPT ![n] = p] /\ passwords' = passwords
          /\ files[n] # None /\ promised[n] \in Promises
      BY <1>4 DEF FileRemoved, WalletInv, Types
    <2>2. p \in Promises /\ p.removed /\ p.pw = promised[n].pw
      BY <2>1 DEF Promises
    <2>3. p.pw # 0 BY <2>1, <2>2 DEF WalletInv, Sound
    <2> HIDE DEF p
    <2>4. Types' BY <2>1, <2>2 DEF WalletInv, Types
    <2>5. ASSUME NEW m \in Name PROVE Sound(promised'[m], files'[m], wallets'[m])
      <3>1. CASE m = n BY <2>1, <2>2, <2>3, <3>1 DEF WalletInv, Types, Sound
      <3>2. CASE m # n BY <2>1, <3>2 DEF WalletInv, Types
      <3> QED BY <3>1, <3>2
    <2> QED BY <2>4, <2>5 DEF WalletInv
  <1> QED BY <1>1, <1>2, <1>3, <1>4

LEMMA StepGood == WalletInv /\ [Next]_vars => WalletInv'
  <1> SUFFICES ASSUME WalletInv, [Next]_vars PROVE WalletInv' OBVIOUS
  <1>1. ASSUME NEW n \in Name, create(n) \/ open(n) \/ Lock(n) PROVE WalletInv'
    BY <1>1, CreateGood, OpenGood, LockGood
  <1>2. ASSUME NEW n \in Name, NEW pw \in 1 .. passwords, Unlock(n, pw) PROVE WalletInv'
    BY <1>2, UnlockGood
  <1>3. ASSUME NEW n \in Name, NEW k \in Key, import_key(n, k) PROVE WalletInv'
    <2>1. CASE Throws BY <2>1, ThrowsGood
    <2>2. CASE ~ Throws
      <3>1. Unlocked(n) /\ Change(n, Checked[n].keys \cup {k}, k)
        BY <1>3, <2>2 DEF import_key
      <3> QED BY <3>1, ChangeGood
    <2> QED BY <2>1, <2>2
  <1>4. ASSUME NEW n \in Name, NEW pw \in 1 .. passwords, NEW k \in Key, remove_key(n, pw, k)
        PROVE  WalletInv'
    <2>1. CASE Throws BY <2>1, ThrowsGood
    <2>2. CASE ~ Throws
      <3>1. Unlocked(n) /\ Change(n, Checked[n].keys \ {k}, k)
        BY <1>4, <2>2 DEF remove_key
      <3> QED BY <3>1, ChangeGood
    <2> QED BY <2>1, <2>2
  <1>5. CASE Query BY <1>5, ThrowsGood DEF Query
  <1>6. CASE \/ LockAll \/ Tick \/ Restart \/ UNCHANGED vars
             \/ \E t \in NewTimeouts : set_timeout(t)
             \/ \E n \in Name : FileRemoved(n)
    BY <1>6, RestGood
  <1> QED BY <1>1, <1>2, <1>3, <1>4, <1>5, <1>6 DEF Next
-----------------------------------------------------------------------------
(* The file of a wallet that nobody removed holds every key that           *)
(* import_key acknowledged and none that remove_key did, through failed    *)
(* writes, locks, timeouts, reopening and restarts.                        *)
THEOREM FilesKeepKeys == Spec => []KeysKept
  <1>1. WalletInv => KeysKept
    BY DEF WalletInv, Sound, FileHonours, Honours, KeysKept
  <1> QED BY <1>1, InitGood, StepGood, PTL DEF Spec

(* The password that create returned last opens the wallet, in its file    *)
(* and in memory.                                                          *)
THEOREM LastPasswordOpens == Spec => []PasswordOpens
  <1>1. WalletInv => PasswordOpens
    BY DEF WalletInv, Sound, FileHonours, WalletHonours, PasswordOpens, opens
  <1> QED BY <1>1, InitGood, StepGood, PTL DEF Spec

-----------------------------------------------------------------------------
(* The timer always stands at the timeout after the last call.             *)
Timed ==
    /\ now \in Nat /\ call.at \in Nat /\ call.at <= now
    /\ timer \in [timeout : Nat, time : Nat]
    /\ timer.time = Add(call.at, timer.timeout)

IdleInv == WalletInv /\ Timed /\ IdleLocks

LEMMA CheckedLocked ==
    ASSUME WalletInv, expired, NEW n \in Name
    PROVE  Checked[n] = None \/ is_locked(Checked[n])
  BY LockAllKeeps DEF Checked, WalletInv, Types

(* A call that comes too late leaves all but what it unlocks locked.       *)
LEMMA CallIdle ==
    ASSUME IdleInv, NEW ws, NEW un, Call(ws, un),
           expired => \A m \in Name \ un : ws[m] = None \/ is_locked(ws[m])
    PROVE  Timed' /\ IdleLocks'
  <1>1. /\ wallets' = ws /\ now' = now
        /\ timer' = [timer EXCEPT !.time = Add(now, timer.timeout)]
        /\ call' = [at |-> now, pause |-> now - call.at, limit |-> timer.timeout,
                    unlocks |-> un]
    BY DEF Call
  <1>2. Timed' BY <1>1 DEF Timed, IdleInv, Add
  <1>3. now - call.at >= timer.timeout => expired
    BY DEF Timed, IdleInv, expired, Add
  <1>4. IdleLocks'
    BY <1>1, <1>3 DEF IdleLocks, is_locked
  <1> QED BY <1>2, <1>4

LEMMA ThrowsIdle == IdleInv /\ Throws => Timed' /\ IdleLocks'
  <1> SUFFICES ASSUME IdleInv, Throws PROVE Timed' /\ IdleLocks' OBVIOUS
  <1>1. Call(Checked, {}) BY DEF Throws
  <1>2. expired => \A m \in Name \ {} : Checked[m] = None \/ is_locked(Checked[m])
    BY CheckedLocked DEF IdleInv
  <1> QED BY <1>1, <1>2, CallIdle

(* One wallet is replaced by a locked one, or by one that is unlocked.     *)
LEMMA PutIdle ==
    ASSUME IdleInv, NEW n \in Name, NEW w, NEW un,
           Call([Checked EXCEPT ![n] = w], un), expired => n \in un \/ is_locked(w)
    PROVE  Timed' /\ IdleLocks'
  <1>1. Checked \in [Name -> SoftWallets \cup {None}] BY CheckedGood DEF IdleInv
  <1> DEFINE ws == [Checked EXCEPT ![n] = w]
  <1>2. ASSUME expired, NEW m \in Name \ un PROVE ws[m] = None \/ is_locked(ws[m])
    <2>1. CASE m = n BY <1>1, <1>2, <2>1
    <2>2. CASE m # n
      <3>1. ws[m] = Checked[m] BY <1>1, <2>2
      <3> QED BY <1>2, <3>1, CheckedLocked DEF IdleInv
    <2> QED BY <2>1, <2>2
  <1>3. expired => \A m \in Name \ un : ws[m] = None \/ is_locked(ws[m]) BY <1>2
  <1> HIDE DEF ws
  <1>4. Call(ws, un) BY DEF ws
  <1> QED BY <1>3, <1>4, CallIdle

LEMMA LockIdle ==
    ASSUME IdleInv, NEW n \in Name, Lock(n)
    PROVE  Timed' /\ IdleLocks'
  <1> DEFINE w == IF is_locked(Checked[n]) THEN Checked[n] ELSE lock(Checked[n])
  <1>1. Checked \in [Name -> SoftWallets \cup {None}] BY CheckedGood DEF IdleInv
  <1>2. Checked[n] \in SoftWallets BY <1>1 DEF Lock, Open
  <1>3. is_locked(w) BY <1>2, LockTyped DEF is_locked
  <1>4. Call([Checked EXCEPT ![n] = w], {}) BY <1>1 DEF Lock
  <1> HIDE DEF w
  <1> QED BY <1>3, <1>4, PutIdle

LEMMA ChangeIdle ==
    ASSUME IdleInv, NEW n \in Name, Unlocked(n), NEW keys, NEW k, Change(n, keys, k)
    PROVE  Timed' /\ IdleLocks'
  <1> DEFINE w == save_wallet_file([Checked[n] EXCEPT !.keys = keys])
  <1>1. Call([Checked EXCEPT ![n] = w], {}) BY DEF Change, Put
  <1>2. ~ expired BY CheckedLocked DEF Unlocked, Open, IdleInv
  <1> HIDE DEF w
  <1> QED BY <1>1, <1>2, PutIdle

LEMMA IdleStep ==
    ASSUME WalletAssumption, NewTimeouts = {}, IdleInv, [Next]_vars
    PROVE  IdleInv'
  <1>1. WalletInv' BY StepGood DEF IdleInv
  <1> SUFFICES Timed' /\ IdleLocks' BY <1>1 DEF IdleInv
  <1>2. ASSUME Throws PROVE Timed' /\ IdleLocks' BY <1>2, ThrowsIdle
  <1>3. ASSUME NEW n \in Name, create(n) PROVE Timed' /\ IdleLocks'
    <2> DEFINE pw == passwords + 1
               w == [cipher |-> [keys |-> {}, pw |-> pw], keys |-> {}, checksum |-> pw]
    <2>1. Throws \/ Call([Checked EXCEPT ![n] = w], {n}) BY <1>3 DEF create, Put
    <2> HIDE DEF w
    <2> QED BY <1>2, <2>1, PutIdle
  <1>4. ASSUME NEW n \in Name, open(n) PROVE Timed' /\ IdleLocks'
    <2>1. Throws \/ Call([Checked EXCEPT ![n] = load_wallet_file(n)], {})
      BY <1>4 DEF open, Put
    <2>2. is_locked(load_wallet_file(n)) BY DEF is_locked, load_wallet_file
    <2> QED BY <1>2, <2>1, <2>2, PutIdle
  <1>5. ASSUME NEW n \in Name, NEW pw \in 1 .. passwords, Unlock(n, pw)
        PROVE  Timed' /\ IdleLocks'
    <2>1. Throws \/ \E w : Call([Checked EXCEPT ![n] = w], {n})
      BY <1>5 DEF Unlock, Put
    <2> QED BY <1>2, <2>1, PutIdle
  <1>6. ASSUME NEW n \in Name, NEW k \in Key, import_key(n, k) PROVE Timed' /\ IdleLocks'
    <2>1. Throws \/ (Unlocked(n) /\ Change(n, Checked[n].keys \cup {k}, k))
      BY <1>6 DEF import_key
    <2> QED BY <1>2, <2>1, ChangeIdle
  <1>7. ASSUME NEW n \in Name, NEW pw \in 1 .. passwords, NEW k \in Key, remove_key(n, pw, k)
        PROVE  Timed' /\ IdleLocks'
    <2>1. Throws \/ (Unlocked(n) /\ Change(n, Checked[n].keys \ {k}, k))
      BY <1>7 DEF remove_key
    <2> QED BY <1>2, <2>1, ChangeIdle
  <1>8. CASE LockAll
    <2>1. wallets' = lock_all(wallets) /\ UNCHANGED <<now, timer, call>>
      BY <1>8 DEF LockAll
    <2>2. wallets \in [Name -> SoftWallets \cup {None}] BY DEF IdleInv, WalletInv, Types
    <2>3. \A m \in Name : lock_all(wallets)[m] = None \/ is_locked(lock_all(wallets)[m])
      BY <2>2, LockAllKeeps
    <2>4. Timed' BY <2>1 DEF IdleInv, Timed
    <2>5. IdleLocks' BY <2>1, <2>3 DEF IdleLocks, is_locked
    <2> QED BY <2>4, <2>5
  <1>9. CASE Restart
    BY <1>9 DEF Restart, IdleInv, Timed, IdleLocks, WalletAssumption, Add
  <1>10. CASE Tick \/ UNCHANGED vars \/ \E n \in Name : FileRemoved(n)
    <2>1. /\ UNCHANGED <<timer, wallets, call>> /\ (now' = now \/ now' = now + 1)
      BY <1>10 DEF Tick, vars, FileRemoved
    <2>2. Timed' BY <2>1 DEF IdleInv, Timed
    <2>3. IdleLocks' BY <2>1 DEF IdleInv, IdleLocks, is_locked
    <2> QED BY <2>2, <2>3
  <1>11. ASSUME NEW t \in NewTimeouts, set_timeout(t) PROVE FALSE OBVIOUS
  <1>12. CASE \E n \in Name : create(n) \/ open(n) \/ Lock(n)
    BY <1>3, <1>4, <1>12, LockIdle
  <1> QED BY <1>2, <1>5, <1>6, <1>7, <1>8, <1>9, <1>10, <1>11, <1>12 DEF Next, Query

(* When the timeout is not changed, the first call after a pause of that   *)
(* length finds all wallets locked, whatever the calls before it did: none *)
(* is unlocked afterwards but one that this call unlocks.                  *)
THEOREM IdleWalletsLock ==
    ASSUME WalletAssumption, NewTimeouts = {}
    PROVE  Spec => []IdleLocks
  <1>1. Init => IdleInv
    BY InitGood DEF Init, IdleInv, Timed, IdleLocks, WalletAssumption, Add
  <1>2. IdleInv /\ [Next]_vars => IdleInv' BY IdleStep
  <1>3. IdleInv => IdleLocks BY DEF IdleInv
  <1> QED BY <1>1, <1>2, <1>3, PTL DEF Spec
=============================================================================
