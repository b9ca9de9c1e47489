------------------------------- MODULE Toasts -------------------------------
(***************************************************************************)
(* The notifications of the web UI (web/src/state/index.ts): the toasts on *)
(* screen, each with a timer that takes it off, the history behind them,   *)
(* and the throttle in front of the errors of the wire client.             *)
(*                                                                         *)
(* Time is in seconds.  A notification is told apart by its signature; the *)
(* signatures of this model are numbers, and the number is the time that   *)
(* its level stays on screen (TOAST_TTL_MS).                               *)
(***************************************************************************)
EXTENDS Integers, Sequences, Lists

CONSTANTS Signatures,    \* e.g. 3: an information, 8: an error
          MAX_TOASTS, MAX_NOTIFICATION_HISTORY,
          DuplicateWindow,  \* DUPLICATE_TOAST_WINDOW_MS, and the throttle
          MaxToasts,        \* bound: notifications
          EndOfTime         \* bound: the clock

ASSUME ToastAssumption ==
  /\ Signatures \subseteq Nat \ {0} /\ DuplicateWindow \in Nat
  /\ MAX_TOASTS \in Nat \ {0} /\ MAX_NOTIFICATION_HISTORY \in Nat \ {0}
  /\ MaxToasts \in Nat /\ EndOfTime \in Nat

VARIABLES time,
          toasts, history,
          toastTimers,   \* the timer of a toast: when it fires
          timeouts,      \* the timeouts of the browser that have not fired
          toastSeq,
          wire,          \* suppressedWireErrors and lastWireErrorToastMs
          toasted,        \* history: notifications pushed
          forgotten      \* history: those that the history has let go

toast_vars == <<time, toasts, history, toastTimers, timeouts, toastSeq, wire,
                toasted, forgotten>>

Counts(items) == Total([i \in DOMAIN items |-> items[i].count])
Ids_(items) == {items[i].id : i \in DOMAIN items}

ToastInit ==
  /\ time = 0 /\ toasts = <<>> /\ history = <<>>
  /\ toastTimers = [i \in {} |-> 0] /\ timeouts = {} /\ toastSeq = 1
  /\ wire = [suppressed |-> 0, last |-> -DuplicateWindow]
  /\ toasted = 0 /\ forgotten = 0

-----------------------------------------------------------------------------
Timeouts(ids, timers) == {<<i, timers[i]>> : i \in ids \cap DOMAIN timers}
Without(ids, timers) == [i \in DOMAIN timers \ ids |-> timers[i]]

(* Mutant of scheduleToastExpiry: the timer that runs is not cleared. *)
scheduleToastExpiryAgain(id, at, cleared) ==
  /\ toastTimers' = [i \in (DOMAIN toastTimers \ cleared) \cup {id} |->
                       IF i = id THEN at ELSE toastTimers[i]]
  /\ timeouts' = (timeouts \ Timeouts(cleared, toastTimers)) \cup {<<id, at>>}

(* scheduleToastExpiry, after clearToastTimer for the toasts that a push   *)
(* displaces.                                                              *)
scheduleToastExpiry(id, at, cleared) ==
  LET rest == Without(cleared \cup {id}, toastTimers) IN
    /\ toastTimers' = [i \in DOMAIN rest \cup {id} |->
                         IF i = id THEN at ELSE rest[i]]
    /\ timeouts' = (timeouts \ Timeouts(cleared \cup {id}, toastTimers))
                     \cup {<<id, at>>}

(* The first item with this signature that is recent enough. *)
Duplicate(items, sig) ==
  FirstOf({i \in DOMAIN items : /\ items[i].sig = sig
                                /\ time - items[i].lastTs <= DuplicateWindow})

LastN(seq, n) == IF Len(seq) <= n THEN seq ELSE SubSeq(seq, Len(seq) - n + 1, Len(seq))

upsertNotificationHistory(id, sig) ==
  LET d == Duplicate(history, sig)
      all == Append(history, [id |-> id, sig |-> sig, lastTs |-> time, count |-> 1])
      kept == LastN(all, MAX_NOTIFICATION_HISTORY) IN
    IF d > 0
    THEN /\ history' = [i \in DOMAIN history |->
                          IF history[i].id = history[d].id
                          THEN [history[i] EXCEPT !.lastTs = time, !.count = @ + 1]
                          ELSE history[i]]
         /\ UNCHANGED forgotten
    ELSE /\ history' = kept
         /\ forgotten' = forgotten + Counts(all) - Counts(kept)

(* A notification that repeats one on screen prolongs and counts it. *)
pushDuplicate(sig, d) ==
  LET id == toasts[d].id IN
    /\ scheduleToastExpiry(id, time + sig, {})
    /\ toasts' = [i \in DOMAIN toasts |->
                    IF toasts[i].id # id THEN toasts[i]
                    ELSE [toasts[i] EXCEPT !.lastTs = time, !.count = @ + 1,
                                           !.expiresAt = time + sig]]
    /\ upsertNotificationHistory(id, sig)
    /\ UNCHANGED toastSeq

(* A new one displaces the oldest when the screen is full. *)
pushNew(sig) ==
  LET all == Append(toasts, [id |-> toastSeq, sig |-> sig, lastTs |-> time,
                             count |-> 1, expiresAt |-> time + sig])
      kept == LastN(all, MAX_TOASTS) IN
    /\ toasts' = kept
    /\ scheduleToastExpiry(toastSeq, time + sig, Ids_(all) \ Ids_(kept))
    /\ upsertNotificationHistory(toastSeq, sig)
    /\ toastSeq' = toastSeq + 1

pushToast(sig) ==
  LET d == Duplicate(toasts, sig) IN
    /\ IF d > 0 THEN pushDuplicate(sig, d) ELSE pushNew(sig)
    /\ toasted' = toasted + 1
    /\ UNCHANGED time

Push(sig) == toasted < MaxToasts /\ pushToast(sig) /\ UNCHANGED wire

(* handleWireClientError: within the window it is only counted, for the    *)
(* text of the next one.                                                   *)
handleWireClientError(sig) ==
  /\ toasted + wire.suppressed < MaxToasts
  /\ \/ /\ time - wire.last < DuplicateWindow
        /\ wire' = [wire EXCEPT !.suppressed = @ + 1]
        /\ UNCHANGED <<time, toasts, history, toastTimers, timeouts, toastSeq,
                       toasted, forgotten>>
     \/ /\ time - wire.last >= DuplicateWindow
        /\ wire' = [suppressed |-> 0, last |-> time]
        /\ pushToast(sig)

-----------------------------------------------------------------------------
(* Toasts leave the screen, with their timers. *)
TakeOff(ids) ==
  /\ toasts' = Keep(toasts, {i \in DOMAIN toasts : toasts[i].id \notin ids})
  /\ toastTimers' = Without(ids, toastTimers)
  /\ UNCHANGED <<time, history, toastSeq, wire, toasted, forgotten>>

(* expireToast: a timeout fires. *)
expireToast(timeout) ==
  /\ timeout \in timeouts /\ timeout[2] <= time
  /\ TakeOff({timeout[1]})
  /\ timeouts' = (timeouts \ {timeout}) \ Timeouts({timeout[1]}, toastTimers)

dismiss(ids) ==
  /\ TakeOff(ids)
  /\ timeouts' = timeouts \ Timeouts(ids, toastTimers)

dismissToast == \E id \in Ids_(toasts) : dismiss({id})
dismissAllToasts == toasts # <<>> /\ dismiss(Ids_(toasts))

clearNotificationHistory ==
  /\ history # <<>>
  /\ history' = <<>> /\ forgotten' = forgotten + Counts(history)
  /\ UNCHANGED <<time, toasts, toastTimers, timeouts, toastSeq, wire, toasted>>

(* A timeout may fire late, so time does not wait for it. *)
PassTime ==
  /\ time < EndOfTime
  /\ time' = time + 1
  /\ UNCHANGED <<toasts, history, toastTimers, timeouts, toastSeq, wire, toasted,
                 forgotten>>

ToastNext ==
  \/ \E sig \in Signatures : Push(sig) \/ handleWireClientError(sig)
  \/ \E timeout \in timeouts : expireToast(timeout)
  \/ dismissToast \/ dismissAllToasts \/ clearNotificationHistory
  \/ PassTime

ToastSpec == ToastInit /\ [][ToastNext]_toast_vars

-----------------------------------------------------------------------------
(* Every toast on screen has exactly one timeout, at the end of its time   *)
(* there, and no other timeout is left: a repeated notification stays its  *)
(* full time, and none stays for ever, whatever is pushed, displaced and   *)
(* dismissed meanwhile (scheduleToastExpiry, clearToastTimer).             *)
ToastsExpire ==
  /\ timeouts = {<<toasts[i].id, toasts[i].expiresAt>> : i \in DOMAIN toasts}
  /\ Len(toasts) <= MAX_TOASTS

(* The history counts every notification once: repeated ones, ones that    *)
(* were dismissed or displaced, and ones whose toast and history item no   *)
(* longer have the same id (upsertNotificationHistory).                    *)
NotificationsCounted == Counts(history) + forgotten = toasted

(* Toasts go when they should, and the history still counts them all.      *)
ToastsAccount == ToastsExpire /\ NotificationsCounted
=============================================================================
