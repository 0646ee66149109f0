-------------------------- MODULE OceanstorVolume --------------------------
(***************************************************************************)
(* What the LUN, file system and dtree volumes of OceanStor and Dorado     *)
(* arrays share: the SmartX helper (QoS, LUN snapshots) and the checks on  *)
(* the request's parameters that need the array.                           *)
(***************************************************************************)
EXTENDS OceanstorArray

------------------------------------------------------------------ \* SmartX
SmartCreateQos(a, s, n, kind, qos) ==
    Then(IF qos # "min" THEN Ret(a, {})
         ELSE IF kind = "fs" THEN UpdateFileSystem(a, s, n) ELSE UpdateLun(a, s, n),
    LAMBDA b, x : Then(CreateQos(b, s, n),
    LAMBDA c, q : IF The(q).on THEN Ret(c, {}) ELSE ActivateQos(c, s, n)))

SmartDeleteQos(a, s, n) ==
    Then(GetQosByID(a, s, n),
    LAMBDA b, q : LET left == The(q).objs \ {n}
                  IN  IF left # {} THEN UpdateQos(b, s, n, left)
                      ELSE Then(DeactivateQos(b, s, n), LAMBDA c, x : DeleteQos(c, s, n)))

SmartCreateLunSnapshot(a, n, of) ==
    Then(CreateLunSnapshot(a, "L", n, of),
    LAMBDA b, x : OnErr(ActivateLunSnapshot(b, "L", n), LAMBDA c : DeleteLunSnapshot(c, "L", n)))

SmartDeleteLunSnapshot(a, n) ==
    Then(DeactivateLunSnapshot(a, "L", n), LAMBDA b, x : DeleteLunSnapshot(b, "L", n))

------------------------------------------------ \* Parameters common to all
(* The pool must exist; the other parameters are checked without a call. *)
commonPreCreate(a) ==
    Then(GetPoolByName(a), LAMBDA b, pool : IF pool = {} THEN Fail(b) ELSE Ret(b, {}))

setWorkLoadID(a) ==
    Then(GetApplicationTypeByName(a), LAMBDA b, t : IF t = {} THEN Fail(b) ELSE Ret(b, {}))

getRemotePoolID(a) ==
    Then(GetPoolByName(a), LAMBDA b, pool : IF pool = {} THEN Fail(b) ELSE Ret(b, {}))

preExpandCheckCapacity(a) ==
    Then(GetPoolByName(a), LAMBDA b, pool : IF pool = {} THEN Fail(b) ELSE Ret(b, NoRes))
============================================================================
