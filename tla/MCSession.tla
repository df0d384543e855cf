---------------------------- MODULE MCSession ----------------------------
(* Small instances of Session: keys of eight bytes, which contain bytes of *)
(* the frame's marks.  The rest of the phone's key is a frame of its own   *)
(* (function code 30, one byte) for a device that has missed the start of  *)
(* it; the device's second key has the mark of a frame in its last bytes,  *)
(* where the phone's index may jump.  Cipher texts have one byte.          *)
EXTENDS Session

MCAliceKey   == <<7, 65, 0, 30, 0, 1, 13, 10>>
MCDeviceKeys == <<<<7, 65, 10, 13, 65, 7, 10, 7>>, <<10, 13, 10, 13, 7, 65, 10, 7>>,
                  <<0, 65, 10, 13, 7, 7, 13, 10>>>>
MCCipherText == <<10>>
MCOverrun    == <<13, 10, 82, 13, 10>>
=============================================================================
