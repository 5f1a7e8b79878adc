------------------------------ MODULE Protocol ------------------------------
(***************************************************************************)
(* The numbers both sides of the SPI link share, const/constant.h, and the *)
(* layout of a message on the wire:                                        *)
(*                                                                         *)
(*       EYE_CATCH  size  serial  msg-id  payload ...                      *)
(*                                                                         *)
(* where size counts the serial, the id and the payload.  A message is a   *)
(* record [serial, id, pay].                                               *)
(***************************************************************************)
EXTENDS Integers, Sequences

SERIAL_ID_TO_IGNORE == 0
EYE_CATCH           == 250
SPI_READ_OVERFLOW   == 245
SPI_WRITE_UNDERFLOW == 240
QUEUE_INIT_PATTERN  == 230
PROTOCOL_VERSION    == 1

MSG_ID_HANDSHAKE    == 2
MSG_ID_IDLE         == 3
MSG_ID_LED_ARRAY    == 4
MSG_ID_QUERY_NAME   == 7
MSG_ID_QUERY_NUMBER == 8
MSG_ID_RESUME       == 10
MSG_ID_STATUS       == 11
MSG_ID_SUSPEND      == 12
MSG_ID_SYNC_CLOCK   == 13
MSG_ID_VERSION      == 14

STATUS_SUCCESS == 0
STATUS_FAIL    == 1
STATUS_UNKNOWN_MSG == 2

Msg(serial, id, pay) == [serial |-> serial, id |-> id, pay |-> pay]

Messages == [serial : Nat, id : Nat, pay : Seq(Nat)]

\* The two messages of decode.c and spi.c with a fixed layout.
StatusMsg(serial, status, id) == Msg(serial, MSG_ID_STATUS, <<status, id>>)
VersionMsg == Msg(SERIAL_ID_TO_IGNORE, MSG_ID_VERSION, <<PROTOCOL_VERSION>>)

\* mcu::encode::wrap on the Pi and encode_msg on the AVR lay a message out
\* alike.
wrap(m) == <<EYE_CATCH, Len(m.pay) + 2, m.serial, m.id>> \o m.pay
=============================================================================
