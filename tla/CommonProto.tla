---------------------------- MODULE CommonProto ----------------------------
(*
  The messages of common.proto (common.pb.h, common.pb.cc), which the messages of
  player.proto contain.

  Per message, each from the lines of its own method and no other:
    X        the members of the class, in the order the class lays them out
    X_bits   the bit of _has_bits_ the accessors of each member use
    X_reset  SharedCtor, the copy constructor, Clear
    X_parse  MergePartialFromCodedStream: the member each tag is read into
    X_write  SerializeWithCachedSizes and the variant that writes to an array
    X_size   ByteSizeLong and RequiredFieldsByteSizeFallback
    X_merge  MergeFrom, IsInitialized, InternalSwap
  Protobuf.tla says what such a table means.
*)
EXTENDS ProtobufTables

EmptyMessage == <<>>
EmptyMessage_bits == <<>>
EmptyMessage_reset == Reset(<<>>, Copy({}, {}, <<>>), <<>>)
EmptyMessage_parse == <<>>
EmptyMessage_write == Both(<<>>)
EmptyMessage_size == Size({}, {}, {}, {}, {}, {})
EmptyMessage_merge == Merge({}, <<>>, {}, {}, {})

ErrorMessage == <<Rep("args", "string"), Req("errorcode", "int32")>>
ErrorMessage_bits == [errorcode |-> 0]
ErrorMessage_reset == Reset(<<Put(Always, [errorcode |-> 0])>>,
    Copy({"args", "errorcode"}, {}, <<>>), <<Put(Always,
    [args |-> <<>>, errorcode |-> 0])>>)
ErrorMessage_parse == 8 :> "errorcode" @@ 18 :> "args"
ErrorMessage_write == Both(<<W(1, "errorcode", 0), All(2, "args")>>)
ErrorMessage_size == Size({}, {}, {}, {"errorcode"}, {}, {"args"})
ErrorMessage_merge == Merge({"args"}, <<Own({0}, [errorcode |-> 0])>>, {0}, {},
    {"args", "errorcode"})

PositionDTO == <<Req("x", "int32"), Req("y", "int32")>>
PositionDTO_bits == [x |-> 0, y |-> 1]
PositionDTO_reset == Reset(<<Zero(Always, "x", "y")>>, Copy({}, {}, <<"x", "y">>),
    <<Zero({0, 1}, "x", "y")>>)
PositionDTO_parse == 8 :> "x" @@ 16 :> "y"
PositionDTO_write == Both(<<W(1, "x", 0), W(2, "y", 1)>>)
PositionDTO_size == Size({0, 1}, {"x", "y"}, {"x", "y"}, {}, {}, {})
PositionDTO_merge == Merge({}, <<Ored({0, 1}, [x |-> 0, y |-> 1])>>, {0, 1}, {}, {"x", "y"})

PropertyDTO == <<Req("type", "int32"), Req("value", "int32")>>
PropertyDTO_bits == [type |-> 0, value |-> 1]
PropertyDTO_reset == Reset(<<Zero(Always, "type", "value")>>,
    Copy({}, {}, <<"type", "value">>), <<Zero({0, 1}, "type", "value")>>)
PropertyDTO_parse == 8 :> "type" @@ 16 :> "value"
PropertyDTO_write == Both(<<W(1, "type", 0), W(2, "value", 1)>>)
PropertyDTO_size == Size({0, 1}, {"type", "value"}, {"type", "value"}, {}, {}, {})
PropertyDTO_merge == Merge({}, <<Ored({0, 1}, [type |-> 0, value |-> 1])>>, {0, 1}, {},
    {"type", "value"})

ItemDTO == <<Req("itemid", "int32"), Req("count", "int32")>>
ItemDTO_bits == [itemid |-> 0, count |-> 1]
ItemDTO_reset == Reset(<<Zero(Always, "itemid", "count")>>,
    Copy({}, {}, <<"itemid", "count">>), <<Zero({0, 1}, "itemid", "count")>>)
ItemDTO_parse == 8 :> "itemid" @@ 16 :> "count"
ItemDTO_write == Both(<<W(1, "itemid", 0), W(2, "count", 1)>>)
ItemDTO_size == Size({0, 1}, {"itemid", "count"}, {"itemid", "count"}, {}, {}, {})
ItemDTO_merge == Merge({}, <<Ored({0, 1}, [itemid |-> 0, count |-> 1])>>, {0, 1}, {},
    {"itemid", "count"})

SoldierDTO == <<Req("armytype", "int32"), Req("armynum", "int32")>>
SoldierDTO_bits == [armytype |-> 0, armynum |-> 1]
SoldierDTO_reset == Reset(<<Zero(Always, "armytype", "armynum")>>,
    Copy({}, {}, <<"armytype", "armynum">>), <<Zero({0, 1}, "armytype", "armynum")>>)
SoldierDTO_parse == 8 :> "armytype" @@ 16 :> "armynum"
SoldierDTO_write == Both(<<W(1, "armytype", 0), W(2, "armynum", 1)>>)
SoldierDTO_size == Size({0, 1}, {"armytype", "armynum"}, {"armytype", "armynum"}, {}, {},
    {})
SoldierDTO_merge == Merge({}, <<Ored({0, 1}, [armytype |-> 0, armynum |-> 1])>>, {0, 1}, {},
    {"armytype", "armynum"})

LevelSoldierDTO == <<Req("soldier", "SoldierDTO"), Req("level", "int32")>>
LevelSoldierDTO_bits == [soldier |-> 0, level |-> 1]
LevelSoldierDTO_reset == Reset(<<Zero(Always, "soldier", "level")>>,
    Copy({"level"}, {"soldier"}, <<>>), <<Each({0}, [soldier |-> 0]),
    Put(Always, [level |-> 0])>>)
LevelSoldierDTO_parse == 10 :> "soldier" @@ 16 :> "level"
LevelSoldierDTO_write == Both(<<W(1, "soldier", 0), W(2, "level", 1)>>)
LevelSoldierDTO_size == Size({0, 1}, {"soldier", "level"}, {"soldier", "level"}, {}, {}, {})
LevelSoldierDTO_merge == Merge({}, <<Ored({0, 1}, [soldier |-> 0, level |-> 1])>>, {0, 1},
    {"soldier"}, {"soldier", "level"})

EquipmentDTO == <<Rep("gemstonelist", "int32"), Req("id", "int32"), Req("level", "int32"),
    Req("exp", "int32"), Req("type", "int32")>>
EquipmentDTO_bits == [id |-> 0, level |-> 1, exp |-> 2, type |-> 3]
EquipmentDTO_reset == Reset(<<Zero(Always, "id", "type")>>,
    Copy({"gemstonelist"}, {}, <<"id", "type">>), <<Put(Always, [gemstonelist |-> <<>>]),
    Zero(0..3, "id", "type")>>)
EquipmentDTO_parse == 8 :> "id" @@ 16 :> "level" @@ 24 :> "exp" @@ 32 :> "gemstonelist"
    @@ 34 :> "gemstonelist" @@ 40 :> "type"
EquipmentDTO_write == Both(<<W(1, "id", 0), W(2, "level", 1), W(3, "exp", 2),
    All(4, "gemstonelist"), W(5, "type", 3)>>)
EquipmentDTO_size == Size(0..3, {"id", "level", "exp", "type"},
    {"id", "level", "exp", "type"}, {}, {}, {"gemstonelist"})
EquipmentDTO_merge == Merge({"gemstonelist"}, <<Ored(0..3,
    [id |-> 0, level |-> 1, exp |-> 2, type |-> 3])>>, 0..3, {},
    {"gemstonelist", "id", "level", "exp", "type"})

VipDTO == <<Req("viplevel", "int32"), Req("activated", "bool")>>
VipDTO_bits == [viplevel |-> 0, activated |-> 1]
VipDTO_reset == Reset(<<Zero(Always, "viplevel", "activated")>>,
    Copy({}, {}, <<"viplevel", "activated">>), <<Zero({0, 1}, "viplevel", "activated")>>)
VipDTO_parse == 8 :> "viplevel" @@ 16 :> "activated"
VipDTO_write == Both(<<W(1, "viplevel", 0), W(2, "activated", 1)>>)
VipDTO_size == Size({0, 1}, {"viplevel", "activated"}, {"viplevel", "activated"}, {}, {},
    {})
VipDTO_merge == Merge({}, <<Ored({0, 1}, [viplevel |-> 0, activated |-> 1])>>, {0, 1}, {},
    {"viplevel", "activated"})

\* The classes of this file.
CommonProtos == [
  EmptyMessage |-> Row(EmptyMessage, EmptyMessage_bits, EmptyMessage_reset,
    EmptyMessage_parse, EmptyMessage_write, EmptyMessage_size, EmptyMessage_merge),
  ErrorMessage |-> Row(ErrorMessage, ErrorMessage_bits, ErrorMessage_reset,
    ErrorMessage_parse, ErrorMessage_write, ErrorMessage_size, ErrorMessage_merge),
  PositionDTO |-> Row(PositionDTO, PositionDTO_bits, PositionDTO_reset, PositionDTO_parse,
    PositionDTO_write, PositionDTO_size, PositionDTO_merge),
  PropertyDTO |-> Row(PropertyDTO, PropertyDTO_bits, PropertyDTO_reset, PropertyDTO_parse,
    PropertyDTO_write, PropertyDTO_size, PropertyDTO_merge),
  ItemDTO |-> Row(ItemDTO, ItemDTO_bits, ItemDTO_reset, ItemDTO_parse, ItemDTO_write,
    ItemDTO_size, ItemDTO_merge),
  SoldierDTO |-> Row(SoldierDTO, SoldierDTO_bits, SoldierDTO_reset, SoldierDTO_parse,
    SoldierDTO_write, SoldierDTO_size, SoldierDTO_merge),
  LevelSoldierDTO |-> Row(LevelSoldierDTO, LevelSoldierDTO_bits, LevelSoldierDTO_reset,
    LevelSoldierDTO_parse, LevelSoldierDTO_write, LevelSoldierDTO_size,
    LevelSoldierDTO_merge),
  EquipmentDTO |-> Row(EquipmentDTO, EquipmentDTO_bits, EquipmentDTO_reset,
    EquipmentDTO_parse, EquipmentDTO_write, EquipmentDTO_size, EquipmentDTO_merge),
  VipDTO |-> Row(VipDTO, VipDTO_bits, VipDTO_reset, VipDTO_parse, VipDTO_write,
    VipDTO_size, VipDTO_merge)]
======================================================================
