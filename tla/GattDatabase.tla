---------------------------- MODULE GattDatabase ----------------------------
(***************************************************************************)
(* The attribute database of src/gatt.cpp and the answers its request      *)
(* handlers compute from it: the four service tables, the scan over the    *)
(* registered services every handler runs, and the length each response    *)
(* ends with.  Attribute types are names; a value is its size, and a part  *)
(* of it the interval of its bytes.  An item of size 0 has no memory for a *)
(* value (nullptr in the code).                                            *)
(*                                                                         *)
(* The handlers append entries of one size until the next would not fit;   *)
(* Page is the closed form of that loop.                                   *)
(***************************************************************************)
EXTENDS Naturals, Sequences, SequencesExt

Item(handle, type, size, permission) ==
    [handle |-> handle, type |-> type, size |-> size, permission |-> permission]

CCC == "client_characteristic_configuration"

items_gacc ==
    <<Item(1, "primary_service", 2, {"read"}),
      Item(2, "characteristic", 5, {"read"}),
      Item(3, "device_name", 32, {"read"})>>

items_gatt ==
    <<Item(17, "primary_service", 2, {"read"}),
      Item(18, "characteristic", 5, {"read"}),
      Item(19, "service_changed", 4, {"read"}),
      Item(20, CCC, 2, {"read", "write"})>>

items_battery ==
    <<Item(257, "primary_service", 2, {"read"}),
      Item(258, "characteristic", 5, {"read"}),
      Item(259, "battery_level", 1, {"read_authenticate"}),
      Item(260, CCC, 2, {"read", "write_authenticate"})>>

items_test ==
    <<Item(4097, "primary_service", 2, {"read"}),
      Item(4098, "characteristic", 5, {"read"}),
      Item(4099, "test_rx", 0, {"write"}),
      Item(4113, "characteristic", 5, {"read"}),
      Item(4114, "test_tx", 0, {"read"}),
      Item(4115, CCC, 2, {"read", "write"})>>

ServiceId == {"generic_access", "generic_attribute", "battery", "test"}

\* gatt_service_t, as gatt_init fills it
Service == [id \in ServiceId |->
    CASE id = "generic_access"    -> [items |-> items_gacc, start_handle |-> 1, end_handle |-> 3]
      [] id = "generic_attribute" -> [items |-> items_gatt, start_handle |-> 17, end_handle |-> 20]
      [] id = "battery"           -> [items |-> items_battery, start_handle |-> 257, end_handle |-> 260]
      [] id = "test"              -> [items |-> items_test, start_handle |-> 4097, end_handle |-> 4115]]

ItemsOf == UNION {ToSet(Service[id].items) : id \in ServiceId}
ItemAt == [h \in {item.handle : item \in ItemsOf} |-> CHOOSE item \in ItemsOf : item.handle = h]
ServiceOf(h) == CHOOSE id \in ServiceId : ItemAt[h] \in ToSet(Service[id].items)

-----------------------------------------------------------------------------
(***************************************************************************)
(* The scans.  services is the array of registered services, as their ids. *)
(***************************************************************************)
Scan(services) == FlattenSeq([i \in DOMAIN services |-> Service[services[i]].items])

\* the items at these positions, in their order
Picked(items, positions) ==
    FlattenSeq([i \in DOMAIN items |-> IF i \in positions THEN <<items[i]>> ELSE <<>>])

\* what the handlers for one attribute stop at: the first item not below the handle, if it has it
Lookup(services, h) ==
    LET scan == Scan(services) IN
    {scan[i] : i \in {k \in DOMAIN scan : /\ scan[k].handle = h
                                          /\ \A j \in 1 .. k - 1 : scan[j].handle < h}}

\* Variant: items below the start of the range are not skipped.
WindowUnskipped(services, start, end) ==
    LET scan == Scan(services) IN Picked(scan, {i \in DOMAIN scan : scan[i].handle <= end})

\* the items a handler for a range visits: those not below start, up to the first above end
Window(services, start, end) ==
    LET scan    == Scan(services)
        Skip(i) == scan[i].handle < start
    IN Picked(scan, {i \in DOMAIN scan : /\ ~Skip(i)
                                         /\ \A j \in 1 .. i : Skip(j) \/ scan[j].handle <= end})

\* Variant: one entry more than fits.
PageOver(entries, header, size, mtu) ==
    SubSeq(entries, 1, Min({Len(entries), 1 + ((mtu - header) \div size)}))

\* the entries, at least one, before the next would not fit into the MTU
Page(entries, header, size, mtu) ==
    SubSeq(entries, 1, Min({Len(entries), Max({1, (mtu - header) \div size})}))

-----------------------------------------------------------------------------
(***************************************************************************)
(* The answers                                                             *)
(***************************************************************************)
gatt_send_error_resp(request, handle, code) ==
    [op |-> "error", request |-> request, handle |-> handle, code |-> code, length |-> 5]

\* a response with these entries, or the error all range requests share
Listing(request, start, page, header, size) ==
    IF page = <<>> THEN gatt_send_error_resp(request, start, "attribute_not_found")
    ELSE [op |-> request, list |-> page, length |-> header + size * Len(page)]

FindInformation(services, start, end, mtu) ==
    LET window  == Window(services, start, end)
        entries == [i \in DOMAIN window |-> [handle |-> window[i].handle, type |-> window[i].type]]
    IN Listing("find_information", start, Page(entries, 2, 4, mtu), 2, 4)

Groups(items) == [i \in DOMAIN items |->
    [handle |-> items[i].handle, end |-> Service[ServiceOf(items[i].handle)].end_handle]]

\* Variant: a declaration whose value was overwritten ends the scan.
FindByTypeValueBreaks(services, overwritten, start, end, type, id, mtu) ==
    LET window  == Window(services, start, end)
        matches == Picked(window, {i \in DOMAIN window :
                      /\ window[i].type = type /\ ServiceOf(window[i].handle) = id
                      /\ \A j \in 1 .. i : window[j].handle \notin overwritten})
    IN Listing("find_by_type_value", start, Page(Groups(matches), 1, 4, mtu), 1, 4)

\* Clients look for services; the value of a service declaration is the service's id, until it is
\* overwritten with something that is no service's id.
FindByTypeValue(services, overwritten, start, end, type, id, mtu) ==
    LET window  == Window(services, start, end)
        matches == Picked(window, {i \in DOMAIN window :
                      /\ window[i].type = type /\ ServiceOf(window[i].handle) = id
                      /\ window[i].handle \notin overwritten})
    IN Listing("find_by_type_value", start, Page(Groups(matches), 1, 4, mtu), 1, 4)

\* the items of the type, up to the first whose value is not as long as the first one's
OfTypeAndSize(items, type) ==
    LET matches == Picked(items, {i \in DOMAIN items : items[i].type = type})
    IN Picked(matches, {i \in DOMAIN matches :
                  \A j \in 1 .. i : matches[j].size = matches[1].size})

\* No permission is checked, and the first value is not cut to the MTU.
ReadByType(services, start, end, type, mtu) ==
    LET matches == OfTypeAndSize(Window(services, start, end), type)
        size    == 2 + (IF matches = <<>> THEN 0 ELSE matches[1].size)
        entries == [i \in DOMAIN matches |-> [handle |-> matches[i].handle, size |-> matches[i].size]]
    IN Listing("read_by_type", start, Page(entries, 2, size, mtu), 2, size)

ReadByGroupType(services, start, end, type, mtu) ==
    LET within == Picked(services, {i \in DOMAIN services :
                      LET service == Service[services[i]] IN
                      /\ start <= service.start_handle /\ service.end_handle <= end
                      /\ service.items[1].type = type})
        entries == [i \in DOMAIN within |->
                      [handle |-> Service[within[i]].start_handle, end |-> Service[within[i]].end_handle]]
    IN Listing("read_by_group_type", start, Page(entries, 2, 6, mtu), 2, 6)
=============================================================================
