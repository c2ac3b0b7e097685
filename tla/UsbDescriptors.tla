--------------------------- MODULE UsbDescriptors ----------------------------
(***************************************************************************)
(* The descriptors a host reads when it enumerates one of the two USB        *)
(* devices: usb/device/dev_lowlevel, whose handlers copy the structures of   *)
(* usb_common.h into one 64-byte packet, and usb/device/dev_hid_composite,   *)
(* whose callbacks hand TinyUSB arrays built by its macros.  A descriptor is *)
(* the sequence of its bytes, a 16-bit field two of them, low byte first.    *)
(***************************************************************************)
EXTENDS Integers, Sequences, SequencesExt, FiniteSets

CONSTANTS wLengths      \* the lengths a host may ask for

VARIABLES usbDev, request, answered, ep0_buf_used

descVars == <<usbDev, request, answered, ep0_buf_used>>

U16(x) == <<x % 256, x \div 256>>
USB_DT_DEVICE == 1
USB_DT_CONFIG == 2
USB_DT_STRING == 3
USB_DT_INTERFACE == 4
USB_DT_ENDPOINT == 5

(* The structures: the bytes of their fields in order; the first is the size. *)
Sized(fields) == <<Len(fields) + 1>> \o fields
usb_device_descriptor(bcdUSB, class, vid, pid, bcdDevice, strings, configs) ==
    Sized(<<USB_DT_DEVICE>> \o U16(bcdUSB) \o class \o <<64>> \o U16(vid) \o U16(pid)
          \o U16(bcdDevice) \o strings \o <<configs>>)
usb_configuration_descriptor(total, interfaces, attributes, power) ==
    Sized(<<USB_DT_CONFIG>> \o U16(total) \o <<interfaces, 1, 0, attributes, power>>)
usb_interface_descriptor(no, endpoints, class) ==
    Sized(<<USB_DT_INTERFACE, no, 0, endpoints>> \o class \o <<0>>)
usb_endpoint_descriptor(address, attributes, size, interval) ==
    Sized(<<USB_DT_ENDPOINT, address, attributes>> \o U16(size) \o <<interval>>)

-----------------------------------------------------------------------------
(* dev_lowlevel: endpoint tables of dev_config after the two of EP0. *)
device_descriptor == usb_device_descriptor(272, <<0, 0, 0>>, 0, 1, 0, <<1, 2, 0>>, 1)
interface_descriptor == usb_interface_descriptor(0, 2, <<255, 0, 0>>)
ep1_out == usb_endpoint_descriptor(1, 2, 64, 0)
ep2_in == usb_endpoint_descriptor(130, 2, 64, 0)
endpoints == <<ep1_out, ep2_in>>
WithoutEndpoints == usb_configuration_descriptor(9 + Len(interface_descriptor), 1, 192, 50)
config_descriptor ==
    usb_configuration_descriptor(9 + Len(interface_descriptor) + Len(ep1_out) + Len(ep2_in),
                                 1, 192, 50)
lang_descriptor == <<4, USB_DT_STRING, 9, 4>>
(* Vendor and product: 12 and 16 characters, all written as one letter. *)
descriptor_strings == <<[i \in 1 .. 12 |-> 82], [i \in 1 .. 16 |-> 80]>>

wTotalLength(config) == config[3] + (256 * config[4])

handle_config_descriptor(wLength) ==
    IF wLength >= wTotalLength(config_descriptor)
    THEN config_descriptor \o interface_descriptor \o FlattenSeq(endpoints)
    ELSE config_descriptor
Wide(str) == FlattenSeq([i \in DOMAIN str |-> <<str[i], 0>>])
prepare_string_descriptor(str) == <<2 + (2 * Len(str)), USB_DT_STRING>> \o Wide(str)
handle_string_descriptor(i) ==
    IF i = 0 THEN lang_descriptor ELSE prepare_string_descriptor(descriptor_strings[i])

-----------------------------------------------------------------------------
(* dev_hid_composite: TinyUSB's macros (external) over this program's arguments. *)
REPORT_IDS == <<1, 2, 3, 4>>
TUD_CONFIG_DESCRIPTOR(count, total, attribute, mA) ==
    usb_configuration_descriptor(total, count, 128 + attribute, mA \div 2)
TUD_HID_DESCRIPTOR(no, reportLen, epin, size, interval) ==
    usb_interface_descriptor(no, 1, <<3, 0, 0>>)
      \o (<<9, 33>> \o U16(273) \o <<0, 1, 34>> \o U16(reportLen))
      \o usb_endpoint_descriptor(epin, 3, size, interval)
(* A report's collection, of which only the ID and the length matter. *)
TUD_HID_REPORT_DESC(id) == [id |-> id, bytes |-> 20 + (10 * id)]
desc_hid_report == [i \in 1 .. 4 |-> TUD_HID_REPORT_DESC(REPORT_IDS[i])]
ReportLen == FoldLeft(LAMBDA n, r : n + r.bytes, 0, desc_hid_report)
USB_PID == 16384 + 4
desc_device == usb_device_descriptor(512, <<0, 0, 0>>, 51966, USB_PID, 256, <<1, 2, 3>>, 1)
CONFIG_TOTAL_LEN == 9 + (9 + 9 + 7)
desc_configuration == TUD_CONFIG_DESCRIPTOR(1, CONFIG_TOTAL_LEN, 32, 100)
                      \o TUD_HID_DESCRIPTOR(0, ReportLen, 129, 16, 5)
string_desc_arr == <<[i \in 1 .. 7 |-> 84], [i \in 1 .. 14 |-> 84], [i \in 1 .. 6 |-> 49]>>
tud_descriptor_string_cb(index) ==
    IF index = 0 THEN <<4, USB_DT_STRING, 9, 4>>
    ELSE IF index > Len(string_desc_arr) THEN <<>>
    ELSE LET s == string_desc_arr[index]
             n == IF Len(s) > 31 THEN 31 ELSE Len(s)
         IN <<(2 * n) + 2, USB_DT_STRING>> \o Wide(SubSeq(s, 1, n))

-----------------------------------------------------------------------------
Cut(bytes, n) == SubSeq(bytes, 1, IF Len(bytes) < n THEN Len(bytes) ELSE n)
Device == IF usbDev = "lowlevel" THEN device_descriptor ELSE desc_device
(* The strings a host asks for: the languages, and those the descriptors name. *)
Named == {0} \cup ({Device[15], Device[16], Device[17]} \ {0})

DescInit == usbDev \in {"lowlevel", "hid"} /\ request = <<>> /\ answered = <<>> /\ ep0_buf_used = 0

Reply(r, bytes, used) == request' = r /\ answered' = Cut(bytes, r[3]) /\ ep0_buf_used' = used

GetDevice ==
    /\ \E n \in wLengths : Reply(<<USB_DT_DEVICE, 0, n>>, Device, 0)
    /\ UNCHANGED usbDev
GetConfiguration ==
    /\ \E n \in wLengths :
         LET bytes == IF usbDev = "lowlevel" THEN handle_config_descriptor(n)
                      ELSE desc_configuration
         IN Reply(<<USB_DT_CONFIG, 0, n>>, bytes, IF usbDev = "lowlevel" THEN Len(bytes) ELSE 0)
    /\ UNCHANGED usbDev
(* dev_lowlevel also stores the terminating character it does not send. *)
GetString ==
    /\ \E n \in wLengths, i \in Named :
         LET bytes == IF usbDev = "lowlevel" THEN handle_string_descriptor(i)
                      ELSE tud_descriptor_string_cb(i)
         IN Reply(<<USB_DT_STRING, i, n>>, bytes,
                    IF usbDev = "lowlevel" /\ i > 0 THEN Len(bytes) + 2 ELSE Len(bytes))
    /\ UNCHANGED usbDev

DescNext == GetDevice \/ GetConfiguration \/ GetString

-----------------------------------------------------------------------------
(* Where the descriptors of a configuration start, following their lengths. *)
Starts(bytes) ==
    FoldLeft(LAMBDA at, b : IF Last(at) > Len(bytes) \/ bytes[Last(at)] = 0 THEN at
                            ELSE Append(at, Last(at) + bytes[Last(at)]),
             <<1>>, bytes)
OfType(bytes, type) == {i \in DOMAIN Starts(bytes) : Starts(bytes)[i] < Len(bytes)
                                                     /\ bytes[Starts(bytes)[i] + 1] = type}
ByteAt(bytes, i, k) == bytes[Starts(bytes)[i] + k]
EndpointsOf(bytes, i) == {j \in OfType(bytes, USB_DT_ENDPOINT) : j > i
                          /\ \A m \in OfType(bytes, USB_DT_INTERFACE) : ~(i < m /\ m < j)}

(* A reply is never longer than was asked for nor than the buffer it was built in; read
   whole, it has the length it states, a configuration is exactly its announced
   interfaces with their announced endpoints, and every named string exists. *)
DescribesItself ==
    request # <<>> =>
      /\ Len(answered) <= request[3] /\ ep0_buf_used <= 64
      /\ request[3] >= 64 /\ request[1] # USB_DT_CONFIG => Len(answered) > 1 /\ answered[1] = Len(answered)
      /\ request[3] >= 64 /\ request[1] = USB_DT_CONFIG =>
           /\ wTotalLength(answered) = Len(answered) /\ Last(Starts(answered)) = Len(answered) + 1
           /\ Cardinality(OfType(answered, USB_DT_INTERFACE)) = answered[5]
           /\ \A i \in OfType(answered, USB_DT_INTERFACE) :
                Cardinality(EndpointsOf(answered, i)) = ByteAt(answered, i, 4)
=============================================================================
