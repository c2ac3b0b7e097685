------------------------------ MODULE MCExamples ----------------------------
(* The examples around the firmware, each on its own: a behaviour is one of the example
   that `part` names, the others stand still. *)
EXTENDS AccessPoint, TcpEcho, WifiClients,
        BleTemperature, UsbDevice, UsbHid, UsbDescriptors, Ssd1306,
        CharDisplays, Sensors, SerialMemories,
        Ws2812Parallel, DmaExamples, PioDisplays, CoreExamples, PioBuses,
        MathBlocks, IrqExamples, Signals, BoardExamples

MCMsgLengths == {0, 11, 12, 13, 17, 100, 265, 266, 267, 268, 299, 300, 301}
MCTexts == {<<65>>, <<98, 55>>, <<64, 90, 48, 49>>}
MCLedStrings == {<<65, 98, 50, 67>>, <<65, 32, 50, 67, 68>>, <<65, 66, 67, 68, 69, 70, 71>>, <<65>>}
MCMessages == {<<<<65, 66, 67>>, <<68>>>>, <<<<>>, <<69, 70>>>>}
(* The calibration of the data sheet's worked example. *)
MCdig == [T1 |-> 27504, T2 |-> 26435, T3 |-> -1000, P1 |-> 36477, P2 |-> -10685, P3 |-> 3024,
          P4 |-> 2855, P5 |-> 140, P6 |-> -7, P7 |-> 15500, P8 |-> -14600, P9 |-> 6000,
          H1 |-> 75, H2 |-> 362, H3 |-> 0, H4 |-> 320, H5 |-> 50, H6 |-> 30]
(* Every sentence of up to six characters whose fields fit the code's row. *)
MCSentences == {s \in UNION {[1..k -> {"a", "b", ","}] : k \in 1..6} :
                   \A k \in 1..Len(s) - 3 : \E j \in k..k + 3 : s[j] = ","}
MCRandoms == {<<200, 255, 17>>}
MCRotations == {<<65536, 0, 0, 65536>>, <<46340, -46340, 46340, 46340>>,
                <<-65523, -1310, 1310, -65523>>}
MCPresent == {{8, 18, 52, 119}, {3, 9, 125}}
MCFreePio == {<<32, 4>>, <<12, 4>>, <<20, 4>>, <<3, 4>>, <<32, 2>>}
MCRemotes == {<<4, 8>>}
MCReadings == {[type |-> 22, hum |-> 652, temp |-> -101], [type |-> 22, hum |-> 999, temp |-> 351],
               [type |-> 11, hum |-> 450, temp |-> 230]}
HelloWorld == <<72, 101, 108, 108, 111, 32, 119, 111, 114, 108, 100>>

VARIABLE part

vars == <<part, dhcpVars, dnsVars, echoVars, httpVars, wifiVars, bleVars, usbVars, hidVars,
          descVars, oledVars, ledVars, lcdVars, maxVars, ttyVars, sensorVars, boschVars,
          slaveVars, flashVars, nmeaVars, wsVars, dmaVars, pioVars, coreVars, i2cVars,
          spiVars, interpVars, divVars, irqVars, signalVars, boardVars>>

(* A part that does not run starts in one of its initial states only. *)
Init ==
    /\ part \in {"dhcp", "dns", "echo", "http", "wifi", "ble", "usb", "hid", "desc", "oled",
                "led", "lcd", "max", "tty", "sensor", "bosch", "slave", "flash", "nmea",
                "ws", "dma", "pio", "core", "i2c", "spi", "interp", "div", "irq", "signal", "board"}
    /\ DhcpInit /\ DnsInit /\ EchoInit /\ BleInit /\ UsbInit /\ HidInit /\ LedInit /\ LcdInit
    /\ SlaveInit /\ WsInit /\ InterpInit /\ DivInit
    /\ HttpInit /\ (part # "http" => led = FALSE)
    /\ WifiInit /\ (part # "wifi" => wifi = "ntp_poll")
    /\ DescInit /\ (part # "desc" => usbDev = "hid")
    /\ OledInit /\ (part # "oled" => ram[0] = {} /\ dev = [k \in DOMAIN dev |-> FALSE])
    /\ MaxInit /\ (part # "max" => maxPc = "next")
    /\ TtyInit /\ (part # "tty" => ttyWire[3] = 0)
    /\ SensorInit /\ (part # "sensor" => sensor = "mpu" /\ sample = 0)
    /\ BoschInit /\ (part # "bosch" => chip = "bmp280")
    /\ FlashInit /\ (part # "flash" => flash = [mem |-> Erased, enabled |-> FALSE, busy |-> "no"])
    /\ NmeaInit /\ (part # "nmea" => output = <<"a">>)
    /\ DmaInit /\ (part # "dma" => ex = "hello" /\ fifo = <<>>)
    /\ PioInit /\ (part # "pio" => panel = "hub")
    /\ CoreInit /\ (part # "core" => coreProg = "hello")
    /\ I2cInit /\ (part # "i2c" => i2c.scan = "no" /\ sm.devices = {3, 9, 125})
    /\ SpiInit /\ (part # "spi" => spi.prog = "flash")
    /\ IrqInit /\ (part # "irq" => job = "uart")
    /\ SignalInit /\ (part # "signal" => program = "dht")
    /\ BoardInit /\ (part # "board" => demo = "gpio")

Next ==
    /\ UNCHANGED part
    /\ \/ part = "dhcp"   /\ DhcpNext
       \/ part = "dns"    /\ DnsNext
       \/ part = "echo"   /\ EchoNext
       \/ part = "http"   /\ HttpNext
       \/ part = "wifi"   /\ WifiNext
       \/ part = "ble"    /\ BleNext
       \/ part = "usb"    /\ UsbNext
       \/ part = "hid"    /\ HidNext
       \/ part = "desc"   /\ DescNext
       \/ part = "oled"   /\ OledNext
       \/ part = "led"    /\ LedNext
       \/ part = "lcd"    /\ LcdNext
       \/ part = "max"    /\ MaxNext
       \/ part = "tty"    /\ TtyNext
       \/ part = "sensor" /\ SensorNext
       \/ part = "bosch"  /\ BoschNext
       \/ part = "slave"  /\ SlaveNext
       \/ part = "flash"  /\ FlashNext
       \/ part = "nmea"   /\ NmeaNext
       \/ part = "ws"     /\ WsNext
       \/ part = "dma"    /\ DmaNext
       \/ part = "pio"    /\ PioNext
       \/ part = "core"   /\ CoreNext
       \/ part = "i2c"    /\ I2cNext
       \/ part = "spi"    /\ SpiNext
       \/ part = "interp" /\ InterpNext
       \/ part = "div"    /\ DivNext
       \/ part = "irq"    /\ IrqNext
       \/ part = "signal" /\ SignalNext
       \/ part = "board"  /\ BoardNext
    /\ part # "dhcp"   => UNCHANGED dhcpVars
    /\ part # "dns"    => UNCHANGED dnsVars
    /\ part # "echo"   => UNCHANGED echoVars
    /\ part # "http"   => UNCHANGED httpVars
    /\ part # "wifi"   => UNCHANGED wifiVars
    /\ part # "ble"    => UNCHANGED bleVars
    /\ part # "usb"    => UNCHANGED usbVars
    /\ part # "hid"    => UNCHANGED hidVars
    /\ part # "desc"   => UNCHANGED descVars
    /\ part # "oled"   => UNCHANGED oledVars
    /\ part # "led"    => UNCHANGED ledVars
    /\ part # "lcd"    => UNCHANGED lcdVars
    /\ part # "max"    => UNCHANGED maxVars
    /\ part # "tty"    => UNCHANGED ttyVars
    /\ part # "sensor" => UNCHANGED sensorVars
    /\ part # "bosch"  => UNCHANGED boschVars
    /\ part # "slave"  => UNCHANGED slaveVars
    /\ part # "flash"  => UNCHANGED flashVars
    /\ part # "nmea"   => UNCHANGED nmeaVars
    /\ part # "ws"     => UNCHANGED wsVars
    /\ part # "dma"    => UNCHANGED dmaVars
    /\ part # "pio"    => UNCHANGED pioVars
    /\ part # "core"   => UNCHANGED coreVars
    /\ part # "i2c"    => UNCHANGED i2cVars
    /\ part # "spi"    => UNCHANGED spiVars
    /\ part # "interp" => UNCHANGED interpVars
    /\ part # "div"    => UNCHANGED divVars
    /\ part # "irq"    => UNCHANGED irqVars
    /\ part # "signal" => UNCHANGED signalVars
    /\ part # "board"  => UNCHANGED boardVars

Spec == Init /\ [][Next]_vars

(* WaitsEnd: a client that waits has something that will end its wait, and a peer
   that asked for readings gets them on the connection it has (picow_ntp_client.c,
   picow_tls_client.c, server_common.c). *)
WaitsEnd == WaitEnds /\ ReadyIsServed

(* UsbAnswers: the device keeps in step with the host, and a key pressed once is typed
   once (dev_lowlevel.c, hid_app.c). *)
UsbAnswers == UsbInStep /\ KeyTypedOnce

(* DisplaysAreTrue: the displays, panels and strips show what was written or drawn, over
   scrolling, restarts, dithering and transfers that are still under way. *)
DisplaysAreTrue == OledShows /\ DisplaysShow /\ LightIsConserved /\ PanelsShow

(* SensorsAreRight: a printed value is of one sample, compensated with that sample's
   temperature, and a sentence is split into its own fields. *)
SensorsAreRight == SensorValueWhole /\ Compensated /\ SentenceSplit

(* TransfersAreWhole: what is read from a memory, over a PIO bus or by a DMA channel is
   what was written there, and the descriptors that a USB host reads are whole: as long
   as they state, with all that they announce. *)
TransfersAreWhole == MemoriesReadBack /\ PioBusesCarry /\ DmaDelivers /\ DescribesItself

(* HandlersAndCores: between the cores, an interrupt handler and its main loop and in the
   arithmetic units, nothing is lost, torn or computed from another function's registers,
   and timers, alarms, flash and pins do what their programs are written for. *)
HandlersAndCores == NothingLost /\ IrqDelivers /\ MathIsRight /\ BoardBehaves
=============================================================================
