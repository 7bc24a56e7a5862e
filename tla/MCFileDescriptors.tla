------------------------- MODULE MCFileDescriptors -------------------------
(***************************************************************************)
(* An instance with five descriptors, two of them for the program, two    *)
(* character devices and a file system that provides every method.         *)
(***************************************************************************)
EXTENDS FileDescriptors, TLC

MCNull        == <<"dev", "null">>
MCConsole     == <<"dev", "jtag_uart_0">>
MCDevices     == {MCNull, MCConsole}
MCFileSystem  == <<"mnt">>
MCFileSystems == {MCFileSystem}
MCNames       == {MCNull, MCConsole, <<"mnt", "file">>, <<"none">>}

\* No flag, or a flag of its own and one of the private ones.
MCFlagArgs == {{}, {"NONBLOCK", "EXCL"}}

\* alt_dev_null, ALTERA_AVALON_JTAG_UART_DEV_INSTANCE, and a file system.
MCMethods ==
    (MCNull :> {"write"})
    @@ (MCConsole :> {"close", "read", "write", "ioctl"})
    @@ (MCFileSystem :> {"open", "close", "read", "write", "lseek", "fstat", "ioctl"})

=============================================================================
